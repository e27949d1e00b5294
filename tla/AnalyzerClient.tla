--------------------------- MODULE AnalyzerClient ---------------------------
(***************************************************************************)
(* What AnalyzerGrpcClient.analyze, under the asyncio.timeout of its       *)
(* caller, may raise; how classify_grpc_error decides whether to try       *)
(* again; and what error_code_from_exception leaves in the row.            *)
(***************************************************************************)

(* The status codes an AioRpcError may carry; and the ones worth a retry.  *)
GrpcCodes ==
    {"CANCELLED", "UNKNOWN", "INVALID_ARGUMENT", "DEADLINE_EXCEEDED", "NOT_FOUND",
     "ALREADY_EXISTS", "PERMISSION_DENIED", "RESOURCE_EXHAUSTED", "ABORTED",
     "FAILED_PRECONDITION", "OUT_OF_RANGE", "UNIMPLEMENTED", "INTERNAL",
     "UNAVAILABLE", "DATA_LOSS", "UNAUTHENTICATED"}

RetryableCodes ==
    {"UNAVAILABLE", "DEADLINE_EXCEEDED", "RESOURCE_EXHAUSTED", "ABORTED", "INTERNAL"}

(* An exception: its class, and its code if it is an AioRpcError.          *)
NoCode == "no_code"
RpcErrors == [class : {"AioRpcError"}, code : GrpcCodes]
TimeoutError == [class |-> "TimeoutError", code |-> NoCode]
OtherError == [class |-> "Exception", code |-> NoCode]
Exceptions == RpcErrors \cup {TimeoutError, OtherError}

(* RetryDecision                                                           *)
Retry   == "retry"
NoRetry == "no_retry"

RpcErrorsOnly(exc) ==       \* mutant: a timeout is not told apart
    IF exc.code \in RetryableCodes THEN Retry ELSE NoRetry

classify_grpc_error(exc) ==
    IF \/ exc.class = "TimeoutError"
       \/ exc.class = "AioRpcError" /\ exc.code \in RetryableCodes
    THEN Retry ELSE NoRetry

(* photos.last_error_code                                                  *)
error_code_from_exception(exc) ==
    CASE exc.class = "TimeoutError" -> "TIMEOUT"
      [] exc.class = "AioRpcError"  -> exc.code
      [] OTHER                      -> "UNKNOWN"

ErrorCodes == GrpcCodes \cup {"TIMEOUT"}

(* The codes of the errors that pass by themselves.                        *)
TransientCodes == RetryableCodes \cup {"TIMEOUT"}
=============================================================================
