------------------------ MODULE MCAnalysisPipeline --------------------------
(***************************************************************************)
(* Instances of AnalysisPipeline for TLC.                                  *)
(***************************************************************************)
EXTENDS AnalysisPipeline, TLC

CONSTANTS p1, p2, w1, w2, poison

(* One single upload and one more, of which either may commit first.       *)
TwoPhotos == {p1, p2}
TwoSingles == {{p1}, {p2}}
TwoCreated == (p1 :> 1) @@ (p2 :> 2)

(* A batch: one commit, and one created_at.                                *)
OneBatch == {TwoPhotos}
BatchCreated == (p1 :> 1) @@ (p2 :> 1)

TwoAndPoison == TwoPhotos \cup {poison}

(* One error that is retried and one that is not; and three of which each  *)
(* is classified, and leaves its code, in another way.                     *)
RpcError(code) == [class |-> "AioRpcError", code |-> code]
TwoErrors == {TimeoutError, RpcError("NOT_FOUND")}
ThreeErrors == {TimeoutError, OtherError, RpcError("UNAVAILABLE")}

OneWorker == {w1}
TwoWorkers == {w1, w2}

EveryFault == {PublishError, OutboxDbError, ApiStops, WorkerDbError, WorkerCrash,
               WorkerStops, CommitError, Rebalance, PoisonMessage}
DeliveryFaults == EveryFault \ {WorkerDbError}
ClaimFaults == DeliveryFaults \ {WorkerCrash}
OnlyWorkerDbError == {WorkerDbError}
=============================================================================
