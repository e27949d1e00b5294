------------------------------- MODULE Worker -------------------------------
(***************************************************************************)
(* The worker process: consume_loop takes a message, _handle_message hands *)
(* it to AnalysisProcessor.process, and the offset is committed when that  *)
(* returns, however it returns.  process() is three kinds of transaction   *)
(* with the analyzer call between them, so a crash, a rebalance or another *)
(* worker may come between any two; its local variables die with it.       *)
(***************************************************************************)
EXTENDS PhotoRows, Topic, Faults

CONSTANTS
    NoMessage,      \* `message` before the first getone() and between two
    AnalyzerErrors  \* what the analyzer call may raise

ASSUME WorkerAssumption ==
    /\ Photos \subseteq Messages
    /\ NoMessage \notin Messages
    /\ AnalyzerErrors \subseteq Exceptions

(* The faults that strike here.                                            *)
WorkerDbError == "worker_db_error"  \* a statement or commit in process() raises
WorkerCrash   == "worker_crash"     \* the process is killed, at any point
WorkerStops   == "worker_stops"     \* SIGTERM
CommitError   == "commit_error"     \* consumer.commit() raises
Rebalance     == "rebalance"        \* the partition of a live worker moves

VARIABLES
    pc,         \* where each worker is in consume_loop and process()
    message,    \* the message it has taken
    attempt,    \* the loop variable of the retry loop
    lastCode    \* last_code, the error code of the last failed attempt

workerVars == <<pc, message, attempt, lastCode>>

(* While one of these holds, process() has won the claim.                  *)
InProcess == {"analyzing", "completing", "failing"}

(* While one of these holds, a message has been taken and not answered.    *)
InFlight == {"claiming", "committing"} \cup InProcess

WorkerInit ==
    /\ pc = [w \in Workers |-> "polling"]
    /\ message = [w \in Workers |-> NoMessage]
    /\ attempt = [w \in Workers |-> 1]
    /\ lastCode = [w \in Workers |-> "UNKNOWN"]

WorkerType ==
    /\ pc \in [Workers -> {"stopped", "polling"} \cup InFlight]
    /\ message \in [Workers -> Messages \cup {NoMessage}]
    /\ attempt \in [Workers -> 1..MaxAttempts]
    /\ lastCode \in [Workers -> ErrorCodes]

Goto(w, place) == pc' = [pc EXCEPT ![w] = place]

(* process() returns or raises: _handle_message logs what it raised, and   *)
(* consume_loop goes on to commit the offset.                              *)
Return(w) ==
    /\ Goto(w, "committing")
    /\ attempt' = [attempt EXCEPT ![w] = 1]
    /\ lastCode' = [lastCode EXCEPT ![w] = "UNKNOWN"]
    /\ UNCHANGED message

(* The process ends: what it held is lost, the group reassigns its         *)
(* partition.                                                              *)
Exit(w) ==
    /\ Goto(w, "stopped")
    /\ attempt' = [attempt EXCEPT ![w] = 1]
    /\ lastCode' = [lastCode EXCEPT ![w] = "UNKNOWN"]
    /\ message' = [message EXCEPT ![w] = NoMessage]
    /\ Leave(w)
    /\ UNCHANGED rowVars

-----------------------------------------------------------------------------
(* consume_loop.                                                           *)
FetchAndCommit(w) ==        \* mutant: the offset is committed before processing
    /\ pc[w] = "polling"
    /\ HasNext(w)
    /\ position' = [position EXCEPT ![w] = @ + 1]
    /\ committed' = position[w] + 1
    /\ message' = [message EXCEPT ![w] = NextMessage(w)]
    /\ Goto(w, "claiming")
    /\ UNCHANGED <<topic, owner, attempt, lastCode, rowVars, faults>>

Fetch(w) ==
    /\ pc[w] = "polling"
    /\ Take(w)
    /\ message' = [message EXCEPT ![w] = NextMessage(w)]
    /\ Goto(w, "claiming")
    /\ UNCHANGED <<attempt, lastCode, rowVars, faults>>

CommitOffset(w) ==
    /\ pc[w] = "committing"
    /\ CommitPosition(w)
    /\ Goto(w, "polling")
    /\ message' = [message EXCEPT ![w] = NoMessage]
    /\ UNCHANGED <<attempt, lastCode, rowVars, faults>>

(* commit() raises out of consume_loop and ends the process.               *)
CommitOffsetFails(w) ==
    /\ pc[w] = "committing"
    /\ Suffer(CommitError)
    /\ Exit(w)

(* Mutant: a poison message is left for the next delivery.                 *)
DropPoisonUnanswered(w) ==
    /\ pc[w] = "claiming"
    /\ message[w] \notin Photos
    /\ Goto(w, "polling")
    /\ message' = [message EXCEPT ![w] = NoMessage]
    /\ position' = [position EXCEPT ![w] = committed]
    /\ UNCHANGED <<attempt, lastCode, rowVars, topic, committed, owner, faults>>

(* Not JSON, without a photo_id or an object_key, or with a photo_id that  *)
(* is no uuid or no photo's: dropped, logged as an error or skipped, and   *)
(* the offset still commits.                                               *)
DropPoison(w) ==
    /\ pc[w] = "claiming"
    /\ message[w] \notin Photos
    /\ Return(w)
    /\ UNCHANGED <<rowVars, topicVars, faults>>

-----------------------------------------------------------------------------
(* AnalysisProcessor.process.                                              *)
Claim(w, p) ==
    /\ pc[w] = "claiming"
    /\ message[w] = p
    /\ Unlocked(p)
    /\ ClaimForProcessing(p)
    /\ IF Claimable(p)
         THEN Goto(w, "analyzing") /\ UNCHANGED <<message, attempt, lastCode>>
         ELSE Return(w)
    /\ UNCHANGED <<topicVars, faults>>

AnalyzeSucceeds(w, p) ==
    /\ pc[w] = "analyzing"
    /\ message[w] = p
    /\ Goto(w, "completing")
    /\ UNCHANGED <<message, attempt, lastCode, rowVars, topicVars, faults>>

(* The call raises or times out: the error is classified and recorded, and *)
(* the loop ends, or goes round after a backoff.                           *)
LastAttemptNever(w, exc) ==     \* mutant: retried without limit
    classify_grpc_error(exc) = NoRetry

LastAttempt(w, exc) ==
    classify_grpc_error(exc) = NoRetry \/ attempt[w] = MaxAttempts

GiveUpUnwritten(w, p, exc) ==   \* mutant: mark_failed is skipped at the last attempt
    /\ pc[w] = "analyzing"
    /\ message[w] = p
    /\ Unlocked(p)
    /\ RecordAttempt(p, attempt[w], error_code_from_exception(exc))
    /\ IF LastAttempt(w, exc)
         THEN Return(w)
         ELSE /\ attempt' = [attempt EXCEPT ![w] = @ + 1]
              /\ lastCode' = [lastCode EXCEPT ![w] = error_code_from_exception(exc)]
              /\ UNCHANGED <<pc, message>>
    /\ UNCHANGED <<topicVars, faults>>

AnalyzeFails(w, p, exc) ==
    /\ pc[w] = "analyzing"
    /\ message[w] = p
    /\ Unlocked(p)
    /\ RecordAttempt(p, attempt[w], error_code_from_exception(exc))
    /\ lastCode' = [lastCode EXCEPT ![w] = error_code_from_exception(exc)]
    /\ IF LastAttempt(w, exc)
         THEN Goto(w, "failing") /\ UNCHANGED attempt
         ELSE attempt' = [attempt EXCEPT ![w] = @ + 1] /\ UNCHANGED pc
    /\ UNCHANGED <<message, topicVars, faults>>

WriteDone(w, p) ==
    /\ pc[w] = "completing"
    /\ message[w] = p
    /\ Unlocked(p)
    /\ UpsertAndMarkDone(p, attempt[w])
    /\ Return(w)
    /\ UNCHANGED <<topicVars, faults>>

WriteFailed(w, p) ==
    /\ pc[w] = "failing"
    /\ message[w] = p
    /\ Unlocked(p)
    /\ MarkFailed(p, lastCode[w], attempt[w])
    /\ Return(w)
    /\ UNCHANGED <<topicVars, faults>>

(* A database error inside process(): nothing was committed, or the commit *)
(* took effect and its answer was lost.  Either way the exception leaves   *)
(* process().                                                              *)
DbError(w, p) ==
    /\ pc[w] \in {"claiming"} \cup InProcess
    /\ message[w] = p
    /\ Suffer(WorkerDbError)
    /\ \/ UNCHANGED rowVars
       \/ pc[w] = "claiming" /\ Unlocked(p) /\ ClaimForProcessing(p)
       \/ /\ pc[w] = "analyzing" /\ Unlocked(p)
          /\ \E exc \in AnalyzerErrors :
               RecordAttempt(p, attempt[w], error_code_from_exception(exc))
       \/ pc[w] = "completing" /\ Unlocked(p) /\ UpsertAndMarkDone(p, attempt[w])
       \/ /\ pc[w] = "failing" /\ Unlocked(p)
          /\ MarkFailed(p, lastCode[w], attempt[w])
    /\ Return(w)
    /\ UNCHANGED topicVars

-----------------------------------------------------------------------------
(* The process and its membership of the consumer group.                   *)
Crash(w) ==
    /\ pc[w] # "stopped"
    /\ Suffer(WorkerCrash)
    /\ Exit(w)

(* SIGTERM is answered at the top of consume_loop, after the message in    *)
(* flight has been answered and its offset committed.                      *)
StopAtOnce(w) ==        \* mutant: SIGTERM does not wait for the message
    /\ pc[w] # "stopped"
    /\ Suffer(WorkerStops)
    /\ Exit(w)

Stop(w) ==
    /\ pc[w] = "polling"
    /\ Suffer(WorkerStops)
    /\ Exit(w)

StartWorker(w) ==
    /\ pc[w] = "stopped"
    /\ Goto(w, "polling")
    /\ UNCHANGED <<message, attempt, lastCode, rowVars, topicVars, faults>>

Join(w) ==
    /\ owner = Nobody
    /\ pc[w] # "stopped"
    /\ Assign(w)
    /\ UNCHANGED <<workerVars, rowVars, faults>>

(* The partition of a live worker moves, or is given to it again after a   *)
(* lost session; a message it has in flight stays in flight.               *)
RebalanceTo(w) ==
    /\ owner \in Workers
    /\ pc[w] # "stopped"
    /\ Suffer(Rebalance)
    /\ Assign(w)
    /\ UNCHANGED <<workerVars, rowVars>>

(* Everything a worker does by itself while nothing goes wrong.            *)
WorkerStep(w) ==
    \/ Join(w)
    \/ Fetch(w)
    \/ DropPoison(w)
    \/ \E p \in Photos :
         \/ Claim(w, p)
         \/ AnalyzeSucceeds(w, p)
         \/ \E exc \in AnalyzerErrors : AnalyzeFails(w, p, exc)
         \/ WriteDone(w, p)
         \/ WriteFailed(w, p)
    \/ CommitOffset(w)

WorkerNext ==
    \E w \in Workers :
        \/ WorkerStep(w)
        \/ CommitOffsetFails(w)
        \/ \E p \in Photos : DbError(w, p)
        \/ Crash(w)
        \/ Stop(w)
        \/ StartWorker(w)
        \/ RebalanceTo(w)
=============================================================================
