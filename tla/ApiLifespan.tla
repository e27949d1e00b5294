---------------------------- MODULE ApiLifespan -----------------------------
(***************************************************************************)
(* lifespan, the life of one API process, with the KafkaEventProducer it   *)
(* creates and the outbox task it runs: the producer is started at boot if *)
(* Kafka answers in time, by the task otherwise, and is stopped when the   *)
(* task has ended.  What the task publishes is the business of Outbox.     *)
(*                                                                         *)
(* All of it runs on one event loop, which readyz stops while it calls     *)
(* MinIO: the synchronous client is not run in a thread there.             *)
(***************************************************************************)
EXTENDS Naturals

CONSTANT OutboxBatchSize        \* Settings.OUTBOX_BATCH_SIZE

ASSUME LifespanAssumption == OutboxBatchSize \in Nat

VARIABLES
    kafkaUp,    \* the broker answers within the request timeout
    overdue,    \* a request of the start() in progress may have timed out
    phase,      \* where lifespan is
    task,       \* where run_outbox_publisher is
    left,       \* rows of its batch that it has still to publish
    producer,   \* KafkaEventProducer._producer
    started,    \* KafkaEventProducer._started
    probe,      \* where a readyz request is
    sigterm     \* the process has been told to stop

broker == <<kafkaUp, overdue>>
lifeVars == <<broker, phase, task, left, producer, started>>
vars == <<lifeVars, probe, sigterm>>

(* _producer: None; an AIOKafkaProducer in its first start(); one whose    *)
(* start() was cancelled; or one whose start() has returned.               *)
NoProducer == "none"
Fresh      == "fresh"
Cancelled  == "cancelled"
Running    == "running"

Init ==
    /\ kafkaUp \in BOOLEAN
    /\ overdue = FALSE
    /\ phase = "booting"
    /\ task = "none"
    /\ left = 0
    /\ producer = NoProducer
    /\ started = FALSE
    /\ probe = "none"
    /\ sigterm = FALSE

(* start() is waiting for the broker, in the boot or in the task.  Whether *)
(* a request of it may run into KAFKA_PUBLISH_TIMEOUT_SECONDS is all that  *)
(* is kept of time.                                                        *)
Starting == phase = "starting" \/ task = "ensuring"

KafkaChanges ==
    /\ kafkaUp' = ~kafkaUp
    /\ overdue' = (overdue \/ (Starting /\ kafkaUp))
    /\ UNCHANGED <<phase, task, left, producer, started>>

-----------------------------------------------------------------------------
(* ensure_started, past its fast path: what start() is called on, and how  *)
(* it ends.  A start() may fail when a request of it has timed out, be it  *)
(* that the broker was down or that the loop was held up, and on an object *)
(* that an earlier, cancelled start() has left behind; `except Exception`  *)
(* discards the object, but a cancellation passes it.                      *)
BuildProducer ==
    /\ producer' = IF producer = NoProducer THEN Fresh ELSE producer
    /\ overdue' = ~kafkaUp
    /\ UNCHANGED kafkaUp

StartEnds ==
    /\ overdue' = FALSE
    /\ UNCHANGED kafkaUp

StartReturns ==
    /\ kafkaUp
    /\ producer' = Running
    /\ started' = TRUE
    /\ StartEnds

StartRaises ==
    /\ overdue \/ producer = Cancelled
    /\ producer' = NoProducer
    /\ UNCHANGED started
    /\ StartEnds

StartCancelled ==
    /\ producer' = Cancelled
    /\ UNCHANGED started
    /\ StartEnds

-----------------------------------------------------------------------------
(* Startup.  Whatever start() does, the task is created and requests are   *)
(* served.                                                                 *)
Boot ==
    /\ phase = "booting"
    /\ phase' = "starting"
    /\ BuildProducer
    /\ UNCHANGED <<task, left, started>>

Serve ==
    /\ phase' = "serving"
    /\ task' = "top"
    /\ UNCHANGED left

BootStarts == phase = "starting" /\ StartReturns /\ Serve
BootFails  == phase = "starting" /\ StartRaises /\ Serve
BootTimesOut == phase = "starting" /\ StartCancelled /\ Serve

-----------------------------------------------------------------------------
(* The outbox task.                                                        *)
StopRequested == phase \in {"draining", "stopping", "closed"}

LeaveLoop ==
    /\ task = "top"
    /\ StopRequested
    /\ task' = "ended"
    /\ UNCHANGED <<broker, phase, left, producer, started>>

OpenBatch ==
    /\ task' = "batch"
    /\ left' \in 0..OutboxBatchSize

(* ensure_started: the fast path, or a call of start().                    *)
AlreadyStarted ==
    /\ task = "top"
    /\ ~StopRequested
    /\ started
    /\ OpenBatch
    /\ UNCHANGED <<broker, phase, producer, started>>

StartNever ==           \* mutant: only the boot starts the producer
    /\ task = "top"
    /\ ~StopRequested
    /\ ~started
    /\ task' = "waiting"
    /\ UNCHANGED <<broker, phase, left, producer, started>>

CallStart ==
    /\ task = "top"
    /\ ~StopRequested
    /\ ~started
    /\ BuildProducer
    /\ task' = "ensuring"
    /\ UNCHANGED <<phase, left, started>>

EnsureSucceeds ==
    /\ task = "ensuring"
    /\ StartReturns
    /\ OpenBatch
    /\ UNCHANGED phase

EnsureFailsOpen ==      \* mutant: the batch is opened all the same
    /\ task = "ensuring"
    /\ StartRaises
    /\ OpenBatch
    /\ UNCHANGED phase

EnsureFails ==
    /\ task = "ensuring"
    /\ StartRaises
    /\ task' = "waiting"
    /\ UNCHANGED <<phase, left>>

(* One row is published, or fails to be: the loop goes on with the next.   *)
PublishRow ==
    /\ task = "batch"
    /\ left > 0
    /\ left' = left - 1
    /\ UNCHANGED <<broker, phase, task, producer, started>>

(* The batch is committed, or an exception has ended the iteration.        *)
EndBatch ==
    /\ task = "batch"
    /\ task' = "waiting"
    /\ left' = 0
    /\ UNCHANGED <<broker, phase, producer, started>>

(* The poll interval passes, or the stop event ends it early.              *)
NextPoll ==
    /\ task = "waiting"
    /\ task' = "top"
    /\ UNCHANGED <<broker, phase, left, producer, started>>

-----------------------------------------------------------------------------
(* readyz: a SELECT, which the loop awaits, then ensure_bucket, which it   *)
(* does not; an error of either makes the answer 503.  The server asks for *)
(* no more requests once it is told to stop.                               *)
AskReady ==
    /\ phase = "serving"
    /\ ~sigterm
    /\ probe = "none"
    /\ probe' = "database"
    /\ UNCHANGED <<lifeVars, sigterm>>

CheckBucket ==
    /\ probe = "database"
    /\ probe' = "bucket"
    /\ UNCHANGED <<lifeVars, sigterm>>

Blocked == probe = "bucket"

(* The answer.  MinIO may have held up the loop for so long that the timer *)
(* of a start() has run out although the broker has answered.  asyncio     *)
(* then runs what has become ready in the meantime before it looks at new  *)
(* requests; of a start(), that may be a part or nothing.                  *)
AnswerReady ==
    /\ Blocked
    /\ probe' = "answered"
    /\ overdue' \in {overdue, overdue \/ Starting}
    /\ UNCHANGED <<kafkaUp, phase, task, left, producer, started, sigterm>>

NothingReady ==
    /\ probe = "answered"
    /\ task = "ensuring"
    /\ probe' = "none"
    /\ UNCHANGED <<lifeVars, sigterm>>

(* A step of the loop that is not the probe's.                             *)
OnLoop ==
    /\ ~Blocked
    /\ probe' = IF probe = "answered" THEN "none" ELSE probe
    /\ UNCHANGED sigterm

-----------------------------------------------------------------------------
(* Shutdown: SIGTERM may come at any time; the server waits for the boot   *)
(* and for the requests in flight before it lets lifespan go on.           *)
Sigterm ==
    /\ ~sigterm
    /\ sigterm' = TRUE
    /\ UNCHANGED <<lifeVars, probe>>

Shutdown ==
    /\ phase = "serving"
    /\ sigterm
    /\ probe = "none"
    /\ phase' = "draining"
    /\ UNCHANGED <<broker, task, left, producer, started>>

Drained ==
    /\ phase = "draining"
    /\ task = "ended"
    /\ phase' = "stopping"
    /\ UNCHANGED <<broker, task, left, producer, started>>

DrainNotCancelled ==    \* mutant: the task is left to itself
    /\ phase = "draining"
    /\ task # "ended"
    /\ phase' = "stopping"
    /\ UNCHANGED <<broker, task, left, producer, started>>

DrainForEver ==         \* mutant: the wait for the task has no timeout
    /\ phase = "draining"
    /\ task = "top"
    /\ task' = "ended"
    /\ phase' = "stopping"
    /\ UNCHANGED <<broker, left, producer, started>>

(* After OUTBOX_SHUTDOWN_TIMEOUT_SECONDS the task is cancelled where it    *)
(* is; only the call of start() has something to leave behind.             *)
DrainTimesOut ==
    /\ phase = "draining"
    /\ task # "ended"
    /\ task' = "ended"
    /\ left' = 0
    /\ phase' = "stopping"
    /\ IF task = "ensuring" THEN StartCancelled
                            ELSE UNCHANGED <<broker, producer, started>>

StopKeepsFlag ==        \* mutant: stop() does not reset _started
    /\ phase = "stopping"
    /\ phase' = "closed"
    /\ producer' = NoProducer
    /\ UNCHANGED <<broker, task, left, started>>

(* stop(): a producer that was never started is dropped as it is.          *)
StopProducer ==
    /\ phase = "stopping"
    /\ phase' = "closed"
    /\ producer' = NoProducer
    /\ started' = FALSE
    /\ UNCHANGED <<broker, task, left>>

(* The inner stop() raises, before the fields are reset; it is logged.     *)
StopRaises ==
    /\ phase = "stopping"
    /\ producer # NoProducer /\ started
    /\ phase' = "closed"
    /\ UNCHANGED <<broker, task, left, producer, started>>

-----------------------------------------------------------------------------
(* The event loop runs the task, except that nothing bounds a start()      *)
(* against a broker that does not answer.                                  *)
TaskStep ==
    /\ OnLoop
    /\ \/ LeaveLoop
       \/ AlreadyStarted
       \/ CallStart
       \/ EnsureSucceeds
       \/ PublishRow
       \/ EndBatch
       \/ NextPoll

(* The steps lifespan takes by itself: its waits for the boot and for the  *)
(* task have timeouts of their own, and the last flush has the client's.   *)
LifespanStep ==
    /\ OnLoop
    /\ \/ Boot
       \/ BootStarts
       \/ BootTimesOut
       \/ Shutdown
       \/ Drained
       \/ DrainTimesOut
       \/ StopProducer

(* The pool bounds the SELECT, and the MinIO client its calls.             *)
ProbeStep == CheckBucket \/ AnswerReady \/ NothingReady

(* After an answer the loop goes round, one way or the other.              *)
LoopStep == ProbeStep \/ (probe = "answered" /\ TaskStep)

Next ==
    \/ KafkaChanges /\ UNCHANGED <<probe, sigterm>>
    \/ TaskStep
    \/ LifespanStep
    \/ OnLoop /\ (EnsureFails \/ BootFails \/ StopRaises)
    \/ AskReady
    \/ ProbeStep
    \/ Sigterm

Spec == Init /\ [][Next]_vars

(* A start() against a broker that answers ends, well or not: its answers  *)
(* are read, and its timers looked at, whenever the loop goes round.       *)
EnsureEnds == OnLoop /\ kafkaUp /\ (EnsureSucceeds \/ EnsureFails)

FairSpec ==
    /\ Spec
    /\ WF_vars(TaskStep) /\ WF_vars(LifespanStep) /\ WF_vars(LoopStep)
    /\ SF_vars(EnsureEnds)

-----------------------------------------------------------------------------
(* Types; and the two fields of the producer agree, so that a producer is  *)
(* stopped if and only if its start() has returned, and only a start() in  *)
(* progress has a timer running.                                           *)
TypeOK ==
    /\ kafkaUp \in BOOLEAN
    /\ overdue \in BOOLEAN /\ (overdue => Starting)
    /\ phase \in {"booting", "starting", "serving", "draining", "stopping", "closed"}
    /\ task \in {"none", "top", "ensuring", "batch", "waiting", "ended"}
    /\ left \in 0..OutboxBatchSize
    /\ producer \in {NoProducer, Fresh, Cancelled, Running}
    /\ started = (producer = Running)
    /\ probe \in {"none", "database", "bucket", "answered"}
    /\ sigterm \in BOOLEAN

(* publish_analysis_requested never meets a producer that is not started   *)
(* (its RuntimeError is unreachable): not after a failed start, not during *)
(* the shutdown.                                                           *)
PublishesOnlyWhenStarted ==
    task = "batch" => started /\ phase \in {"serving", "draining"}

(* lifespan stops the producer and disposes of the engine only when the    *)
(* task, which uses both, is over.                                         *)
TaskEndsFirst ==
    phase \in {"stopping", "closed"} => task = "ended"

(* ensure_started in every iteration: a producer that could not be started *)
(* at boot, whatever the reason, is started once Kafka stays up, however   *)
(* often readyz stops the loop, if in the end none of these stops outlasts *)
(* the request timeout of a start().                                       *)
SelfHeals == <>[](kafkaUp /\ phase = "serving" /\ ~overdue) => <>[]started

(* A process that is told to stop does: during its boot, in a readyz that  *)
(* waits for MinIO, and in the middle of a start() that hangs.             *)
ShutdownEnds == sigterm ~> phase = "closed"

(* ensure_started's docstring (kafka_producer.py:65): "On failure, the     *)
(* half-started AIOKafkaProducer is discarded so the NEXT call builds and  *)
(* starts a brand new one".                                                *)
EveryStartIsFresh == task = "ensuring" => producer = Fresh
=============================================================================
