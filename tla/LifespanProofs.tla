--------------------------- MODULE LifespanProofs ---------------------------
(***************************************************************************)
(* Theorems about ApiLifespan, for every size of a batch of the outbox and *)
(* every behaviour of the broker; no fairness is assumed.                  *)
(***************************************************************************)
EXTENDS ApiLifespan, TLAPS

(* The task runs while lifespan serves or drains, and only then; start()   *)
(* is called, at boot or by the task, on a producer not yet started.       *)
Phased ==
    /\ phase \in {"booting", "starting"} <=> task = "none"
    /\ task = "ended" => phase \notin {"booting", "starting", "serving"}
    /\ phase = "booting" => producer = NoProducer
    /\ phase = "starting" \/ task = "ensuring" => ~started

LifespanInv ==
    /\ TypeOK
    /\ Phased
    /\ PublishesOnlyWhenStarted
    /\ TaskEndsFirst

(* The invariant holds of a process that has not booted.                   *)
LEMMA LifespanInit == Init => LifespanInv
<1> SUFFICES ASSUME Init PROVE LifespanInv
  OBVIOUS
<1>1. TypeOK
  <2>1. left \in 0..OutboxBatchSize
    BY LifespanAssumption DEF Init
  <2>2. producer # Running /\ started = FALSE
    BY DEF Init, NoProducer, Running
  <2>3. started = (producer = Running)
    BY <2>2, Zenon
  <2> QED
    BY <2>1, <2>3, Zenon DEF Init, TypeOK, Starting
<1>2. Phased /\ PublishesOnlyWhenStarted /\ TaskEndsFirst
  BY DEF Init, Phased, PublishesOnlyWhenStarted, TaskEndsFirst
<1> QED
  BY <1>1, <1>2 DEF LifespanInv

(* Every step types the probe and the signal: a step on the loop too.      *)
LEMMA ProbeType ==
    ASSUME TypeOK, [Next]_vars
    PROVE  /\ probe' \in {"none", "database", "bucket", "answered"}
           /\ sigterm' \in BOOLEAN
<1>1. /\ probe \in {"none", "database", "bucket", "answered"}
      /\ sigterm \in BOOLEAN
  BY DEF TypeOK
<1>2. probe' \in {"none", "database", "bucket", "answered"}
  BY <1>1 DEF Next, TaskStep, LifespanStep, OnLoop, AskReady, ProbeStep, CheckBucket,
              AnswerReady, NothingReady, Sigterm, vars
<1>3. sigterm' = sigterm \/ sigterm' = TRUE
  BY Zenon DEF Next, TaskStep, LifespanStep, OnLoop, AskReady, ProbeStep, CheckBucket,
              AnswerReady, NothingReady, Sigterm, vars
<1> QED
  BY <1>1, <1>2, <1>3, Zenon

(* No step of lifespan, of the task or of the broker breaks it.            *)
LEMMA LifespanKeeps == LifespanInv /\ [Next]_vars => LifespanInv'
<1> SUFFICES ASSUME LifespanInv, [Next]_vars PROVE LifespanInv'
  OBVIOUS
<1>0. /\ probe' \in {"none", "database", "bucket", "answered"}
      /\ sigterm' \in BOOLEAN
  BY ProbeType DEF LifespanInv
<1> USE LifespanAssumption
    DEF LifespanInv, TypeOK, Phased, PublishesOnlyWhenStarted, TaskEndsFirst,
        NoProducer, Fresh, Cancelled, Running, Starting, broker
<1>1. CASE Boot
  BY <1>0, <1>1 DEF Boot, BuildProducer
<1>2. CASE BootStarts \/ BootFails \/ BootTimesOut
  BY <1>0, <1>2 DEF BootStarts, BootFails, BootTimesOut, StartReturns, StartRaises,
     StartCancelled, StartEnds, Serve
<1>3. CASE LeaveLoop
  BY <1>0, <1>3 DEF LeaveLoop, StopRequested
<1>4. CASE AlreadyStarted
  BY <1>0, <1>4 DEF AlreadyStarted, OpenBatch, StopRequested
<1>5. CASE CallStart
  BY <1>0, <1>5 DEF CallStart, BuildProducer, StopRequested
<1>6. CASE EnsureSucceeds
  BY <1>0, <1>6 DEF EnsureSucceeds, StartReturns, StartEnds, OpenBatch
<1>7. CASE EnsureFails
  BY <1>0, <1>7 DEF EnsureFails, StartRaises, StartEnds
<1>8. CASE PublishRow \/ EndBatch \/ NextPoll
  BY <1>0, <1>8 DEF PublishRow, EndBatch, NextPoll
<1>9. CASE Shutdown \/ Drained
  BY <1>0, <1>9 DEF Shutdown, Drained
<1>10. CASE DrainTimesOut
  <2>1. CASE task = "ensuring"
    <3>1. producer' # Running /\ ~started
      BY <1>0, <1>10, <2>1 DEF DrainTimesOut, StartCancelled, StartEnds
    <3>2. UNCHANGED started
      BY <1>10, <2>1 DEF DrainTimesOut, StartCancelled
    <3>3. started' = (producer' = Running)
      BY <3>1, <3>2, Zenon DEF Running
    <3>4. overdue' = FALSE /\ overdue' \in BOOLEAN
      BY <1>10, <2>1 DEF DrainTimesOut, StartCancelled, StartEnds
    <3> QED
      BY <1>0, <1>10, <2>1, <3>3, <3>4 DEF DrainTimesOut, StartCancelled, StartEnds
  <2>2. CASE task # "ensuring"
    BY <1>0, <1>10, <2>2 DEF DrainTimesOut
  <2> QED
    BY <2>1, <2>2
<1>11. CASE StopProducer \/ StopRaises
  <2>1. ~Starting /\ overdue = FALSE
    BY <1>11 DEF StopProducer, StopRaises
  <2>2. overdue' = FALSE /\ overdue' \in BOOLEAN
    BY <1>11, <2>1 DEF StopProducer, StopRaises
  <2> QED
    BY <1>0, <1>11, <2>2 DEF StopProducer, StopRaises
<1>12. CASE KafkaChanges
  <2>1. kafkaUp' \in BOOLEAN
    BY <1>0, <1>12, Zenon DEF KafkaChanges
  <2>2. overdue' \in BOOLEAN /\ (overdue' => Starting)
    BY <1>0, <1>12, Zenon DEF KafkaChanges
  <2> QED
    BY <1>0, <1>12, <2>1, <2>2 DEF KafkaChanges
<1>13. CASE UNCHANGED lifeVars
  BY <1>0, <1>13 DEF lifeVars
<1>14. CASE AnswerReady
  <2>1. overdue' \in BOOLEAN /\ (overdue' => Starting)
    BY <1>0, <1>14, Zenon DEF AnswerReady
  <2> QED
    BY <1>0, <1>14, <2>1 DEF AnswerReady
<1> QED
  BY <1>1, <1>2, <1>3, <1>4, <1>5, <1>6, <1>7, <1>8, <1>9, <1>10, <1>11, <1>12,
     <1>13, <1>14
     DEF Next, TaskStep, LifespanStep, AskReady, ProbeStep, CheckBucket, NothingReady,
         Sigterm, vars

(* The inductive invariant of the life of an API process.                  *)
THEOREM LifespanIsSound == Spec => []LifespanInv
  BY LifespanInit, LifespanKeeps, PTL DEF Spec

(* _producer and _started never disagree.                                  *)
THEOREM ProducerFieldsAgree == Spec => []TypeOK
<1>1. LifespanInv => TypeOK
  BY DEF LifespanInv
<1> QED
  BY <1>1, LifespanIsSound, PTL

(* The task opens a batch with a started producer only, whichever of the   *)
(* boot, the polls and the shutdown came first.                            *)
THEOREM NeverPublishesUnstarted == Spec => []PublishesOnlyWhenStarted
<1>1. LifespanInv => PublishesOnlyWhenStarted
  BY DEF LifespanInv
<1> QED
  BY <1>1, LifespanIsSound, PTL

(* Producer and engine outlive the task that uses them.                    *)
THEOREM TaskIsOverBeforeStop == Spec => []TaskEndsFirst
<1>1. LifespanInv => TaskEndsFirst
  BY DEF LifespanInv
<1> QED
  BY <1>1, LifespanIsSound, PTL
=============================================================================
