--------------------------- MODULE PipelineProofs ---------------------------
(***************************************************************************)
(* Theorems about AnalysisPipeline, for every set of photos, uploads and   *)
(* workers, every retry limit and batch size, and every fault budget.      *)
(***************************************************************************)
EXTENDS AnalysisPipeline, TLAPS

USE UploadsAssumption, MaxAttemptsAssumption, FaultsAssumption,
    TopicAssumption, OutboxAssumption, WorkerAssumption

-----------------------------------------------------------------------------
(* The building blocks of the actions keep the types of what they write.   *)

(* Every statement the repositories run leaves well-typed rows.            *)
LEMMA RowWritesType ==
    ASSUME RowsType, marked' \subseteq Photos,
           NEW p \in Photos, NEW n \in 0..MaxAttempts, NEW code \in ErrorCodes,
           \/ ClaimForProcessing(p)
           \/ RecordAttempt(p, n, code)
           \/ UpsertAndMarkDone(p, n)
           \/ MarkFailed(p, code, n)
           \/ UNCHANGED rowVars
    PROVE  RowsType'
<1> USE DEF RowsType, Statuses
<1>1. CASE ClaimForProcessing(p)
  BY <1>1 DEF ClaimForProcessing
<1>2. CASE RecordAttempt(p, n, code)
  BY <1>2 DEF RecordAttempt
<1>3. CASE UpsertAndMarkDone(p, n)
  BY <1>3 DEF UpsertAndMarkDone, Upsert, MarkDone
<1>4. CASE MarkFailed(p, code, n)
  BY <1>4 DEF MarkFailed
<1>5. CASE UNCHANGED rowVars
  BY <1>5 DEF rowVars
<1> QED
  BY <1>1, <1>2, <1>3, <1>4, <1>5

(* So do the commit of an upload and the commit of a published batch.      *)
LEMMA RowCommitsType ==
    ASSUME RowsType, marked' \subseteq Photos,
           (\E P \in Uploads : CreateRows(P)) \/ CommitPublished
    PROVE  RowsType'
  BY DEF RowsType, Statuses, CreateRows, CommitPublished

(* What a worker takes from the log is a message.                          *)
LEMMA NextMessageType ==
    ASSUME TopicType, NEW w \in Workers, HasNext(w)
    PROVE  NextMessage(w) \in Messages
  BY DEF TopicType, HasNext, NextMessage

(* A fault is spent within the budget.                                     *)
LEMMA SufferType ==
    ASSUME FaultsType, NEW kind, Suffer(kind)
    PROVE  FaultsType'
  BY DEF FaultsType, Suffer

(* last_code starts as one of the codes an exception may leave.            *)
LEMMA UnknownCode == "UNKNOWN" \in ErrorCodes
  BY DEF ErrorCodes, GrpcCodes

(* Whatever the analyzer call raises leaves one of them in the row.        *)
LEMMA CodeType ==
    ASSUME NEW exc \in AnalyzerErrors
    PROVE  error_code_from_exception(exc) \in ErrorCodes
<1>1. exc \in RpcErrors \/ exc \in {TimeoutError, OtherError}
  BY WorkerAssumption DEF Exceptions
<1>2. CASE exc \in RpcErrors
  BY <1>2 DEF RpcErrors, error_code_from_exception, ErrorCodes
<1>3. CASE exc \in {TimeoutError, OtherError}
  BY <1>3 DEF TimeoutError, OtherError, error_code_from_exception, ErrorCodes, GrpcCodes
<1> QED
  BY <1>1, <1>2, <1>3

(* Leaving process(), or the process, resets the locals to typed values.   *)
LEMMA LeaveProcessType ==
    ASSUME WorkerType, NEW w \in Workers, Return(w) \/ Exit(w)
    PROVE  WorkerType'
<1> USE UnknownCode DEF WorkerType, Goto, InFlight
<1>1. CASE Return(w)
  BY <1>1 DEF Return
<1>2. CASE Exit(w)
  BY <1>2 DEF Exit
<1> QED
  BY <1>1, <1>2

(* The attempt a running retry loop records fits the column.               *)
LEMMA AttemptType ==
    ASSUME WorkerType, NEW w \in Workers
    PROVE  attempt[w] \in 1..MaxAttempts /\ attempt[w] \in 0..MaxAttempts
           /\ lastCode[w] \in ErrorCodes
  BY DEF WorkerType

-----------------------------------------------------------------------------
(* Every step keeps every type.                                            *)
LEMMA TypeStep ==
    ASSUME TypeOK, [Next]_vars
    PROVE  TypeOK'
<1>1. RowsType /\ TopicType /\ OutboxType /\ WorkerType /\ FaultsType
  BY DEF TypeOK
<1>2. ASSUME NEW P \in Uploads, Upload(P)
      PROVE  TypeOK'
  BY <1>1, <1>2, RowCommitsType
     DEF Upload, TypeOK, OutboxType, WorkerType, FaultsType, TopicType,
         topicVars, outboxVars, workerVars, RowsType
<1>3. CASE ForeignMessage
  <2>1. PICK m \in Messages \ Photos : Send(m)
    BY <1>3 DEF ForeignMessage
  <2>2. TopicType'
    BY <1>1, <2>1 DEF Send, TopicType
  <2> QED
    BY <1>1, <1>3, <2>2, SufferType
       DEF ForeignMessage, TypeOK, RowsType, OutboxType, WorkerType,
           rowVars, outboxVars, workerVars
<1>4. CASE OutboxNext /\ UNCHANGED workerVars
  <2>1. WorkerType'
    BY <1>1, <1>4 DEF WorkerType, workerVars
  <2>2. CASE Poll
    BY <1>1, <2>1, <2>2
       DEF Poll, FetchUnpublished, Unpublished, TypeOK, RowsType, TopicType,
           OutboxType, FaultsType, rowVars, topicVars
  <2>3. ASSUME NEW p \in Photos, Publish(p) \/ PublishFails(p)
        PROVE  TypeOK'
    <3>1. TopicType'
      <4> p \in Messages
        OBVIOUS
      <4>1. CASE UNCHANGED topicVars
        BY <1>1, <4>1 DEF TopicType, topicVars
      <4>2. CASE Send(p)
        BY <1>1, <4>2 DEF TopicType, Send
      <4> QED
        BY <2>3, <4>1, <4>2 DEF Publish, PublishFails
    <3>2. RowsType' /\ OutboxType' /\ FaultsType'
      BY <1>1, <2>3
         DEF Publish, PublishFails, Suffer, RowsType, OutboxType, FaultsType,
             rowVars
    <3> QED
      BY <2>1, <3>1, <3>2 DEF TypeOK
  <2>4. ASSUME NEW p \in Photos, MarkPublished(p)
        PROVE  TypeOK'
    BY <1>1, <2>1, <2>4
       DEF MarkPublished, TypeOK, RowsType, TopicType, OutboxType, FaultsType,
           rowVars, topicVars
  <2>5. CASE CommitBatch
    BY <1>1, <2>1, <2>5, RowCommitsType
       DEF CommitBatch, TypeOK, TopicType, OutboxType, FaultsType, topicVars
  <2>6. CASE IterationFails \/ StopApi
    BY <1>1, <2>1, <2>6, SufferType
       DEF IterationFails, StopApi, Abandon, TypeOK, RowsType, TopicType,
           OutboxType, rowVars, topicVars
  <2>7. CASE StartApi
    BY <1>1, <2>1, <2>7
       DEF StartApi, TypeOK, RowsType, TopicType, OutboxType, FaultsType,
           rowVars, topicVars
  <2> QED
    BY <1>4, <2>2, <2>3, <2>4, <2>5, <2>6, <2>7 DEF OutboxNext, OutboxStep
<1>5. CASE WorkerNext /\ UNCHANGED outboxVars
  <2>1. marked' \subseteq Photos /\ OutboxType'
    BY <1>1, <1>5 DEF RowsType, OutboxType, outboxVars
  <2> SUFFICES ASSUME NEW w \in Workers,
                      \/ WorkerStep(w)
                      \/ CommitOffsetFails(w)
                      \/ \E p \in Photos : DbError(w, p)
                      \/ Crash(w)
                      \/ Stop(w)
                      \/ StartWorker(w)
                      \/ RebalanceTo(w)
               PROVE  RowsType' /\ TopicType' /\ WorkerType' /\ FaultsType'
    BY <1>5, <2>1 DEF WorkerNext, TypeOK
  <2>2. CASE Join(w) \/ RebalanceTo(w)
    <3>1. Assign(w) /\ UNCHANGED <<workerVars, rowVars>>
      BY <2>2 DEF Join, RebalanceTo
    <3>2. TopicType'
      BY <1>1, <3>1 DEF Assign, TopicType
    <3>3. FaultsType'
      BY <1>1, <2>2, SufferType DEF Join, RebalanceTo, FaultsType
    <3> QED
      BY <1>1, <2>1, <3>1, <3>2, <3>3 DEF RowsType, WorkerType, rowVars, workerVars
  <2>3. CASE Fetch(w)
    <3>1. NextMessage(w) \in Messages
      BY <1>1, <2>3, NextMessageType DEF Fetch, Take
    <3>2. TopicType'
      BY <1>1, <2>3 DEF Fetch, Take, TopicType
    <3> QED
      BY <1>1, <2>1, <2>3, <3>1, <3>2
         DEF Fetch, Goto, RowsType, WorkerType, FaultsType, InFlight, rowVars
  <2>4. CASE DropPoison(w)
    BY <1>1, <2>1, <2>4, LeaveProcessType
       DEF DropPoison, RowsType, TopicType, FaultsType, rowVars, topicVars
  <2>5. ASSUME NEW p \in Photos, Claim(w, p)
        PROVE  RowsType' /\ TopicType' /\ WorkerType' /\ FaultsType'
    <3>1. RowsType'
      BY <1>1, <2>1, <2>5 DEF Claim, ClaimForProcessing, RowsType, Statuses
    <3>2. WorkerType'
      <4>1. CASE Return(w)
        BY <1>1, <4>1, LeaveProcessType
      <4>2. CASE Goto(w, "analyzing") /\ UNCHANGED <<message, attempt, lastCode>>
        BY <1>1, <4>2 DEF Goto, WorkerType, InFlight, InProcess
      <4> QED
        BY <2>5, <4>1, <4>2 DEF Claim
    <3> QED
      BY <1>1, <2>5, <3>1, <3>2 DEF Claim, TopicType, FaultsType, topicVars
  <2>6. ASSUME NEW p \in Photos, AnalyzeSucceeds(w, p)
        PROVE  RowsType' /\ TopicType' /\ WorkerType' /\ FaultsType'
    BY <1>1, <2>1, <2>6
       DEF AnalyzeSucceeds, Goto, RowsType, TopicType, WorkerType, FaultsType,
           InFlight, InProcess, rowVars, topicVars
  <2>7. ASSUME NEW p \in Photos, NEW exc \in AnalyzerErrors, AnalyzeFails(w, p, exc)
        PROVE  RowsType' /\ TopicType' /\ WorkerType' /\ FaultsType'
    <3>1. RowsType'
      BY <1>1, <2>1, <2>7, AttemptType, CodeType, RowWritesType DEF AnalyzeFails
    <3>2. WorkerType'
      BY <1>1, <2>7, CodeType
         DEF AnalyzeFails, LastAttempt, Goto, WorkerType, InFlight, InProcess
    <3> QED
      BY <1>1, <2>7, <3>1, <3>2
         DEF AnalyzeFails, TopicType, FaultsType, topicVars
  <2>8. ASSUME NEW p \in Photos, WriteDone(w, p) \/ WriteFailed(w, p)
        PROVE  RowsType' /\ TopicType' /\ WorkerType' /\ FaultsType'
    <3>1. RowsType'
      BY <1>1, <2>1, <2>8, AttemptType, RowWritesType DEF WriteDone, WriteFailed
    <3>2. WorkerType'
      BY <1>1, <2>8, LeaveProcessType DEF WriteDone, WriteFailed
    <3> QED
      BY <1>1, <2>8, <3>1, <3>2
         DEF WriteDone, WriteFailed, TopicType, FaultsType, topicVars
  <2>9. CASE CommitOffset(w)
    BY <1>1, <2>1, <2>9
       DEF CommitOffset, CommitPosition, Goto, RowsType, TopicType, WorkerType,
           FaultsType, rowVars
  <2>10. CASE CommitOffsetFails(w) \/ Crash(w) \/ Stop(w)
    <3>1. Exit(w) /\ FaultsType'
      BY <1>1, <2>10, SufferType DEF CommitOffsetFails, Crash, Stop
    <3>2. TopicType'
      BY <1>1, <3>1 DEF Exit, Leave, TopicType
    <3> QED
      BY <1>1, <2>1, <3>1, <3>2, LeaveProcessType DEF Exit, RowsType, rowVars
  <2>11. ASSUME NEW p \in Photos, DbError(w, p)
         PROVE  RowsType' /\ TopicType' /\ WorkerType' /\ FaultsType'
    <3>1. RowsType'
      BY <1>1, <2>1, <2>11, AttemptType, CodeType, RowWritesType DEF DbError
    <3> QED
      BY <1>1, <2>11, <3>1, SufferType, LeaveProcessType
         DEF DbError, TopicType, topicVars
  <2>12. CASE StartWorker(w)
    BY <1>1, <2>1, <2>12
       DEF StartWorker, Goto, RowsType, TopicType, WorkerType, FaultsType,
           rowVars, topicVars
  <2> QED
    BY <2>2, <2>3, <2>4, <2>5, <2>6, <2>7, <2>8, <2>9, <2>10, <2>11, <2>12
       DEF WorkerStep
<1>6. CASE UNCHANGED vars
  BY <1>1, <1>6
     DEF vars, rowVars, topicVars, outboxVars, workerVars, TypeOK, RowsType,
         TopicType, OutboxType, WorkerType, FaultsType
<1> QED
  BY <1>2, <1>3, <1>4, <1>5, <1>6 DEF Next

(* The columns, the log, the publisher, the workers and the fault budget   *)
(* keep their types.                                                       *)
THEOREM TypeCorrect == Spec => []TypeOK
<1>1. Init => TypeOK
  BY UnknownCode DEF Init, RowsInit, TopicInit, OutboxInit, WorkerInit, FaultsInit,
         TypeOK, RowsType, TopicType, OutboxType, WorkerType, FaultsType,
         Statuses, Absent, Pending, Processing, Done, Failed,
         NoError, InFlight, InProcess
<1> QED
  BY <1>1, TypeStep, PTL DEF Spec

-----------------------------------------------------------------------------
(* The publisher writes no column but publish_status.                      *)
LEMMA OutboxKeepsOutcome ==
    ASSUME OutboxNext
    PROVE  UNCHANGED <<status, attempts, lastError, analysis>>
  BY DEF OutboxNext, OutboxStep, Poll, Publish, PublishFails, MarkPublished,
         CommitBatch, CommitPublished, IterationFails, StopApi, StartApi, Abandon,
         rowVars

(* A worker that has won a claim has its photo to itself until its         *)
(* terminal write.  The claim is won only from `pending`, while every      *)
(* photo in process is `processing`; and only its holder writes its status.*)
THEOREM ExclusiveClaims == Spec => []ClaimIsExclusive
<1>1. Init => ClaimIsExclusive
  BY DEF Init, WorkerInit, ClaimIsExclusive, InProcess
<1>2. TypeOK /\ ClaimIsExclusive /\ [Next]_vars => ClaimIsExclusive'
  <2> SUFFICES ASSUME TypeOK, ClaimIsExclusive, [Next]_vars
               PROVE  ClaimIsExclusive'
    OBVIOUS
  <2> USE DEF ClaimIsExclusive
  <2>1. /\ status \in [Photos -> Statuses]
        /\ pc \in [Workers -> {"stopped", "polling"} \cup InFlight]
        /\ message \in [Workers -> Messages \cup {NoMessage}]
    BY DEF TypeOK, RowsType, WorkerType
  <2>2. CASE UNCHANGED <<status, pc, message>>
    BY <2>2
  <2>3. ASSUME NEW P \in Uploads, Upload(P)
        PROVE  ClaimIsExclusive'
    BY <2>1, <2>3
       DEF Upload, CreateRows, workerVars, Absent, Pending, Processing
  <2>4. CASE ForeignMessage
    BY <2>2, <2>4 DEF ForeignMessage, rowVars, workerVars
  <2>5. CASE OutboxNext /\ UNCHANGED workerVars
    BY <2>2, <2>5, OutboxKeepsOutcome DEF workerVars
  <2>6. CASE WorkerNext /\ UNCHANGED outboxVars
    <3> SUFFICES ASSUME NEW w \in Workers,
                        \/ WorkerStep(w)
                        \/ CommitOffsetFails(w)
                        \/ \E p \in Photos : DbError(w, p)
                        \/ Crash(w)
                        \/ Stop(w)
                        \/ StartWorker(w)
                        \/ RebalanceTo(w)
                 PROVE  ClaimIsExclusive'
      BY <2>6 DEF WorkerNext
    <3>1. CASE Join(w) \/ RebalanceTo(w)
      BY <2>2, <3>1 DEF Join, RebalanceTo, rowVars, workerVars
    <3>2. CASE Fetch(w) \/ StartWorker(w) \/ CommitOffset(w)
      BY <2>1, <3>2
         DEF Fetch, StartWorker, CommitOffset, Goto, InProcess, rowVars
    <3>3. CASE DropPoison(w)
      BY <2>1, <3>3 DEF DropPoison, Return, Goto, InProcess, rowVars
    <3>4. ASSUME NEW p \in Photos, Claim(w, p)
          PROVE  ClaimIsExclusive'
      <4>1. CASE status[p] = Pending
        BY <2>1, <3>4, <4>1
           DEF Claim, ClaimForProcessing, Claimable, Goto, InProcess,
               Pending, Processing
      <4>2. CASE status[p] # Pending
        BY <2>1, <3>4, <4>2
           DEF Claim, ClaimForProcessing, Claimable, Return, Goto, InProcess
      <4> QED
        BY <4>1, <4>2
    <3>5. ASSUME NEW p \in Photos,
                 \/ AnalyzeSucceeds(w, p)
                 \/ \E exc \in AnalyzerErrors : AnalyzeFails(w, p, exc)
          PROVE  ClaimIsExclusive'
      <4>1. /\ pc[w] \in InProcess
            /\ UNCHANGED <<status, message>>
            /\ \A v \in Workers \ {w} : pc'[v] = pc[v]
        BY <2>1, <3>5
           DEF AnalyzeSucceeds, AnalyzeFails, RecordAttempt, Goto, InProcess, rowVars
      <4> QED
        BY <2>1, <4>1
    <3>6. ASSUME NEW p \in Photos, WriteDone(w, p) \/ WriteFailed(w, p)
          PROVE  ClaimIsExclusive'
      BY <2>1, <3>6
         DEF WriteDone, WriteFailed, UpsertAndMarkDone, Upsert, MarkDone, MarkFailed, Return, Goto,
             InProcess
    <3>7. CASE CommitOffsetFails(w) \/ Crash(w) \/ Stop(w)
      BY <2>1, <3>7
         DEF CommitOffsetFails, Crash, Stop, Exit, Goto, InProcess, rowVars
    <3>8. ASSUME NEW p \in Photos, DbError(w, p)
          PROVE  ClaimIsExclusive'
      <4>1. /\ message[w] = p
            /\ message' = message
            /\ pc' = [pc EXCEPT ![w] = "committing"]
        BY <3>8 DEF DbError, Return, Goto
      <4>2. CASE UNCHANGED status
        BY <2>1, <4>1, <4>2 DEF InProcess
      <4>3. CASE ClaimForProcessing(p)
        BY <2>1, <4>1, <4>3
           DEF ClaimForProcessing, Claimable, InProcess, Pending, Processing
      <4>4. CASE pc[w] \in InProcess /\ (\E s \in Statuses : status' = [status EXCEPT ![p] = s])
        BY <2>1, <4>1, <4>4 DEF InProcess
      <4> QED
        BY <3>8, <4>2, <4>3, <4>4
           DEF DbError, RecordAttempt, UpsertAndMarkDone, Upsert, MarkDone, MarkFailed, rowVars,
               InProcess, Statuses
    <3> QED
      BY <3>1, <3>2, <3>3, <3>4, <3>5, <3>6, <3>7, <3>8 DEF WorkerStep
  <2>7. CASE UNCHANGED vars
    BY <2>2, <2>7 DEF vars, rowVars, workerVars
  <2> QED
    BY <2>3, <2>4, <2>5, <2>6, <2>7 DEF Next
<1> QED
  BY <1>1, <1>2, TypeCorrect, PTL DEF Spec

-----------------------------------------------------------------------------
(* What one step of a worker does to the rows: nothing, a claim of a       *)
(* pending photo, or a statement about a photo that is in process.         *)
LEMMA WorkerRowStep ==
    ASSUME TypeOK, ClaimIsExclusive, WorkerNext
    PROVE  \/ UNCHANGED rowVars
           \/ \E p \in Photos : Claimable(p) /\ ClaimForProcessing(p)
           \/ \E p \in Photos, n \in 1..MaxAttempts, code \in ErrorCodes :
                /\ status[p] = Processing
                /\ RecordAttempt(p, n, code) \/ UpsertAndMarkDone(p, n) \/ MarkFailed(p, code, n)
<1> DEFINE RowStep ==
           \/ UNCHANGED rowVars
           \/ \E p \in Photos : Claimable(p) /\ ClaimForProcessing(p)
           \/ \E p \in Photos, n \in 1..MaxAttempts, code \in ErrorCodes :
                /\ status[p] = Processing
                /\ RecordAttempt(p, n, code) \/ UpsertAndMarkDone(p, n) \/ MarkFailed(p, code, n)
<1> SUFFICES ASSUME NEW w \in Workers,
                    \/ WorkerStep(w)
                    \/ CommitOffsetFails(w)
                    \/ \E p \in Photos : DbError(w, p)
                    \/ Crash(w)
                    \/ Stop(w)
                    \/ StartWorker(w)
                    \/ RebalanceTo(w)
             PROVE  RowStep
  BY DEF WorkerNext
<1>1. attempt[w] \in 1..MaxAttempts /\ lastCode[w] \in ErrorCodes
  BY AttemptType DEF TypeOK
<1>2. CASE \/ Join(w) \/ RebalanceTo(w) \/ Fetch(w) \/ StartWorker(w)
           \/ CommitOffset(w) \/ DropPoison(w) \/ CommitOffsetFails(w)
           \/ Crash(w) \/ Stop(w) \/ \E p \in Photos : AnalyzeSucceeds(w, p)
  BY <1>2 DEF Join, RebalanceTo, Fetch, StartWorker, CommitOffset, DropPoison,
              CommitOffsetFails, Crash, Stop, Exit, AnalyzeSucceeds
<1>3. ASSUME NEW p \in Photos, ClaimForProcessing(p)
      PROVE  RowStep
  BY <1>3 DEF ClaimForProcessing, Claimable, rowVars
<1>4. CASE \E p \in Photos : Claim(w, p)
  BY <1>3, <1>4 DEF Claim
<1>5. ASSUME NEW p \in Photos, NEW exc \in AnalyzerErrors, AnalyzeFails(w, p, exc)
      PROVE  RowStep
  <2>1. status[p] = Processing
    BY <1>5 DEF AnalyzeFails, ClaimIsExclusive, InProcess
  <2> QED
    BY <1>1, <1>5, <2>1, CodeType DEF AnalyzeFails
<1>6. ASSUME NEW p \in Photos, WriteDone(w, p) \/ WriteFailed(w, p)
      PROVE  RowStep
  <2>1. status[p] = Processing
    BY <1>6 DEF WriteDone, WriteFailed, ClaimIsExclusive, InProcess
  <2> QED
    BY <1>1, <1>6, <2>1 DEF WriteDone, WriteFailed
<1>7. ASSUME NEW p \in Photos, DbError(w, p)
      PROVE  RowStep
  <2>1. pc[w] \in InProcess => status[p] = Processing
    BY <1>7 DEF DbError, ClaimIsExclusive
  <2> QED
    BY <1>1, <1>3, <1>7, <2>1, CodeType DEF DbError, InProcess
<1> QED
  BY <1>2, <1>4, <1>5, <1>6, <1>7 DEF WorkerStep

(* A row that is done or failed is never written again by the worker: the  *)
(* claim finds it not pending, and nobody holds it.                        *)
THEOREM TerminalRowsAreFinal == Spec => TerminalIsFinal
<1> DEFINE Frozen ==
      \A p \in Photos : status[p] \in Terminal =>
         /\ status'[p] = status[p]
         /\ attempts'[p] = attempts[p]
         /\ lastError'[p] = lastError[p]
         /\ (p \in analysis') = (p \in analysis)
<1>1. TypeOK /\ ClaimIsExclusive /\ [Next]_vars => [Frozen]_vars
  <2> SUFFICES ASSUME TypeOK, ClaimIsExclusive, Next
               PROVE  Frozen
    OBVIOUS
  <2>1. /\ status \in [Photos -> Statuses]
        /\ attempts \in [Photos -> 0..MaxAttempts]
        /\ lastError \in [Photos -> {NoError} \cup ErrorCodes]
    BY DEF TypeOK, RowsType
  <2>2. CASE \E P \in Uploads : Upload(P)
    BY <2>1, <2>2 DEF Upload, CreateRows, Terminal, Absent, Done, Failed
  <2>3. CASE ForeignMessage \/ OutboxNext
    BY <2>3, OutboxKeepsOutcome DEF ForeignMessage, rowVars
  <2>4. CASE WorkerNext
    <3>1. CASE UNCHANGED rowVars
      BY <3>1 DEF rowVars
    <3>2. ASSUME NEW p \in Photos, Claimable(p), ClaimForProcessing(p)
          PROVE  Frozen
      BY <2>1, <3>2 DEF Claimable, ClaimForProcessing, Terminal, Pending, Done, Failed
    <3>3. ASSUME NEW p \in Photos, NEW n \in 1..MaxAttempts, NEW code \in ErrorCodes,
                 status[p] = Processing,
                 RecordAttempt(p, n, code) \/ UpsertAndMarkDone(p, n) \/ MarkFailed(p, code, n)
          PROVE  Frozen
      <4>1. p \notin {q \in Photos : status[q] \in Terminal}
        BY <3>3 DEF Terminal, Processing, Done, Failed
      <4> QED
        BY <2>1, <3>3, <4>1 DEF RecordAttempt, UpsertAndMarkDone, Upsert, MarkDone, MarkFailed
    <3> QED
      BY <2>4, <3>1, <3>2, <3>3, WorkerRowStep
  <2> QED
    BY <2>2, <2>3, <2>4 DEF Next
<1> QED
  BY <1>1, TypeCorrect, ExclusiveClaims, PTL DEF Spec, TerminalIsFinal

(* The pipeline implements the lifecycle a client is promised.             *)
THEOREM PipelineImplementsLifecycle == Spec => ImplementsLifecycle
<1> USE DEF Absent, Pending, Processing, Done, Failed, Lifecycle!Absent,
            Lifecycle!Pending, Lifecycle!Processing, Lifecycle!Done, Lifecycle!Failed
<1>1. Init => Lifecycle!Init
  BY DEF Init, RowsInit, Lifecycle!Init
<1>2. TypeOK /\ ClaimIsExclusive /\ [Next]_vars => [Lifecycle!Next]_(Lifecycle!vars)
  <2> SUFFICES ASSUME TypeOK, ClaimIsExclusive, [Next]_vars
               PROVE  [Lifecycle!Next]_(Lifecycle!vars)
    OBVIOUS
  <2>1. status \in [Photos -> Statuses]
    BY DEF TypeOK, RowsType
  <2>2. CASE UNCHANGED <<status, analysis>>
    BY <2>2 DEF Lifecycle!vars
  <2>3. ASSUME NEW P \in Uploads, Upload(P)
        PROVE  Lifecycle!Next
    <3>1. P \in SUBSET Photos /\ P # {} /\ Lifecycle!Accept(P)
      BY <2>3, UploadsAssumption DEF Upload, CreateRows, Lifecycle!Accept
    <3> QED
      BY <3>1 DEF Lifecycle!Next
  <2>4. CASE ForeignMessage \/ OutboxNext \/ UNCHANGED vars
    BY <2>2, <2>4, OutboxKeepsOutcome DEF ForeignMessage, rowVars, vars
  <2>5. CASE WorkerNext
    <3>1. CASE UNCHANGED rowVars
      BY <2>2, <3>1 DEF rowVars
    <3>2. ASSUME NEW p \in Photos, Claimable(p), ClaimForProcessing(p)
          PROVE  Lifecycle!Start(p)
      BY <3>2 DEF Claimable, ClaimForProcessing, Lifecycle!Start
    <3>3. ASSUME NEW p \in Photos, NEW n, NEW code, status[p] = Processing,
                 RecordAttempt(p, n, code) \/ UpsertAndMarkDone(p, n) \/ MarkFailed(p, code, n)
          PROVE  Lifecycle!Complete(p) \/ Lifecycle!GiveUp(p) \/ UNCHANGED <<status, analysis>>
      BY <3>3 DEF RecordAttempt, UpsertAndMarkDone, Upsert, MarkDone, MarkFailed,
                  Lifecycle!Complete, Lifecycle!GiveUp
    <3> QED
      BY <2>2, <2>5, <3>1, <3>2, <3>3, WorkerRowStep DEF Lifecycle!Next
  <2> QED
    BY <2>3, <2>4, <2>5 DEF Next
<1> QED
  BY <1>1, <1>2, TypeCorrect, ExclusiveClaims, PTL
     DEF Spec, ImplementsLifecycle, Lifecycle!Spec
=============================================================================
