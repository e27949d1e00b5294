----------------------------- MODULE RecordProofs -----------------------------
(***************************************************************************)
(* Theorems about AnalysisPipeline: what the rows record of the attempts,  *)
(* under every fault, and that no claim is abandoned while no worker       *)
(* crashes and no write of process() fails.  With the delivery theorems    *)
(* this gives the offset its meaning: what is committed has been processed.*)
(***************************************************************************)
EXTENDS DeliveryProofs

(* RecordedAttempts, row by row and worker by worker; the locals start     *)
(* afresh at each claim, and the loop gives up on a transient error only   *)
(* at the last attempt.                                                    *)
RowRecord(p) ==
    /\ status[p] \in {Absent, Pending} => attempts[p] = 0
    /\ attempts[p] = 0 => lastError[p] = NoError
    /\ status[p] = Done => attempts[p] > 0 /\ lastError[p] = NoError
    /\ status[p] = Failed =>
         /\ lastError[p] \in ErrorCodes /\ attempts[p] > 0
         /\ lastError[p] \in TransientCodes => attempts[p] = MaxAttempts

WorkerRecord(w) ==
    /\ pc[w] \in {"analyzing", "completing"} =>
         /\ attempts[message[w]] = attempt[w] - 1
         /\ attempt[w] > 1 => lastError[message[w]] \in TransientCodes
    /\ pc[w] = "failing" =>
         /\ attempts[message[w]] = attempt[w]
         /\ lastError[message[w]] = lastCode[w]
         /\ lastCode[w] \in TransientCodes => attempt[w] = MaxAttempts
    /\ pc[w] \notin InProcess => attempt[w] = 1

RecordInv ==
    /\ \A p \in Photos : RowRecord(p)
    /\ \A w \in Workers : WorkerRecord(w)

-----------------------------------------------------------------------------
(* The two tables of the client agree: the code that is stored tells the   *)
(* decision that was taken.                                                *)
LEMMA TransientIsRetried ==
    ASSUME NEW exc \in AnalyzerErrors
    PROVE  /\ classify_grpc_error(exc) \in {Retry, NoRetry}
           /\ classify_grpc_error(exc) = Retry
                <=> error_code_from_exception(exc) \in TransientCodes
<1>1. exc \in RpcErrors \/ exc \in {TimeoutError, OtherError}
  BY WorkerAssumption DEF Exceptions
<1>2. CASE exc \in RpcErrors
  BY <1>2 DEF RpcErrors, error_code_from_exception, classify_grpc_error, TransientCodes,
              GrpcCodes, RetryableCodes, Retry, NoRetry
<1>3. CASE exc \in {TimeoutError, OtherError}
  BY <1>3 DEF TimeoutError, OtherError, error_code_from_exception, classify_grpc_error,
              TransientCodes, RetryableCodes, Retry, NoRetry
<1> QED
  BY <1>1, <1>2, <1>3

LEMMA Columns ==
    ASSUME TypeOK
    PROVE  /\ status \in [Photos -> Statuses]
           /\ attempts \in [Photos -> 0..MaxAttempts]
           /\ lastError \in [Photos -> {NoError} \cup ErrorCodes]
           /\ pc \in [Workers -> {"stopped", "polling"} \cup InFlight]
           /\ message \in [Workers -> Messages \cup {NoMessage}]
           /\ attempt \in [Workers -> 1..MaxAttempts]
           /\ lastCode \in [Workers -> ErrorCodes]
  BY DEF TypeOK, RowsType, WorkerType

(* Each statement leaves records that are right.                           *)
LEMMA RowsKeepRecords ==
    ASSUME TypeOK, \A q \in Photos : RowRecord(q),
           NEW p \in Photos, NEW n \in 1..MaxAttempts, NEW code \in ErrorCodes,
           \/ UNCHANGED rowVars
           \/ ClaimForProcessing(p)
           \/ status[p] = Processing /\ RecordAttempt(p, n, code)
           \/ UpsertAndMarkDone(p, n)
           \/ MarkFailed(p, code, n) /\ (code \in TransientCodes => n = MaxAttempts)
    PROVE  \A q \in Photos : RowRecord(q)'
<1> USE Columns DEF RowRecord, Absent, Pending, Processing, Done, Failed
<1> SUFFICES ASSUME NEW q \in Photos
             PROVE  RowRecord(q)'
  OBVIOUS
<1>1. CASE UNCHANGED rowVars
  BY <1>1 DEF rowVars
<1>2. CASE ClaimForProcessing(p)
  BY <1>2 DEF ClaimForProcessing
<1>3. CASE status[p] = Processing /\ RecordAttempt(p, n, code)
  BY <1>3 DEF RecordAttempt
<1>4. CASE UpsertAndMarkDone(p, n)
  BY <1>4 DEF UpsertAndMarkDone, MarkDone
<1>5. CASE MarkFailed(p, code, n) /\ (code \in TransientCodes => n = MaxAttempts)
  BY <1>5 DEF MarkFailed
<1> QED
  BY <1>1, <1>2, <1>3, <1>4, <1>5

(* What the other workers have recorded stays: they hold other photos.     *)
LEMMA OthersKeepRecords ==
    ASSUME TypeOK, NEW w \in Workers, NEW p \in Photos,
           \A v \in Workers : WorkerRecord(v),
           \A v \in Workers \ {w} : pc[v] \in InProcess => message[v] \in Photos \ {p},
           \A q \in Photos \ {p} : attempts'[q] = attempts[q] /\ lastError'[q] = lastError[q],
           \A v \in Workers \ {w} :
             /\ pc'[v] = pc[v] /\ message'[v] = message[v]
             /\ attempt'[v] = attempt[v] /\ lastCode'[v] = lastCode[v],
           WorkerRecord(w)'
    PROVE  \A v \in Workers : WorkerRecord(v)'
<1> SUFFICES ASSUME NEW v \in Workers \ {w}
             PROVE  WorkerRecord(v)'
  OBVIOUS
<1> QED
  BY DEF WorkerRecord, InProcess

(* Leaving process(), or the process, leaves nothing to be right about.    *)
LEMMA LeaveKeepsRecords ==
    ASSUME TypeOK, NEW w \in Workers, Return(w) \/ Exit(w)
    PROVE  WorkerRecord(w)' /\ \A v \in Workers \ {w} :
             /\ pc'[v] = pc[v] /\ message'[v] = message[v]
             /\ attempt'[v] = attempt[v] /\ lastCode'[v] = lastCode[v]
  BY Columns DEF Return, Exit, Goto, WorkerRecord, InProcess

LEMMA RecordStep ==
    ASSUME TypeOK, ClaimIsExclusive, RecordInv, [Next]_vars
    PROVE  RecordInv'
<1>1. /\ \A p \in Photos : RowRecord(p)
      /\ \A w \in Workers : WorkerRecord(w)
  BY DEF RecordInv
<1>2. CASE UNCHANGED <<status, attempts, lastError, workerVars>>
  BY <1>1, <1>2 DEF RecordInv, RowRecord, WorkerRecord, workerVars
<1>3. ASSUME NEW P \in Uploads, Upload(P)
      PROVE  RecordInv'
  <2>1. \A q \in Photos : RowRecord(q)'
    BY <1>1, <1>3, Columns
       DEF Upload, CreateRows, RowRecord, Absent, Pending, Done, Failed
  <2>2. UNCHANGED <<attempts, lastError, workerVars>>
    BY <1>3 DEF Upload, CreateRows
  <2> QED
    BY <1>1, <2>1, <2>2 DEF RecordInv, WorkerRecord, workerVars
<1>4. CASE ForeignMessage \/ (OutboxNext /\ UNCHANGED workerVars) \/ UNCHANGED vars
  BY <1>2, <1>4, OutboxKeepsOutcome DEF ForeignMessage, rowVars, vars
<1>5. CASE WorkerNext
  <2> SUFFICES ASSUME NEW w \in Workers,
                      \/ WorkerStep(w)
                      \/ CommitOffsetFails(w)
                      \/ \E p \in Photos : DbError(w, p)
                      \/ Crash(w)
                      \/ Stop(w)
                      \/ StartWorker(w)
                      \/ RebalanceTo(w)
               PROVE  RecordInv'
    BY <1>5 DEF WorkerNext
  <2>0. attempt[w] \in 1..MaxAttempts /\ lastCode[w] \in ErrorCodes
    BY Columns
  <2>1. CASE Join(w) \/ RebalanceTo(w)
    BY <1>2, <2>1 DEF Join, RebalanceTo, rowVars
  <2>2. CASE Fetch(w) \/ StartWorker(w) \/ CommitOffset(w)
    BY <1>1, <2>2, Columns
       DEF Fetch, StartWorker, CommitOffset, Goto, InProcess, rowVars,
           RecordInv, RowRecord, WorkerRecord
  <2>3. CASE DropPoison(w) \/ CommitOffsetFails(w) \/ Crash(w) \/ Stop(w)
    <3>1. UNCHANGED rowVars /\ (Return(w) \/ Exit(w))
      BY <2>3 DEF DropPoison, CommitOffsetFails, Crash, Stop, Exit
    <3> QED
      BY <1>1, <3>1, LeaveKeepsRecords DEF RecordInv, RowRecord, WorkerRecord, rowVars
  <2>4. ASSUME NEW p \in Photos, Claim(w, p)
        PROVE  RecordInv'
    <3>1. \A q \in Photos : RowRecord(q)'
      BY <1>1, <2>0, <2>4, RowsKeepRecords DEF Claim
    <3>2. UNCHANGED <<attempts, lastError>>
      BY <2>4 DEF Claim, ClaimForProcessing
    <3>3. CASE Return(w)
      BY <1>1, <3>1, <3>2, <3>3, LeaveKeepsRecords DEF RecordInv, WorkerRecord
    <3>4. CASE Claimable(p) /\ Goto(w, "analyzing") /\ UNCHANGED <<message, attempt, lastCode>>
      <4>1. attempts[p] = 0 /\ attempt[w] = 1 /\ message[w] = p
        BY <1>1, <2>4, <3>4 DEF Claim, Claimable, RowRecord, WorkerRecord, InProcess
      <4> QED
        BY <1>1, <3>1, <3>2, <3>4, <4>1, Columns
           DEF RecordInv, WorkerRecord, Goto, InProcess
    <3> QED
      BY <2>4, <3>3, <3>4 DEF Claim
  <2>5. ASSUME NEW p \in Photos, AnalyzeSucceeds(w, p)
        PROVE  RecordInv'
    BY <1>1, <2>5, Columns
       DEF AnalyzeSucceeds, Goto, InProcess, rowVars, RecordInv, RowRecord, WorkerRecord
  <2>6. ASSUME NEW p \in Photos, message[w] = p, pc[w] \in InProcess
        PROVE  /\ status[p] = Processing
               /\ \A v \in Workers \ {w} : pc[v] \in InProcess => message[v] \in Photos \ {p}
    BY <2>6 DEF ClaimIsExclusive
  <2>7. ASSUME NEW p \in Photos, NEW exc \in AnalyzerErrors, AnalyzeFails(w, p, exc)
        PROVE  RecordInv'
    <3> DEFINE code == error_code_from_exception(exc)
    <3>1. /\ pc[w] = "analyzing" /\ message[w] = p /\ RecordAttempt(p, attempt[w], code)
          /\ code \in ErrorCodes /\ lastCode' = [lastCode EXCEPT ![w] = code]
          /\ UNCHANGED message
      BY <2>7, CodeType DEF AnalyzeFails
    <3>2. \A v \in Workers \ {w} : pc[v] \in InProcess => message[v] \in Photos \ {p}
      BY <2>6, <3>1 DEF InProcess
    <3>3. \A q \in Photos : RowRecord(q)'
      BY <1>1, <2>0, <2>6, <3>1, RowsKeepRecords DEF InProcess
    <3>4. attempts'[p] = attempt[w] /\ lastError'[p] = code /\ lastCode'[w] = code
      BY <3>1, Columns DEF RecordAttempt
    <3>5. /\ classify_grpc_error(exc) \in {Retry, NoRetry}
          /\ classify_grpc_error(exc) = Retry <=> code \in TransientCodes
      BY TransientIsRetried
    <3>6. WorkerRecord(w)'
      <4>1. CASE LastAttempt(w, exc)
        <5>1. Goto(w, "failing") /\ UNCHANGED attempt
          BY <2>7, <4>1 DEF AnalyzeFails
        <5>2. code \in TransientCodes => attempt[w] = MaxAttempts
          BY <3>5, <4>1 DEF LastAttempt, Retry, NoRetry
        <5> HIDE DEF code
        <5> QED
          BY <3>1, <3>4, <5>1, <5>2, Columns DEF WorkerRecord, Goto, InProcess
      <4>2. CASE ~LastAttempt(w, exc)
        <5>1. UNCHANGED pc /\ attempt' = [attempt EXCEPT ![w] = @ + 1]
          BY <2>7, <4>2 DEF AnalyzeFails
        <5>2. code \in TransientCodes
          BY <3>5, <4>2 DEF LastAttempt
        <5> HIDE DEF code
        <5> QED
          BY <3>1, <3>4, <5>1, <5>2, Columns DEF WorkerRecord, InProcess
      <4> QED
        BY <4>1, <4>2
    <3>7. \A v \in Workers \ {w} :
             /\ pc'[v] = pc[v] /\ message'[v] = message[v]
             /\ attempt'[v] = attempt[v] /\ lastCode'[v] = lastCode[v]
      BY <2>7, <3>1, Columns DEF AnalyzeFails, Goto
    <3>8. \A q \in Photos \ {p} : attempts'[q] = attempts[q] /\ lastError'[q] = lastError[q]
      BY <3>1, Columns DEF RecordAttempt
    <3>9. \A v \in Workers : WorkerRecord(v)'
      BY <1>1, <3>2, <3>6, <3>7, <3>8, OthersKeepRecords
    <3> QED
      BY <3>3, <3>9 DEF RecordInv
  <2>8. ASSUME NEW p \in Photos, message[w] = p, pc[w] \in InProcess, Return(w),
               NEW code \in ErrorCodes,
               \/ RecordAttempt(p, attempt[w], code)
               \/ UpsertAndMarkDone(p, attempt[w])
               \/ pc[w] = "failing" /\ MarkFailed(p, lastCode[w], attempt[w])
        PROVE  RecordInv'
    <3>1. lastCode[w] \in TransientCodes /\ pc[w] = "failing" => attempt[w] = MaxAttempts
      BY <1>1 DEF WorkerRecord
    <3>2. \A q \in Photos : RowRecord(q)'
      BY <1>1, <2>0, <2>6, <2>8, <3>1, RowsKeepRecords
    <3>3. \A q \in Photos \ {p} : attempts'[q] = attempts[q] /\ lastError'[q] = lastError[q]
      BY <2>8, Columns DEF RecordAttempt, UpsertAndMarkDone, MarkDone, MarkFailed
    <3>4. \A v \in Workers : WorkerRecord(v)'
      BY <1>1, <2>6, <2>8, <3>3, LeaveKeepsRecords, OthersKeepRecords
    <3> QED
      BY <3>2, <3>4 DEF RecordInv
  <2>9. ASSUME NEW p \in Photos, WriteDone(w, p) \/ WriteFailed(w, p)
        PROVE  RecordInv'
    BY <2>0, <2>8, <2>9 DEF WriteDone, WriteFailed, InProcess
  <2>10. ASSUME NEW p \in Photos, DbError(w, p)
         PROVE  RecordInv'
    <3>1. message[w] = p /\ Return(w)
      BY <2>10 DEF DbError
    <3>2. CASE UNCHANGED rowVars \/ ClaimForProcessing(p)
      <4>1. \A q \in Photos : RowRecord(q)'
        BY <1>1, <2>0, <3>2, RowsKeepRecords
      <4>2. UNCHANGED <<attempts, lastError>>
        BY <3>2 DEF ClaimForProcessing, rowVars
      <4> QED
        BY <1>1, <3>1, <4>1, <4>2, LeaveKeepsRecords DEF RecordInv, WorkerRecord
    <3>3. CASE pc[w] \in InProcess /\ ~UNCHANGED rowVars
      BY <2>0, <2>8, <2>10, <3>1, <3>3, CodeType DEF DbError, InProcess
    <3> QED
      BY <2>10, <3>2, <3>3 DEF DbError, InProcess
  <2> QED
    BY <2>1, <2>2, <2>3, <2>4, <2>5, <2>7, <2>9, <2>10 DEF WorkerStep
<1> QED
  BY <1>3, <1>4, <1>5 DEF Next

(* The columns attempts and last_error_code tell what really happened,     *)
(* under every fault; and a photo failed with a transient error only after *)
(* all its attempts.                                                       *)
THEOREM RowsRecordAttempts == Spec => []RecordedAttempts
<1>1. Init => RecordInv
  BY DEF Init, RowsInit, WorkerInit, RecordInv, RowRecord, WorkerRecord, InProcess,
         Absent, Pending, Done, Failed
<1>2. TypeOK /\ ClaimIsExclusive /\ RecordInv /\ [Next]_vars => RecordInv'
  BY RecordStep
<1>3. RecordInv => RecordedAttempts
  BY DEF RecordInv, RowRecord, WorkerRecord, RecordedAttempts
<1> QED
  BY <1>1, <1>2, <1>3, TypeCorrect, ExclusiveClaims, PTL DEF Spec

-----------------------------------------------------------------------------
(* Without the two faults that leave the retry loop early, no step lets go *)
(* of a claim before its terminal write.                                   *)
LEMMA ClaimIsKept ==
    ASSUME WorkerDbError \notin FaultKinds, WorkerCrash \notin FaultKinds,
           TypeOK, ClaimIsExclusive, NoAbandonedClaim, [Next]_vars
    PROVE  NoAbandonedClaim'
<1> USE Columns DEF NoAbandonedClaim
<1>1. CASE UNCHANGED <<status, pc, message>>
  BY <1>1
<1>2. ASSUME NEW P \in Uploads, Upload(P)
      PROVE  NoAbandonedClaim'
  BY <1>2 DEF Upload, CreateRows, workerVars, Pending, Processing
<1>3. CASE ForeignMessage \/ (OutboxNext /\ UNCHANGED workerVars) \/ UNCHANGED vars
  BY <1>1, <1>3, OutboxKeepsOutcome DEF ForeignMessage, rowVars, workerVars, vars
<1>4. CASE WorkerNext
  <2> SUFFICES ASSUME NEW w \in Workers,
                      \/ WorkerStep(w)
                      \/ CommitOffsetFails(w)
                      \/ Stop(w)
                      \/ StartWorker(w)
                      \/ RebalanceTo(w)
               PROVE  NoAbandonedClaim'
    BY <1>4 DEF WorkerNext, DbError, Crash, Suffer
  <2>1. CASE Join(w) \/ RebalanceTo(w)
    BY <1>1, <2>1 DEF Join, RebalanceTo, rowVars, workerVars
  <2>2. CASE \/ Fetch(w) \/ StartWorker(w) \/ CommitOffset(w) \/ DropPoison(w)
             \/ CommitOffsetFails(w) \/ Stop(w)
    <3>1. /\ UNCHANGED status /\ pc[w] \notin InProcess
          /\ \A v \in Workers \ {w} : pc'[v] = pc[v] /\ message'[v] = message[v]
      BY <2>2 DEF Fetch, StartWorker, CommitOffset, DropPoison, CommitOffsetFails, Stop,
                  Return, Exit, Goto, InProcess, rowVars
    <3> QED
      BY <3>1
  <2>3. ASSUME NEW p \in Photos, Claim(w, p)
        PROVE  NoAbandonedClaim'
    <3>1. /\ pc[w] \notin InProcess /\ message[w] = p /\ UNCHANGED message
          /\ \A v \in Workers \ {w} : pc'[v] = pc[v]
      BY <2>3 DEF Claim, Return, Goto, InProcess
    <3>2. CASE Claimable(p)
      <4>1. pc'[w] \in InProcess /\ \A q \in Photos \ {p} : status'[q] = status[q]
        BY <2>3, <3>2 DEF Claim, ClaimForProcessing, Goto, InProcess
      <4> QED
        BY <3>1, <4>1
    <3>3. CASE ~Claimable(p)
      <4>1. UNCHANGED status
        BY <2>3, <3>3 DEF Claim, ClaimForProcessing
      <4> QED
        BY <3>1, <4>1
    <3> QED
      BY <3>2, <3>3
  <2>4. ASSUME NEW p \in Photos,
               \/ AnalyzeSucceeds(w, p)
               \/ \E exc \in AnalyzerErrors : AnalyzeFails(w, p, exc)
        PROVE  NoAbandonedClaim'
    <3>1. /\ pc'[w] \in InProcess /\ UNCHANGED <<status, message>>
          /\ \A v \in Workers \ {w} : pc'[v] = pc[v]
      BY <2>4 DEF AnalyzeSucceeds, AnalyzeFails, RecordAttempt, Goto, InProcess, rowVars
    <3> QED
      BY <3>1
  <2>5. ASSUME NEW p \in Photos, WriteDone(w, p) \/ WriteFailed(w, p)
        PROVE  NoAbandonedClaim'
    <3>1. /\ message[w] = p /\ UNCHANGED message
          /\ status'[p] # Processing /\ \A q \in Photos \ {p} : status'[q] = status[q]
          /\ \A v \in Workers \ {w} : pc'[v] = pc[v]
      BY <2>5 DEF WriteDone, WriteFailed, UpsertAndMarkDone, MarkDone, MarkFailed,
                  Return, Goto, Processing, Done, Failed
    <3> QED
      BY <3>1
  <2> QED
    BY <2>1, <2>2, <2>3, <2>4, <2>5 DEF WorkerStep
<1> QED
  BY <1>2, <1>3, <1>4 DEF Next

(* While no worker crashes and no database error strikes process(), a      *)
(* photo in `processing` is in the hands of a worker.                      *)
THEOREM EveryClaimIsHeld ==
    ASSUME WorkerDbError \notin FaultKinds, WorkerCrash \notin FaultKinds
    PROVE  Spec => []NoAbandonedClaim
<1>1. Init => NoAbandonedClaim
  BY DEF Init, RowsInit, NoAbandonedClaim, Absent, Processing
<1>2. TypeOK /\ ClaimIsExclusive /\ NoAbandonedClaim /\ [Next]_vars => NoAbandonedClaim'
  BY ClaimIsKept
<1> QED
  BY <1>1, <1>2, TypeCorrect, ExclusiveClaims, PTL DEF Spec

(* The same two faults are all that stands between the code and what       *)
(* tasks.md asks of the offset: without them a committed offset means that *)
(* the photo is done or failed, or still in the hands of a worker.         *)
THEOREM OffsetsFollowOutcomes ==
    ASSUME WorkerDbError \notin FaultKinds, WorkerCrash \notin FaultKinds
    PROVE  Spec => []OffsetFollowsOutcome
<1>1. TypeOK /\ DeliveryInv /\ NoAbandonedClaim => OffsetFollowsOutcome
  <2> SUFFICES ASSUME TypeOK, DeliveryInv, NoAbandonedClaim,
                      NEW i \in 1..committed, topic[i] \in Photos
               PROVE  \/ status[topic[i]] \in Terminal
                      \/ \E w \in Workers : pc[w] \in InProcess /\ message[w] = topic[i]
    BY DEF OffsetFollowsOutcome
  <2>1. status[topic[i]] \in {Processing, Done, Failed}
    BY DEF DeliveryInv, AnsweredInv, Claimed
  <2> QED
    BY <2>1 DEF NoAbandonedClaim, Terminal
<1> QED
  BY <1>1, TypeCorrect, DeliveryIsSound, EveryClaimIsHeld, PTL

(* The outbox has nothing to publish, and the consumer group no lag.       *)
NoBacklog == Unpublished = {} /\ committed = Len(topic)

(* What a drained backlog tells, under the same faults: every photo is     *)
(* done or failed, or in the hands of a worker at that moment; none is     *)
(* stuck between two stores, waiting for a message that will not come.     *)
THEOREM NoBacklogMeansDecided ==
    ASSUME WorkerDbError \notin FaultKinds, WorkerCrash \notin FaultKinds
    PROVE  Spec => [](NoBacklog =>
                        \A p \in Photos :
                            \/ status[p] \in {Absent} \cup Terminal
                            \/ \E w \in Workers : pc[w] \in InProcess /\ message[w] = p)
<1>1. TypeOK /\ SentIsInTopic /\ OffsetFollowsOutcome
        => (NoBacklog => \A p \in Photos :
                            \/ status[p] \in {Absent} \cup Terminal
                            \/ \E w \in Workers : pc[w] \in InProcess /\ message[w] = p)
  <2> SUFFICES ASSUME TypeOK, SentIsInTopic, OffsetFollowsOutcome, NoBacklog,
                      NEW p \in Photos, status[p] # Absent
               PROVE  \/ status[p] \in Terminal
                      \/ \E w \in Workers : pc[w] \in InProcess /\ message[w] = p
    OBVIOUS
  <2>1. publishStatus[p] = "sent"
    BY DEF NoBacklog, Unpublished, TypeOK, RowsType
  <2>2. PICK i \in 1..committed : topic[i] = p
    BY <2>1 DEF SentIsInTopic, InTopic, NoBacklog
  <2> QED
    BY <2>2 DEF OffsetFollowsOutcome
<1> QED
  BY <1>1, TypeCorrect, SentIsPublished, OffsetsFollowOutcomes, PTL

-----------------------------------------------------------------------------
(* Under every fault, the photos given up are counted: those whose claim   *)
(* nobody works on, and those still pending although a message of theirs   *)
(* has been answered.  Skipped alone is not inductive: a photo is lost     *)
(* when process() raises, and seen to be when its offset is committed.     *)
Answered(p) ==
    \/ \E w \in Workers : pc[w] = "committing" /\ message[w] = p
    \/ \E i \in 1..committed : topic[i] = p

Missed == {p \in Photos : status[p] = Pending /\ Answered(p)}
GivenUp == Abandoned \cup Missed

GivenUpInv == IsFiniteSet(GivenUp) /\ Cardinality(GivenUp) <= faults

(* Faults are only ever spent, one at a time.                              *)
LEMMA FaultsGrow ==
    ASSUME TypeOK, [Next]_vars
    PROVE  faults \in Nat /\ faults' \in Nat /\ (faults' = faults \/ faults' = faults + 1)
<1>1. faults \in Nat
  BY FaultsAssumption DEF TypeOK, FaultsType
<1>2. CASE (\E P \in Uploads : Upload(P)) \/ ForeignMessage \/ UNCHANGED vars
  BY <1>1, <1>2 DEF Upload, ForeignMessage, Suffer, vars
<1>3. CASE OutboxNext
  BY <1>1, <1>3
     DEF OutboxNext, OutboxStep, Poll, Publish, PublishFails, MarkPublished, CommitBatch,
         IterationFails, StopApi, StartApi, Suffer
<1>4. CASE WorkerNext
  BY <1>1, <1>4
     DEF WorkerNext, WorkerStep, Join, RebalanceTo, Fetch, StartWorker, CommitOffset,
         DropPoison, CommitOffsetFails, Crash, Stop, Claim, AnalyzeSucceeds, AnalyzeFails,
         WriteDone, WriteFailed, DbError, Suffer
<1> QED
  BY <1>2, <1>3, <1>4 DEF Next

(* A step gives up no photo, or it is a fault and gives up one.            *)
LEMMA OnePhotoPerFault ==
    ASSUME TypeOK, OutboxInv, ReaderInv, ClaimIsExclusive, [Next]_vars
    PROVE  \/ GivenUp' \subseteq GivenUp
           \/ /\ faults' = faults + 1
              /\ \E p \in Photos : GivenUp' \subseteq GivenUp \cup {p}
<1> USE Columns DEF GivenUp, Abandoned, Missed, Answered
<1>1. /\ topic \in Seq(Messages) /\ committed \in Nat /\ committed <= Len(topic)
      /\ owner \in Workers \cup {Nobody} /\ position \in [Workers -> Nat]
  BY DEF TypeOK, TopicType, ReaderInv
<1>2. \A i \in 1..committed : topic'[i] = topic[i]
  BY <1>1, LogGrows
<1>3. CASE UNCHANGED <<status, pc, message, committed>>
  BY <1>2, <1>3
<1>4. ASSUME NEW P \in Uploads, Upload(P)
      PROVE  GivenUp' \subseteq GivenUp
  <2>1. /\ UNCHANGED <<pc, message, committed, topic>> /\ P \subseteq Photos
        /\ \A q \in Photos : status'[q] = IF q \in P THEN Pending ELSE status[q]
        /\ \A q \in P : status[q] = Absent
    BY <1>4, UploadsAssumption DEF Upload, CreateRows, workerVars, topicVars
  <2>2. \A q \in P : ~Answered(q)
    <3>1. \A q \in P : ~InTopic(q)
      BY <2>1 DEF OutboxInv
    <3>2. \A w \in Workers : pc[w] = "committing" => InTopic(message[w])
      BY DEF ReaderInv, InFlight
    <3>3. \A i \in 1..committed : InTopic(topic[i])
      BY <1>1 DEF InTopic
    <3> QED
      BY <3>1, <3>2, <3>3
  <2>3. Abandoned' \subseteq Abandoned
    BY <2>1 DEF Pending, Processing
  <2>4. Missed' \subseteq Missed
    BY <2>1, <2>2
  <2> QED
    BY <2>3, <2>4
<1>5. CASE ForeignMessage \/ (OutboxNext /\ UNCHANGED workerVars) \/ UNCHANGED vars
  <2>1. UNCHANGED committed
    BY <1>5 DEF ForeignMessage, OutboxNext, OutboxStep, Poll, Publish, PublishFails,
                MarkPublished, CommitBatch, IterationFails, StopApi, StartApi, Abandon,
                Send, topicVars, vars
  <2> QED
    BY <1>3, <1>5, <2>1, OutboxKeepsOutcome DEF ForeignMessage, rowVars, workerVars, vars
<1>6. CASE WorkerNext
  <2> SUFFICES ASSUME NEW w \in Workers,
                      \/ WorkerStep(w)
                      \/ CommitOffsetFails(w)
                      \/ \E p \in Photos : DbError(w, p)
                      \/ Crash(w)
                      \/ Stop(w)
                      \/ StartWorker(w)
                      \/ RebalanceTo(w)
               PROVE  \/ GivenUp' \subseteq GivenUp
                      \/ /\ faults' = faults + 1
                         /\ \E p \in Photos : GivenUp' \subseteq GivenUp \cup {p}
    BY <1>6 DEF WorkerNext
  <2>0. UNCHANGED topic
    BY <1>6, WorkerKeepsLog
  <2>1. CASE Join(w) \/ RebalanceTo(w)
    BY <1>3, <2>1 DEF Join, RebalanceTo, Assign, rowVars, workerVars
  (* Steps outside process() that answer nothing. *)
  <2>2. CASE \/ Fetch(w) \/ StartWorker(w) \/ CommitOffsetFails(w) \/ Stop(w)
             \/ Crash(w) /\ pc[w] \notin InProcess
    <3>1. /\ UNCHANGED <<status, committed>> /\ pc[w] \notin InProcess
          /\ pc'[w] # "committing"
          /\ \A v \in Workers \ {w} : pc'[v] = pc[v] /\ message'[v] = message[v]
      BY <2>2 DEF Fetch, Take, StartWorker, CommitOffsetFails, Stop, Crash, Exit, Leave,
                  Goto, InProcess, rowVars, topicVars
    <3> QED
      BY <2>0, <3>1
  <2>3. CASE CommitOffset(w)
    <3>1. /\ UNCHANGED status /\ pc[w] = "committing" /\ pc'[w] = "polling"
          /\ \A v \in Workers \ {w} : pc'[v] = pc[v] /\ message'[v] = message[v]
          /\ committed' = IF owner = w THEN position[w] ELSE committed
      BY <2>3 DEF CommitOffset, CommitPosition, Goto, rowVars
    <3>2. \A i \in 1..committed' : i \in 1..committed \/ topic[i] = message[w]
      BY <1>1, <3>1 DEF ReaderInv
    <3>3. Abandoned' \subseteq Abandoned
      BY <3>1 DEF InProcess
    <3>4. Missed' \subseteq Missed
      BY <2>0, <3>1, <3>2
    <3> QED
      BY <3>3, <3>4
  <2>4. CASE DropPoison(w)
    <3>1. /\ UNCHANGED <<status, message, committed>> /\ pc[w] \notin InProcess
          /\ message[w] \notin Photos
          /\ \A v \in Workers \ {w} : pc'[v] = pc[v]
      BY <2>4 DEF DropPoison, Return, Goto, InProcess, rowVars, topicVars
    <3> QED
      BY <2>0, <3>1
  <2>5. ASSUME NEW p \in Photos, Claim(w, p)
        PROVE  GivenUp' \subseteq GivenUp
    <3>1. /\ pc[w] \notin InProcess /\ message[w] = p /\ UNCHANGED <<message, committed>>
          /\ \A v \in Workers \ {w} : pc'[v] = pc[v]
      BY <2>5 DEF Claim, Return, Goto, InProcess, topicVars
    <3>2. CASE Claimable(p)
      <4>1. /\ pc'[w] \in InProcess /\ pc'[w] # "committing" /\ status'[p] = Processing
            /\ \A q \in Photos \ {p} : status'[q] = status[q]
        BY <2>5, <3>2 DEF Claim, ClaimForProcessing, Goto, InProcess
      <4> QED
        BY <2>0, <3>1, <4>1 DEF Pending, Processing
    <3>3. CASE ~Claimable(p)
      <4>1. UNCHANGED status /\ status[p] # Pending
        BY <2>5, <3>3 DEF Claim, ClaimForProcessing, Claimable
      <4> QED
        BY <2>0, <3>1, <4>1
    <3> QED
      BY <3>2, <3>3
  <2>6. ASSUME NEW p \in Photos,
               \/ AnalyzeSucceeds(w, p)
               \/ \E exc \in AnalyzerErrors : AnalyzeFails(w, p, exc)
        PROVE  GivenUp' \subseteq GivenUp
    <3>1. /\ pc'[w] \in InProcess /\ pc'[w] # "committing"
          /\ UNCHANGED <<status, message, committed>>
          /\ \A v \in Workers \ {w} : pc'[v] = pc[v]
      BY <2>6 DEF AnalyzeSucceeds, AnalyzeFails, RecordAttempt, Goto, InProcess, rowVars, topicVars
    <3> QED
      BY <2>0, <3>1
  <2>7. ASSUME NEW p \in Photos, WriteDone(w, p) \/ WriteFailed(w, p)
        PROVE  GivenUp' \subseteq GivenUp
    <3>1. /\ message[w] = p /\ UNCHANGED <<message, committed>>
          /\ status'[p] \notin {Pending, Processing}
          /\ \A q \in Photos \ {p} : status'[q] = status[q]
          /\ \A v \in Workers \ {w} : pc'[v] = pc[v]
      BY <2>7 DEF WriteDone, WriteFailed, UpsertAndMarkDone, MarkDone, MarkFailed,
                  Return, Goto, Pending, Processing, Done, Failed, topicVars
    <3> QED
      BY <2>0, <3>1
  (* The two faults that give up the photo in hand. *)
  <2>8. ASSUME NEW p \in Photos, DbError(w, p)
        PROVE  faults' = faults + 1 /\ GivenUp' \subseteq GivenUp \cup {p}
    <3>1. /\ message[w] = p /\ UNCHANGED <<message, committed>> /\ faults' = faults + 1
          /\ \A q \in Photos \ {p} : status'[q] = status[q]
          /\ \A v \in Workers \ {w} : pc'[v] = pc[v]
      BY <2>8 DEF DbError, ClaimForProcessing, RecordAttempt, UpsertAndMarkDone, MarkDone,
                  MarkFailed, Return, Goto, Suffer, rowVars, topicVars
    <3>2. ASSUME NEW q \in Photos \ {p}, q \in GivenUp'
          PROVE  q \in GivenUp
      BY <2>0, <3>1, <3>2
    <3> QED
      BY <3>1, <3>2
  <2>9. CASE Crash(w) /\ pc[w] \in InProcess
    <3>1. /\ UNCHANGED <<status, committed>> /\ faults' = faults + 1
          /\ pc'[w] = "stopped" /\ message[w] \in Photos
          /\ \A v \in Workers \ {w} : pc'[v] = pc[v] /\ message'[v] = message[v]
      BY <2>9 DEF Crash, Exit, Leave, Goto, Suffer, ClaimIsExclusive, rowVars
    <3>2. GivenUp' \subseteq GivenUp \cup {message[w]}
      BY <2>0, <3>1
    <3> QED
      BY <3>1, <3>2
  <2> QED
    BY <2>1, <2>2, <2>3, <2>4, <2>5, <2>6, <2>7, <2>8, <2>9 DEF WorkerStep
<1> QED
  BY <1>4, <1>5, <1>6 DEF Next

(* Every photo that is stuck has cost a fault of its own: a crash of the   *)
(* worker that had claimed it, or a database error under its claim.        *)
THEOREM StuckPhotosAreCounted == Spec => []StuckPhotosNeedFaults
<1>1. Init => GivenUpInv
  <2> SUFFICES ASSUME Init
               PROVE  GivenUpInv
    OBVIOUS
  <2>1. GivenUp = {}
    BY DEF Init, RowsInit, GivenUp, Abandoned, Missed, Absent, Pending, Processing
  <2> QED
    BY <2>1, FS_EmptySet DEF Init, FaultsInit, GivenUpInv
<1>2. TypeOK /\ OutboxInv /\ ReaderInv /\ ClaimIsExclusive /\ GivenUpInv /\ [Next]_vars
        => GivenUpInv'
  <2> SUFFICES ASSUME TypeOK, OutboxInv, ReaderInv, ClaimIsExclusive, GivenUpInv, [Next]_vars
               PROVE  GivenUpInv'
    OBVIOUS
  <2>1. faults \in Nat /\ faults' \in Nat /\ (faults' = faults \/ faults' = faults + 1)
    BY FaultsGrow
  <2>2. IsFiniteSet(GivenUp) /\ Cardinality(GivenUp) \in Nat /\ Cardinality(GivenUp) <= faults
    BY FS_CardinalityType DEF GivenUpInv
  <2> HIDE DEF GivenUp
  <2>3. CASE GivenUp' \subseteq GivenUp
    <3>1. IsFiniteSet(GivenUp') /\ Cardinality(GivenUp') <= Cardinality(GivenUp)
      BY <2>2, <2>3, FS_Subset
    <3>2. Cardinality(GivenUp') \in Nat
      BY <3>1, FS_CardinalityType
    <3> QED
      BY <2>1, <2>2, <3>1, <3>2 DEF GivenUpInv
  <2>4. ASSUME NEW p \in Photos, faults' = faults + 1, GivenUp' \subseteq GivenUp \cup {p}
        PROVE  GivenUpInv'
    <3>1. /\ IsFiniteSet(GivenUp \cup {p})
          /\ \/ Cardinality(GivenUp \cup {p}) = Cardinality(GivenUp)
             \/ Cardinality(GivenUp \cup {p}) = Cardinality(GivenUp) + 1
      BY <2>2, FS_AddElement
    <3>2. IsFiniteSet(GivenUp') /\ Cardinality(GivenUp') <= Cardinality(GivenUp \cup {p})
      BY <2>4, <3>1, FS_Subset
    <3>3. Cardinality(GivenUp') \in Nat
      BY <3>2, FS_CardinalityType
    <3> QED
      BY <2>2, <2>4, <3>1, <3>2, <3>3, <2>1 DEF GivenUpInv
  <2> QED
    BY <2>3, <2>4, OnePhotoPerFault
<1>3. TypeOK /\ OutboxInv /\ GivenUpInv => StuckPhotosNeedFaults
  <2> SUFFICES ASSUME TypeOK, OutboxInv, GivenUpInv
               PROVE  StuckPhotosNeedFaults
    OBVIOUS
  <2>1. Skipped \subseteq Missed
    <3> SUFFICES ASSUME NEW p \in Skipped
                 PROVE  p \in Missed
      OBVIOUS
    <3>1. p \in Photos /\ status[p] = Pending /\ publishStatus[p] = "sent" /\ ~Uncommitted(p)
      BY DEF Skipped
    <3>2. PICK i \in 1..Len(topic) : topic[i] = p
      BY <3>1 DEF OutboxInv, InTopic
    <3>3. committed \in Nat /\ Len(topic) \in Nat
      BY DEF TypeOK, TopicType
    <3>4. i \in 1..committed
      BY <3>1, <3>2, <3>3 DEF Uncommitted
    <3> QED
      BY <3>1, <3>2, <3>4 DEF Missed, Answered
  <2>2. Abandoned \cup Skipped \subseteq GivenUp
    BY <2>1 DEF GivenUp
  <2>3. /\ IsFiniteSet(GivenUp) /\ Cardinality(GivenUp) <= faults
        /\ faults \in Nat /\ Cardinality(GivenUp) \in Nat
    BY FS_CardinalityType, FaultsAssumption DEF GivenUpInv, TypeOK, FaultsType
  <2> HIDE DEF GivenUp, Abandoned, Skipped
  <2>4. /\ IsFiniteSet(Abandoned \cup Skipped)
        /\ Cardinality(Abandoned \cup Skipped) <= Cardinality(GivenUp)
    BY <2>2, <2>3, FS_Subset
  <2>5. Cardinality(Abandoned \cup Skipped) \in Nat
    BY <2>4, FS_CardinalityType
  <2> QED
    BY <2>3, <2>4, <2>5 DEF StuckPhotosNeedFaults
<1> QED
  BY <1>1, <1>2, <1>3, TypeCorrect, OutboxIsSound, ReaderIsSound, ExclusiveClaims, PTL
     DEF Spec
=============================================================================
