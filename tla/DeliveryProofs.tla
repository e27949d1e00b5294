--------------------------- MODULE DeliveryProofs ---------------------------
(***************************************************************************)
(* At-least-once delivery from the outbox row to the claim: a pending      *)
(* photo is in the outbox, or its message is still to be read.             *)
(***************************************************************************)
EXTENDS PipelineProofs, FiniteSetTheorems

-----------------------------------------------------------------------------
(* Two ways in which the shared state only grows.                          *)

(* A row is never uncommitted, and a claim is never given back.            *)
LEMMA StatusAdvances ==
    ASSUME TypeOK, ClaimIsExclusive, [Next]_vars
    PROVE  \A p \in Photos :
             /\ status[p] # Absent => status'[p] # Absent
             /\ status[p] \in {Processing, Done, Failed}
                  => status'[p] \in {Processing, Done, Failed}
<1> USE DEF Absent, Pending, Processing, Done, Failed
<1>1. status \in [Photos -> Statuses]
  BY DEF TypeOK, RowsType
<1>2. CASE UNCHANGED status
  BY <1>2
<1>3. CASE \E P \in Uploads : Upload(P)
  BY <1>1, <1>3 DEF Upload, CreateRows
<1>4. CASE WorkerNext
  BY <1>1, <1>4, WorkerRowStep
     DEF ClaimForProcessing, Claimable, RecordAttempt, UpsertAndMarkDone, Upsert, MarkDone, MarkFailed,
         rowVars
<1>5. CASE ForeignMessage \/ OutboxNext \/ UNCHANGED vars
  BY <1>2, <1>5, OutboxKeepsOutcome DEF ForeignMessage, vars, rowVars
<1> QED
  BY <1>3, <1>4, <1>5 DEF Next

(* A worker reads the log and never writes it.                             *)
LEMMA WorkerKeepsLog ==
    ASSUME WorkerNext
    PROVE  UNCHANGED topic
  BY DEF WorkerNext, WorkerStep, Join, RebalanceTo, Assign, Fetch, Take, StartWorker,
         CommitOffset, CommitPosition, DropPoison, CommitOffsetFails, Crash, Stop,
         Exit, Leave, Claim, AnalyzeSucceeds, AnalyzeFails, WriteDone, WriteFailed,
         DbError, topicVars

(* The log is only appended to, so what is in it stays at its place.       *)
LEMMA LogGrows ==
    ASSUME TypeOK, [Next]_vars
    PROVE  /\ Len(topic') >= Len(topic)
           /\ \A i \in 1..Len(topic) : topic'[i] = topic[i]
           /\ \A m : InTopic(m) => InTopic(m)'
<1>1. topic \in Seq(Messages)
  BY DEF TypeOK, TopicType
<1>2. topic' = topic \/ \E m \in Messages : topic' = Append(topic, m)
  <2>1. CASE (\E P \in Uploads : Upload(P)) \/ UNCHANGED vars
    BY <2>1 DEF Upload, vars, topicVars
  <2>2. CASE ForeignMessage
    BY <2>2 DEF ForeignMessage, Send
  <2>3. CASE WorkerNext
    BY <2>3, WorkerKeepsLog
  <2>4. CASE OutboxNext
    <3>1. ASSUME NEW p \in Photos, Publish(p) \/ PublishFails(p)
          PROVE  topic' = topic \/ topic' = Append(topic, p)
      BY <3>1 DEF Publish, PublishFails, Send, topicVars
    <3>2. CASE \/ Poll \/ (\E p \in Photos : MarkPublished(p)) \/ CommitBatch
               \/ IterationFails \/ StopApi \/ StartApi
      BY <3>2 DEF Poll, MarkPublished, CommitBatch, IterationFails, StopApi, StartApi,
                  Abandon, topicVars
    <3> QED
      BY <2>4, <3>1, <3>2, OutboxAssumption DEF OutboxNext, OutboxStep
  <2> QED
    BY <2>1, <2>2, <2>3, <2>4 DEF Next
<1>3. Len(topic') >= Len(topic) /\ \A i \in 1..Len(topic) : topic'[i] = topic[i]
  BY <1>1, <1>2
<1> QED
  BY <1>1, <1>3 DEF InTopic

-----------------------------------------------------------------------------
(* The publisher: what it knows is committed, what is sent is in the log.  *)
THEOREM OutboxIsSound == Spec => []OutboxInv
<1>1. Init => OutboxInv
  BY DEF Init, RowsInit, TopicInit, OutboxInit, OutboxInv, InTopic
<1>2. TypeOK /\ ClaimIsExclusive /\ OutboxInv /\ [Next]_vars => OutboxInv'
  <2> SUFFICES ASSUME TypeOK, ClaimIsExclusive, OutboxInv, [Next]_vars
               PROVE  OutboxInv'
    OBVIOUS
  <2>1. /\ topic \in Seq(Messages)
        /\ batch \subseteq Photos /\ acked \subseteq Photos /\ marked \subseteq Photos
        /\ publishStatus \in [Photos -> {"not_sent", "sent"}]
    BY DEF TypeOK, TopicType, OutboxType, RowsType
  <2>2. /\ \A p \in Photos : status[p] # Absent => status'[p] # Absent
        /\ \A m : InTopic(m) => InTopic(m)'
    BY StatusAdvances, LogGrows
  (* The steps that fetch no row and send no message. *)
  <2>3. ASSUME UNCHANGED topic,
               batch' \cup acked' \cup marked' \subseteq batch \cup acked \cup marked,
               \A p \in Photos : p \in acked' \cup marked' \/ publishStatus'[p] = "sent"
                                   => p \in acked \cup marked \/ publishStatus[p] = "sent"
        PROVE  OutboxInv'
    BY <2>2, <2>3 DEF OutboxInv, InTopic
  <2>4. CASE (\E P \in Uploads : Upload(P)) \/ UNCHANGED vars
    BY <2>3, <2>4 DEF Upload, CreateRows, vars, rowVars, topicVars, outboxVars
  <2>5. CASE ForeignMessage
    <3>1. PICK m \in Messages \ Photos : topic' = Append(topic, m)
      BY <2>5 DEF ForeignMessage, Send
    <3>2. \A p \in Photos : InTopic(p)' => InTopic(p)
      BY <2>1, <3>1 DEF InTopic
    <3> QED
      BY <2>2, <2>5, <3>2 DEF ForeignMessage, OutboxInv, rowVars, outboxVars
  <2>6. CASE OutboxNext
    <3>1. CASE Poll
      BY <2>1, <3>1 DEF Poll, FetchUnpublished, Unpublished, OutboxInv, InTopic,
                        rowVars, topicVars
    <3>2. ASSUME NEW p \in Photos, Publish(p) \/ PublishFails(p)
          PROVE  OutboxInv'
      <4>1. p \in batch /\ status[p] # Absent
        BY <3>2 DEF Publish, PublishFails, Oldest, OutboxInv
      <4>2. CASE topic' = Append(topic, p)
        <5>1. InTopic(p)' /\ \A q \in Photos : InTopic(q)' => q = p \/ InTopic(q)
          BY <2>1, <4>2 DEF InTopic
        <5> QED
          BY <2>2, <3>2, <4>1, <5>1 DEF Publish, PublishFails, OutboxInv, rowVars
      <4>3. CASE UNCHANGED topic /\ PublishFails(p)
        BY <2>3, <4>3 DEF PublishFails, rowVars
      <4> QED
        BY <3>2, <4>2, <4>3 DEF Publish, PublishFails, Send, topicVars
    <3>3. CASE \E p \in Photos : MarkPublished(p)
      BY <2>3, <3>3 DEF MarkPublished, rowVars, topicVars
    <3>4. CASE CommitBatch
      BY <2>3, <3>4 DEF CommitBatch, CommitPublished, topicVars
    <3>5. CASE IterationFails \/ StopApi \/ StartApi
      BY <2>3, <3>5 DEF IterationFails, StopApi, StartApi, Abandon, rowVars, topicVars
    <3> QED
      BY <2>6, <3>1, <3>2, <3>3, <3>4, <3>5 DEF OutboxNext, OutboxStep
  <2>7. CASE WorkerNext /\ UNCHANGED outboxVars
    <3>1. UNCHANGED publishStatus
      BY <2>7 DEF WorkerNext, WorkerStep, Join, RebalanceTo, Fetch, StartWorker,
                  CommitOffset, DropPoison, CommitOffsetFails, Crash, Stop, Exit,
                  Claim, ClaimForProcessing, AnalyzeSucceeds, AnalyzeFails,
                  RecordAttempt, WriteDone, UpsertAndMarkDone, Upsert, MarkDone,
                  WriteFailed, MarkFailed,
                  DbError, rowVars
    <3> QED
      BY <2>3, <2>7, <3>1, WorkerKeepsLog DEF outboxVars
  <2> QED
    BY <2>4, <2>5, <2>6, <2>7 DEF Next
<1> QED
  BY <1>1, <1>2, TypeCorrect, ExclusiveClaims, PTL DEF Spec

(* A row that says "sent" has its message in the log.                      *)
THEOREM SentIsPublished == Spec => []SentIsInTopic
<1>1. OutboxInv => SentIsInTopic
  BY DEF OutboxInv, SentIsInTopic
<1> QED
  BY <1>1, OutboxIsSound, PTL

-----------------------------------------------------------------------------
(* The consumer group: the owner is never more than one message ahead of   *)
(* the committed offset, and that message is the one it holds.             *)
THEOREM ReaderIsSound == Spec => []ReaderInv
<1>1. Init => ReaderInv
  BY TopicAssumption DEF Init, TopicInit, WorkerInit, ReaderInv, InFlight, InProcess
<1>2. TypeOK /\ ReaderInv /\ [Next]_vars => ReaderInv'
  <2> SUFFICES ASSUME TypeOK, ReaderInv, [Next]_vars
               PROVE  ReaderInv'
    OBVIOUS
  <2> USE TopicAssumption DEF ReaderInv
  <2>1. /\ topic \in Seq(Messages)
        /\ committed \in Nat
        /\ owner \in Workers \cup {Nobody}
        /\ position \in [Workers -> Nat]
        /\ pc \in [Workers -> {"stopped", "polling"} \cup InFlight]
        /\ message \in [Workers -> Messages \cup {NoMessage}]
    BY DEF TypeOK, TopicType, WorkerType
  <2>2. /\ Len(topic') \in Nat
        /\ Len(topic') >= Len(topic)
        /\ \A i \in 1..Len(topic) : topic'[i] = topic[i]
        /\ \A m : InTopic(m) => InTopic(m)'
    <3>1. topic' \in Seq(Messages)
      BY TypeStep DEF TypeOK, TopicType
    <3> QED
      BY <3>1, LogGrows
  (* Steps in which no worker and no offset takes part. *)
  <2>3. CASE UNCHANGED <<committed, owner, position, workerVars>>
    <3>1. \A w \in Workers : pc'[w] \in InFlight => InTopic(message[w])'
      BY <2>2, <2>3 DEF workerVars
    <3> QED
      BY <2>1, <2>2, <2>3, <3>1 DEF workerVars
  <2>4. CASE (\E P \in Uploads : Upload(P)) \/ UNCHANGED vars
    BY <2>3, <2>4 DEF Upload, vars, topicVars
  <2>5. CASE ForeignMessage
    BY <2>3, <2>5 DEF ForeignMessage, Send
  <2>6. CASE OutboxNext /\ UNCHANGED workerVars
    <3>1. UNCHANGED <<committed, owner, position>>
      BY <2>6 DEF OutboxNext, OutboxStep, Poll, Publish, PublishFails, MarkPublished,
                  CommitBatch, IterationFails, StopApi, StartApi, Abandon, Send, topicVars
    <3> QED
      BY <2>3, <2>6, <3>1
  <2>7. CASE WorkerNext
    <3> SUFFICES ASSUME NEW w \in Workers,
                        \/ WorkerStep(w)
                        \/ CommitOffsetFails(w)
                        \/ \E p \in Photos : DbError(w, p)
                        \/ Crash(w)
                        \/ Stop(w)
                        \/ StartWorker(w)
                        \/ RebalanceTo(w)
                 PROVE  ReaderInv'
      BY <2>7 DEF WorkerNext
    <3>1. \A m : InTopic(m)' <=> InTopic(m)
      BY <2>7, WorkerKeepsLog DEF InTopic
    <3>2. UNCHANGED topic
      BY <2>7, WorkerKeepsLog
    <3>3. CASE Join(w) \/ RebalanceTo(w)
      BY <2>1, <3>1, <3>2, <3>3 DEF Join, RebalanceTo, Assign, workerVars
    <3>4. CASE Fetch(w)
      <4>1. InTopic(NextMessage(w)) /\ NextMessage(w) = topic[position[w] + 1]
        BY <2>1, <3>4 DEF Fetch, Take, HasNext, InTopic, NextMessage
      <4>2. owner = w /\ position[w] = committed
        BY <2>1, <3>4 DEF Fetch, Take, HasNext, InFlight, InProcess
      <4>3. /\ pc' = [pc EXCEPT ![w] = "claiming"]
            /\ message' = [message EXCEPT ![w] = NextMessage(w)]
            /\ position' = [position EXCEPT ![w] = @ + 1]
            /\ position[w] < Len(topic)
            /\ UNCHANGED <<committed, owner>>
        BY <3>4 DEF Fetch, Take, HasNext, Goto
      <4>4. pc'[w] = "claiming" /\ message'[w] = NextMessage(w)
            /\ position'[w] = committed + 1
        BY <2>1, <4>2, <4>3
      <4>5. \A v \in Workers : pc'[v] \in InFlight => InTopic(message'[v])
        BY <2>1, <4>1, <4>3, <4>4
      <4> QED
        BY <2>1, <3>1, <3>2, <4>1, <4>2, <4>3, <4>4, <4>5 DEF InFlight
    <3>5. CASE CommitOffset(w)
      <4>1. /\ pc' = [pc EXCEPT ![w] = "polling"]
            /\ message' = [message EXCEPT ![w] = NoMessage]
            /\ committed' = IF owner = w THEN position[w] ELSE committed
            /\ UNCHANGED <<owner, position>>
        BY <3>5 DEF CommitOffset, CommitPosition, Goto
      <4> QED
        BY <2>1, <3>1, <3>2, <4>1 DEF InFlight, InProcess
    <3>6. CASE CommitOffsetFails(w) \/ Crash(w) \/ Stop(w)
      <4>1. /\ pc' = [pc EXCEPT ![w] = "stopped"]
            /\ message' = [message EXCEPT ![w] = NoMessage]
            /\ owner' = IF owner = w THEN Nobody ELSE owner
            /\ UNCHANGED <<committed, position>>
        BY <3>6 DEF CommitOffsetFails, Crash, Stop, Exit, Leave, Goto
      <4> QED
        BY <2>1, <3>1, <3>2, <4>1 DEF InFlight, InProcess
    <3>7. CASE StartWorker(w)
      BY <2>1, <3>1, <3>2, <3>7 DEF StartWorker, Goto, topicVars, InFlight, InProcess
    (* Steps inside process(): the worker keeps its message. *)
    <3>8. ASSUME pc[w] \in InFlight,
                 UNCHANGED <<topicVars, message>>,
                 \E place \in InFlight : pc' = [pc EXCEPT ![w] = place]
          PROVE  ReaderInv'
      BY <2>1, <3>1, <3>8 DEF topicVars
    <3>9. CASE DropPoison(w)
      BY <3>8, <3>9 DEF DropPoison, Return, Goto, InFlight
    <3>10. ASSUME NEW p \in Photos, Claim(w, p)
           PROVE  ReaderInv'
      BY <3>8, <3>10 DEF Claim, Return, Goto, InFlight, InProcess
    <3>11. ASSUME NEW p \in Photos, AnalyzeSucceeds(w, p)
           PROVE  ReaderInv'
      BY <3>8, <3>11 DEF AnalyzeSucceeds, Goto, InFlight, InProcess
    <3>12. ASSUME NEW p \in Photos, NEW exc \in AnalyzerErrors, AnalyzeFails(w, p, exc)
           PROVE  ReaderInv'
      <4>1. pc' = [pc EXCEPT ![w] = "failing"] \/ pc' = pc
        BY <3>12 DEF AnalyzeFails, Goto
      <4>2. pc' = [pc EXCEPT ![w] = "failing"] \/ pc' = [pc EXCEPT ![w] = "analyzing"]
        BY <2>1, <3>12, <4>1 DEF AnalyzeFails
      <4> QED
        BY <3>8, <3>12, <4>2 DEF AnalyzeFails, InFlight, InProcess
    <3>13. ASSUME NEW p \in Photos, WriteDone(w, p) \/ WriteFailed(w, p)
           PROVE  ReaderInv'
      BY <3>8, <3>13 DEF WriteDone, WriteFailed, Return, Goto, InFlight, InProcess
    <3>14. ASSUME NEW p \in Photos, DbError(w, p)
           PROVE  ReaderInv'
      BY <3>8, <3>14 DEF DbError, Return, Goto, InFlight, InProcess
    <3> QED
      BY <3>3, <3>4, <3>5, <3>6, <3>7, <3>9, <3>10, <3>11, <3>12, <3>13, <3>14
         DEF WorkerStep
  <2> QED
    BY <2>4, <2>5, <2>6, <2>7 DEF Next
<1> QED
  BY <1>1, <1>2, TypeCorrect, PTL DEF Spec

-----------------------------------------------------------------------------
(* What is answered has been claimed, unless an error inside process() may *)
(* return without a claim.                                                 *)
LEMMA AnsweredStep ==
    ASSUME WorkerDbError \notin FaultKinds,
           TypeOK, OutboxInv, ReaderInv, ClaimIsExclusive, AnsweredInv,
           [Next]_vars
    PROVE  AnsweredInv'
<1> USE DEF AnsweredInv
<1>1. /\ topic \in Seq(Messages)
      /\ committed \in Nat
      /\ committed <= Len(topic)
      /\ owner \in Workers \cup {Nobody}
      /\ position \in [Workers -> Nat]
      /\ pc \in [Workers -> {"stopped", "polling"} \cup InFlight]
      /\ message \in [Workers -> Messages \cup {NoMessage}]
      /\ status \in [Photos -> Statuses]
  BY DEF TypeOK, TopicType, WorkerType, RowsType, ReaderInv
<1>2. \A m : Claimed(m) => Claimed(m)'
  BY StatusAdvances DEF Claimed
<1>3. \A i \in 1..committed : topic'[i] = topic[i]
  BY <1>1, LogGrows
(* Steps that answer nothing. *)
<1>4. ASSUME UNCHANGED <<committed, message>>,
             \A w \in Workers : pc'[w] = "committing" => pc[w] = "committing"
      PROVE  AnsweredInv'
  <2>1. \A w \in Workers : pc'[w] = "committing" => Claimed(message[w])'
    BY <1>2, <1>4
  <2>2. \A i \in 1..committed : Claimed(topic[i])'
    BY <1>2, <1>3 DEF Claimed
  <2> QED
    BY <1>4, <2>1, <2>2
<1>5. CASE \/ \E P \in Uploads : Upload(P)
           \/ ForeignMessage
           \/ OutboxNext /\ UNCHANGED workerVars
           \/ UNCHANGED vars
  <2>1. CASE (\E P \in Uploads : Upload(P)) \/ ForeignMessage \/ UNCHANGED vars
    BY <1>4, <2>1 DEF Upload, ForeignMessage, Send, vars, topicVars, workerVars
  <2>2. CASE OutboxNext /\ UNCHANGED workerVars
    <3>1. UNCHANGED committed
      BY <2>2 DEF OutboxNext, OutboxStep, Poll, Publish, PublishFails, MarkPublished,
                  CommitBatch, IterationFails, StopApi, StartApi, Abandon, Send, topicVars
    <3> QED
      BY <1>4, <2>2, <3>1 DEF workerVars
  <2> QED
    BY <1>5, <2>1, <2>2
<1>6. CASE WorkerNext
  <2> SUFFICES ASSUME NEW w \in Workers,
                      \/ WorkerStep(w)
                      \/ CommitOffsetFails(w)
                      \/ \E p \in Photos : DbError(w, p)
                      \/ Crash(w)
                      \/ Stop(w)
                      \/ StartWorker(w)
                      \/ RebalanceTo(w)
               PROVE  AnsweredInv'
    BY <1>6 DEF WorkerNext
  (* Steps that answer the message of w. *)
  <2>1. ASSUME UNCHANGED <<committed, message>>,
               pc' = [pc EXCEPT ![w] = "committing"],
               Claimed(message[w])'
        PROVE  AnsweredInv'
    <3>1. \A v \in Workers : pc'[v] = "committing" => Claimed(message[v])'
      BY <1>1, <1>2, <2>1
    <3>2. \A i \in 1..committed : Claimed(topic[i])'
      BY <1>2, <1>3 DEF Claimed
    <3> QED
      BY <2>1, <3>1, <3>2
  (* Steps that forget the message of w, and commit nothing. *)
  <2>2. ASSUME UNCHANGED committed,
               \E m \in Messages \cup {NoMessage} : message' = [message EXCEPT ![w] = m],
               \E place \in {"stopped", "polling", "claiming"} :
                   pc' = [pc EXCEPT ![w] = place]
        PROVE  AnsweredInv'
    <3>1. \A v \in Workers : pc'[v] = "committing" =>
                                v # w /\ pc[v] = "committing" /\ message'[v] = message[v]
      BY <1>1, <2>2
    <3>2. \A v \in Workers : pc'[v] = "committing" => Claimed(message[v])'
      BY <1>2, <3>1 DEF Claimed
    <3>3. \A i \in 1..committed : Claimed(topic[i])'
      BY <1>2, <1>3 DEF Claimed
    <3> QED
      BY <2>2, <3>2, <3>3
  <2>3. CASE Join(w) \/ RebalanceTo(w)
    BY <1>4, <2>3 DEF Join, RebalanceTo, Assign, workerVars
  <2>4. CASE Fetch(w)
    BY <1>1, <2>2, <2>4, NextMessageType
       DEF Fetch, Take, Goto, TypeOK
  <2>5. CASE DropPoison(w)
    BY <2>1, <2>5 DEF DropPoison, Return, Goto, Claimed, topicVars
  <2>6. ASSUME NEW p \in Photos, Claim(w, p)
        PROVE  AnsweredInv'
    <3>1. CASE status[p] = Pending
      BY <1>1, <1>4, <2>6, <3>1 DEF Claim, Claimable, Goto, topicVars
    <3>2. CASE status[p] # Pending
      <4>1. InTopic(p)
        BY <2>6 DEF Claim, ReaderInv, InFlight
      <4>2. status[p] # Absent /\ status'[p] = status[p]
        BY <2>6, <3>2, <4>1 DEF Claim, ClaimForProcessing, Claimable, OutboxInv
      <4>3. Claimed(p)'
        BY <1>1, <3>2, <4>2 DEF Claimed, Statuses
      <4> QED
        BY <2>1, <2>6, <3>2, <4>3 DEF Claim, Claimable, Return, Goto, topicVars
    <3> QED
      BY <3>1, <3>2
  <2>7. ASSUME NEW p \in Photos,
               \/ AnalyzeSucceeds(w, p)
               \/ \E exc \in AnalyzerErrors : AnalyzeFails(w, p, exc)
        PROVE  AnsweredInv'
    BY <1>1, <1>4, <2>7 DEF AnalyzeSucceeds, AnalyzeFails, Goto, topicVars
  <2>8. ASSUME NEW p \in Photos, WriteDone(w, p) \/ WriteFailed(w, p)
        PROVE  AnsweredInv'
    <3>1. message[w] = p /\ status'[p] \in {Done, Failed}
      BY <1>1, <2>8 DEF WriteDone, WriteFailed, UpsertAndMarkDone, Upsert, MarkDone, MarkFailed
    <3> QED
      BY <2>1, <2>8, <3>1
         DEF WriteDone, WriteFailed, Return, Goto, topicVars, Claimed
  <2>9. CASE CommitOffset(w)
    <3>1. /\ pc' = [pc EXCEPT ![w] = "polling"]
          /\ message' = [message EXCEPT ![w] = NoMessage]
          /\ committed' = IF owner = w THEN position[w] ELSE committed
          /\ pc[w] = "committing"
          /\ UNCHANGED topic
      BY <2>9 DEF CommitOffset, CommitPosition, Goto
    <3>2. \A v \in Workers : pc'[v] = "committing" => Claimed(message[v])'
      <4>1. \A v \in Workers : pc'[v] = "committing" =>
                                  pc[v] = "committing" /\ message'[v] = message[v]
        BY <1>1, <3>1
      <4> QED
        BY <1>2, <4>1 DEF Claimed
    <3>3. \A i \in 1..committed' : Claimed(topic[i])
      BY <1>1, <3>1 DEF ReaderInv
    <3>4. \A i \in 1..committed' : Claimed(topic[i])'
      BY <1>2, <3>1, <3>3 DEF Claimed
    <3> QED
      BY <3>2, <3>4
  <2>10. CASE CommitOffsetFails(w) \/ Crash(w) \/ Stop(w)
    BY <2>2, <2>10 DEF CommitOffsetFails, Crash, Stop, Exit, Leave, Goto
  <2>11. CASE StartWorker(w)
    BY <1>1, <1>4, <2>11 DEF StartWorker, Goto, topicVars
  <2>12. CASE \E p \in Photos : DbError(w, p)
    BY <2>12 DEF DbError, Suffer
  <2> QED
    BY <2>3, <2>4, <2>5, <2>6, <2>7, <2>8, <2>9, <2>10, <2>11, <2>12 DEF WorkerStep
<1> QED
  BY <1>5, <1>6 DEF Next

(* Every row, message and offset is where the delivery chain wants it.     *)
THEOREM DeliveryIsSound ==
    ASSUME WorkerDbError \notin FaultKinds
    PROVE  Spec => []DeliveryInv
<1>1. Init => AnsweredInv
  BY DEF Init, TopicInit, WorkerInit, AnsweredInv
<1>2. /\ TypeOK /\ OutboxInv /\ ReaderInv /\ ClaimIsExclusive
      /\ AnsweredInv /\ [Next]_vars
      => AnsweredInv'
  BY AnsweredStep
<1>3. OutboxInv /\ ReaderInv /\ AnsweredInv => DeliveryInv
  BY DEF DeliveryInv
<1> QED
  BY <1>1, <1>2, <1>3, TypeCorrect, OutboxIsSound, ReaderIsSound, ExclusiveClaims,
     PTL DEF Spec

(* At-least-once delivery: a photo that is pending and no longer in the    *)
(* outbox has a message the group has still to commit.                     *)
THEOREM AtLeastOnce ==
    ASSUME WorkerDbError \notin FaultKinds
    PROVE  Spec => []NothingLost
<1>1. TypeOK /\ DeliveryInv => NothingLost
  <2> SUFFICES ASSUME TypeOK, OutboxInv, AnsweredInv,
                      NEW p \in Photos, status[p] = Pending, publishStatus[p] = "sent"
               PROVE  Uncommitted(p)
    BY DEF NothingLost, DeliveryInv
  <2>1. PICK i \in 1..Len(topic) : topic[i] = p
    BY DEF OutboxInv, InTopic
  <2>2. ~Claimed(p)
    BY DEF Claimed, Pending, Processing, Done, Failed
  <2>3. ~(i <= committed)
    BY <2>1, <2>2 DEF AnsweredInv, TypeOK, TopicType
  <2> QED
    BY <2>1, <2>3 DEF Uncommitted, TypeOK, TopicType
<1> QED
  BY <1>1, TypeCorrect, DeliveryIsSound, PTL

-----------------------------------------------------------------------------
(* How often a photo is published.  A row that is acked, marked or sent    *)
(* has been published once more than there were faults, at most; a row     *)
(* that may be published next, at most as often as there were faults.      *)
Places(p) == {i \in 1..Len(topic) : topic[i] = p}
Settled(p) == p \in acked \cup marked \/ publishStatus[p] = "sent"

CopiesInv ==
    /\ \A p \in Photos :
         /\ Settled(p) => Cardinality(Places(p)) <= 1 + faults
         /\ ~Settled(p) => Cardinality(Places(p)) <= faults
         /\ p \in batch => ~Settled(p)
    /\ \A p, q \in acked : p = q
    /\ outbox # "batch" => acked = {} /\ marked = {} /\ batch = {}

LEMMA PlacesType ==
    ASSUME TypeOK, NEW m
    PROVE  IsFiniteSet(Places(m)) /\ Cardinality(Places(m)) \in Nat
<1>1. Len(topic) \in Nat
  BY DEF TypeOK, TopicType
<1>2. IsFiniteSet(1..Len(topic)) /\ Places(m) \subseteq 1..Len(topic)
  BY <1>1, FS_Interval DEF Places
<1> QED
  BY <1>2, FS_Subset, FS_CardinalityType

(* A send adds one place for its message, and none for the others.         *)
LEMMA SendPlaces ==
    ASSUME TypeOK, NEW m \in Messages, topic' = Append(topic, m)
    PROVE  /\ Cardinality(Places(m)') = Cardinality(Places(m)) + 1
           /\ \A q : q # m => Places(q)' = Places(q)
<1>1. /\ Len(topic) \in Nat /\ Len(topic') = Len(topic) + 1
      /\ topic'[Len(topic) + 1] = m /\ \A i \in 1..Len(topic) : topic'[i] = topic[i]
  BY DEF TypeOK, TopicType
<1>2. \A q : q # m => Places(q)' = Places(q)
  BY <1>1 DEF Places
<1>3. Places(m)' = Places(m) \cup {Len(topic) + 1} /\ Len(topic) + 1 \notin Places(m)
  BY <1>1 DEF Places
<1>4. Cardinality(Places(m) \cup {Len(topic) + 1}) = Cardinality(Places(m)) + 1
  BY <1>3, PlacesType, FS_AddElement
<1> QED
  BY <1>2, <1>3, <1>4

(* The worker neither publishes nor marks.                                 *)
LEMMA WorkerKeepsOutbox ==
    ASSUME WorkerNext
    PROVE  UNCHANGED publishStatus /\ (faults' = faults \/ faults' = faults + 1)
  BY DEF WorkerNext, WorkerStep, Join, RebalanceTo, Fetch, StartWorker,
         CommitOffset, DropPoison, CommitOffsetFails, Crash, Stop, Exit,
         Claim, ClaimForProcessing, AnalyzeSucceeds, AnalyzeFails,
         RecordAttempt, WriteDone, UpsertAndMarkDone, Upsert, MarkDone,
         WriteFailed, MarkFailed, DbError, rowVars, Suffer

LEMMA CopiesStep ==
    ASSUME TypeOK, CopiesInv, [Next]_vars
    PROVE  CopiesInv'
<1>1. /\ faults \in Nat /\ batch \subseteq Photos /\ acked \subseteq Photos
      /\ marked \subseteq Photos /\ publishStatus \in [Photos -> {"not_sent", "sent"}]
      /\ \A p \in Photos : Cardinality(Places(p)) \in Nat
  BY PlacesType, FaultsAssumption DEF TypeOK, FaultsType, OutboxType, RowsType
(* The steps that send nothing and settle nothing, and unsettle only at the *)
(* price of a fault.                                                        *)
<1>2. ASSUME \A p \in Photos : Places(p)' = Places(p),
             \/ faults' = faults /\ \A p \in Photos : Settled(p)' <=> Settled(p)
             \/ faults' = faults + 1 /\ \A p \in Photos : Settled(p)' => Settled(p),
             \A p \in Photos : p \in batch' => ~Settled(p)',
             \A p, q \in acked' : p = q,
             outbox' # "batch" => acked' = {} /\ marked' = {} /\ batch' = {}
      PROVE  CopiesInv'
  <2> SUFFICES ASSUME NEW p \in Photos
               PROVE  /\ Settled(p)' => Cardinality(Places(p)') <= 1 + faults'
                      /\ ~Settled(p)' => Cardinality(Places(p)') <= faults'
    BY <1>2 DEF CopiesInv
  <2>1. /\ Cardinality(Places(p)') = Cardinality(Places(p)) /\ Cardinality(Places(p)) \in Nat
        /\ Settled(p) => Cardinality(Places(p)) <= 1 + faults
        /\ ~Settled(p) => Cardinality(Places(p)) <= faults
    BY <1>1, <1>2 DEF CopiesInv
  <2> HIDE DEF Places, Settled
  <2> QED
    BY <1>1, <1>2, <2>1
<1>3. UNCHANGED topic => \A p \in Photos : Places(p)' = Places(p)
  BY DEF Places
<1>4. UNCHANGED <<acked, marked, publishStatus>> => \A p \in Photos : Settled(p)' <=> Settled(p)
  BY DEF Settled
<1>5. (\A p \in Photos : p \in batch => ~Settled(p)) /\ (\A p, q \in acked : p = q)
  BY DEF CopiesInv
<1>6. outbox # "batch" => acked = {} /\ marked = {} /\ batch = {}
  BY DEF CopiesInv
<1>7. CASE (\E P \in Uploads : Upload(P)) \/ UNCHANGED vars
  <2>1. UNCHANGED <<topic, acked, marked, publishStatus, batch, outbox, faults>>
    BY <1>7 DEF Upload, CreateRows, vars, rowVars, topicVars, outboxVars
  <2> QED
    BY <1>2, <1>3, <1>4, <1>5, <1>6, <2>1
<1>8. CASE ForeignMessage
  <2>1. PICK m \in Messages \ Photos : topic' = Append(topic, m)
    BY <1>8 DEF ForeignMessage, Send
  <2>2. \A p \in Photos : Places(p)' = Places(p)
    BY <2>1, SendPlaces
  <2>3. UNCHANGED <<acked, marked, publishStatus, batch, outbox>> /\ faults' = faults + 1
    BY <1>8 DEF ForeignMessage, Suffer, rowVars, outboxVars
  <2> QED
    BY <1>2, <1>4, <1>5, <1>6, <2>2, <2>3
<1>9. CASE WorkerNext /\ UNCHANGED outboxVars
  <2>1. /\ UNCHANGED <<topic, acked, marked, publishStatus, batch, outbox>>
        /\ faults' = faults \/ faults' = faults + 1
    BY <1>9, WorkerKeepsOutbox, WorkerKeepsLog DEF outboxVars
  <2> QED
    BY <1>2, <1>3, <1>4, <1>5, <1>6, <2>1
<1>10. CASE Poll
  <2>1. /\ UNCHANGED <<topic, acked, marked, publishStatus, faults>>
        /\ outbox' = "batch" /\ acked = {} /\ marked = {}
    BY <1>6, <1>10 DEF Poll, rowVars, topicVars
  <2>2. \A p \in batch' : publishStatus[p] = "not_sent"
    BY <1>10 DEF Poll, FetchUnpublished, Unpublished
  <2>3. \A p \in Photos : p \in batch' => ~Settled(p)'
    BY <2>1, <2>2 DEF Settled
  <2> QED
    BY <1>2, <1>3, <1>4, <2>1, <2>3
<1>11. ASSUME NEW p \in Photos, Publish(p) \/ PublishFails(p)
       PROVE  CopiesInv'
  <2>1. p \in batch /\ ~Settled(p) /\ acked = {} /\ outbox = "batch" /\ outbox' = "batch"
        /\ batch' = batch \ {p} /\ acked' \subseteq {p} /\ UNCHANGED <<marked, publishStatus>>
    BY <1>5, <1>11 DEF Publish, PublishFails, Oldest, rowVars
  <2>2. /\ \A q \in Photos \ {p} : Places(q)' = Places(q) /\ (Settled(q)' <=> Settled(q))
        /\ \/ Places(p)' = Places(p)
           \/ Cardinality(Places(p)') = Cardinality(Places(p)) + 1
    <3>1. p \in Messages
      BY OutboxAssumption
    <3>2. topic' = Append(topic, p) \/ UNCHANGED topic
      BY <1>11 DEF Publish, PublishFails, Send, topicVars
    <3> QED
      BY <1>3, <2>1, <3>1, <3>2, SendPlaces DEF Settled
  <2>3. \/ Settled(p)' /\ faults' = faults
        \/ ~Settled(p)' /\ faults' = faults + 1
    BY <1>11, <2>1 DEF Publish, PublishFails, Suffer, Settled
  <2>4. ASSUME NEW q \in Photos
        PROVE  /\ Settled(q)' => Cardinality(Places(q)') <= 1 + faults'
               /\ ~Settled(q)' => Cardinality(Places(q)') <= faults'
               /\ q \in batch' => ~Settled(q)'
    <3>1. /\ Cardinality(Places(q)) \in Nat
          /\ Settled(q) => Cardinality(Places(q)) <= 1 + faults
          /\ ~Settled(q) => Cardinality(Places(q)) <= faults
      BY <1>1 DEF CopiesInv
    <3> HIDE DEF Places, Settled
    <3>2. CASE q = p
      <4>1. Cardinality(Places(p)') <= faults + 1
        BY <1>1, <2>1, <2>2, <3>1, <3>2
      <4> QED
        BY <1>1, <2>1, <2>3, <3>2, <4>1
    <3>3. CASE q # p
      BY <1>1, <1>5, <2>1, <2>2, <2>3, <3>1, <3>3
    <3> QED
      BY <3>2, <3>3
  <2> QED
    BY <2>1, <2>4 DEF CopiesInv
<1>12. ASSUME NEW p \in Photos, MarkPublished(p)
       PROVE  CopiesInv'
  <2>1. outbox = "batch" /\ UNCHANGED <<topic, batch, outbox, publishStatus, faults>>
        /\ acked = {p} /\ marked' = marked \cup {p} /\ acked' = {}
    BY <1>5, <1>6, <1>12 DEF MarkPublished, rowVars, topicVars
  <2>2. \A q \in Photos : Settled(q)' <=> Settled(q)
    BY <2>1 DEF Settled
  <2> QED
    BY <1>2, <1>3, <1>5, <2>1, <2>2
<1>13. CASE CommitBatch
  <2>1. batch = {} /\ acked = {} /\ UNCHANGED <<topic, batch, acked, faults>> /\ marked' = {}
        /\ publishStatus' = [p \in Photos |-> IF p \in marked THEN "sent" ELSE publishStatus[p]]
    BY <1>13 DEF CommitBatch, CommitPublished, topicVars
  <2>2. \A q \in Photos : Settled(q)' <=> Settled(q)
    BY <2>1 DEF Settled
  <2> QED
    BY <1>2, <1>3, <2>1, <2>2
<1>14. CASE IterationFails \/ StopApi
  <2>1. /\ batch' = {} /\ acked' = {} /\ marked' = {}
        /\ UNCHANGED <<topic, publishStatus>> /\ faults' = faults + 1
    BY <1>14 DEF IterationFails, StopApi, Abandon, Suffer, rowVars, topicVars
  <2>2. \A q \in Photos : Settled(q)' => Settled(q)
    BY <2>1 DEF Settled
  <2> QED
    BY <1>2, <1>3, <2>1, <2>2
<1>15. CASE StartApi
  <2>1. outbox # "batch" /\ UNCHANGED <<topic, batch, acked, marked, publishStatus, faults>>
    BY <1>15 DEF StartApi, rowVars, topicVars
  <2> QED
    BY <1>2, <1>3, <1>4, <1>5, <1>6, <2>1
<1> QED
  BY <1>7, <1>8, <1>9, <1>10, <1>11, <1>12, <1>13, <1>14, <1>15
  DEF Next, OutboxNext, OutboxStep

(* Of each photo the log holds one message, and one more for each fault at *)
(* most: a batch that is committed is never published again, and a batch   *)
(* that is lost, or a send that fails, costs a fault.                      *)
THEOREM OncePerFault == Spec => []DuplicatesNeedFaults
<1>1. Init => CopiesInv
  <2> SUFFICES ASSUME Init
               PROVE  CopiesInv
    OBVIOUS
  <2>1. \A p \in Photos : Places(p) = {} /\ ~Settled(p)
    BY DEF Init, TopicInit, OutboxInit, RowsInit, Places, Settled
  <2>2. faults = 0 /\ acked = {} /\ marked = {} /\ batch = {}
    BY DEF Init, FaultsInit, OutboxInit
  <2> QED
    BY <2>1, <2>2, FS_EmptySet DEF CopiesInv
<1>2. TypeOK /\ CopiesInv => DuplicatesNeedFaults
  <2> SUFFICES ASSUME TypeOK, CopiesInv, NEW p \in Photos
               PROVE  Cardinality(Places(p)) <= 1 + faults
    BY DEF DuplicatesNeedFaults, Places
  <2>1. faults \in Nat /\ Cardinality(Places(p)) \in Nat
    BY PlacesType, FaultsAssumption DEF TypeOK, FaultsType
  <2>2. \/ Cardinality(Places(p)) <= 1 + faults
        \/ Cardinality(Places(p)) <= faults
    BY DEF CopiesInv
  <2> HIDE DEF Places
  <2> QED
    BY <2>1, <2>2
<1>3. TypeOK /\ CopiesInv /\ [Next]_vars => CopiesInv'
  BY CopiesStep
<1> QED
  BY <1>1, <1>2, <1>3, TypeCorrect, PTL DEF Spec
=============================================================================
