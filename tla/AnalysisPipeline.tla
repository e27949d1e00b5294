-------------------------- MODULE AnalysisPipeline --------------------------
(***************************************************************************)
(* The service from the commit of an upload to the terminal status of its  *)
(* photos: uploads, the outbox publisher, Kafka and the workers, composed. *)
(* They share the committed rows, the log and the row locks, and nothing   *)
(* else.                                                                   *)
(***************************************************************************)
EXTENDS Outbox, Worker

PoisonMessage == "poison_message"   \* a message no upload produced

vars == <<rowVars, topicVars, outboxVars, workerVars, faults>>

Init ==
    /\ RowsInit
    /\ TopicInit
    /\ OutboxInit
    /\ WorkerInit
    /\ FaultsInit

(* create_photo and create_batch, as the rest of the service sees them: a  *)
(* commit.  Every message on the upload path before it is private.         *)
Upload(P) ==
    /\ P # {}
    /\ CreateRows(P)
    /\ UNCHANGED <<topicVars, outboxVars, workerVars, faults>>

(* A message of some other producer, or a damaged one.                     *)
ForeignMessage ==
    /\ Suffer(PoisonMessage)
    /\ \E m \in Messages \ Photos : Send(m)
    /\ UNCHANGED <<rowVars, outboxVars, workerVars>>

Next ==
    \/ \E P \in Uploads : Upload(P)
    \/ ForeignMessage
    \/ OutboxNext /\ UNCHANGED workerVars
    \/ WorkerNext /\ UNCHANGED outboxVars

Spec == Init /\ [][Next]_vars

(* The publisher task and every running worker keep taking their steps.    *)
(* Nothing restarts a stopped process (docker-compose.yml has no restart   *)
(* policy), so StartApi and StartWorker are left out.                      *)
Fairness ==
    /\ WF_vars(OutboxStep /\ UNCHANGED workerVars)
    /\ \A w \in Workers : WF_vars(WorkerStep(w) /\ UNCHANGED outboxVars)

FairSpec == Spec /\ Fairness

-----------------------------------------------------------------------------
(* Types of all the state: the columns, the log, the publisher and the     *)
(* workers.                                                                *)
TypeOK ==
    /\ RowsType
    /\ TopicType
    /\ OutboxType
    /\ WorkerType
    /\ FaultsType

-----------------------------------------------------------------------------
(* Safety under every fault.                                               *)

(* AnalysisProcessor.process: between its claim and its terminal write a   *)
(* worker has the photo to itself, and the row says so, whatever was       *)
(* redelivered, rebalanced or republished meanwhile.                       *)
ClaimIsExclusive ==
    \A w \in Workers : pc[w] \in InProcess =>
        /\ message[w] \in Photos
        /\ status[message[w]] = Processing
        /\ \A v \in Workers \ {w} :
             pc[v] \in InProcess => message[v] # message[w]

(* run_outbox_publisher: a row says "sent" only if its message is in the   *)
(* log; a mark never outlives or outruns the send it stands for.           *)
SentIsInTopic ==
    \A p \in Photos : publishStatus[p] = "sent" => InTopic(p)

(* run_outbox_publisher: a photo is published once, and once more for each *)
(* fault at most: the mark of a batch without faults is never missed.      *)
DuplicatesNeedFaults ==
    \A p \in Photos :
        Cardinality({i \in 1..Len(topic) : topic[i] = p}) <= 1 + faults

(* record_attempt, mark_done and mark_failed leave in the row what really  *)
(* happened: nothing before the first answer, the attempts and the last    *)
(* error of a running or interrupted retry loop, no error once done; and a *)
(* photo that failed with the code of a transient error has had all its    *)
(* attempts, and one that is tried again has failed with such a code.      *)
RecordedAttempts ==
    /\ \A p \in Photos :
         /\ status[p] \in {Absent, Pending} => attempts[p] = 0
         /\ attempts[p] = 0 => lastError[p] = NoError
         /\ status[p] = Done => attempts[p] > 0 /\ lastError[p] = NoError
         /\ status[p] = Failed =>
              /\ lastError[p] \in ErrorCodes /\ attempts[p] > 0
              /\ lastError[p] \in TransientCodes => attempts[p] = MaxAttempts
    /\ \A w \in Workers :
         /\ pc[w] \in {"analyzing", "completing"} =>
              /\ attempts[message[w]] = attempt[w] - 1
              /\ attempt[w] > 1 => lastError[message[w]] \in TransientCodes
         /\ pc[w] = "failing" =>
              /\ attempts[message[w]] = attempt[w]
              /\ lastError[message[w]] = lastCode[w]

(* The photos the service has given up without a word: no worker is at     *)
(* work on the claim, and no message is left for the group to read.        *)
Abandoned ==
    {p \in Photos : /\ status[p] = Processing
                    /\ \A w \in Workers : pc[w] \in InProcess => message[w] # p}

Skipped ==
    {p \in Photos : status[p] = Pending /\ publishStatus[p] = "sent" /\ ~Uncommitted(p)}

(* _handle_message and process(): a crash between the claim and the        *)
(* terminal write, or a database error whose offset is committed all the   *)
(* same, leaves a photo behind for ever; but each costs one photo at most, *)
(* however the faults, the retries, the redeliveries and the commits of    *)
(* several workers combine, and nothing else ever does.                    *)
StuckPhotosNeedFaults == Cardinality(Abandoned \cup Skipped) <= faults

(* A terminal row is never written again: a duplicate of its message finds *)
(* nothing to claim, and no late writer is left.                           *)
TerminalIsFinal ==
    [][\A p \in Photos : status[p] \in Terminal =>
         /\ status'[p] = status[p]
         /\ attempts'[p] = attempts[p]
         /\ lastError'[p] = lastError[p]
         /\ (p \in analysis') = (p \in analysis)]_vars

(* The pipeline keeps the promise made to the client.                      *)
Lifecycle == INSTANCE PhotoLifecycle

ImplementsLifecycle == Lifecycle!Spec

-----------------------------------------------------------------------------
(* Safety under some faults.                                               *)

(* At-least-once delivery, from the insert to the claim: a photo that is   *)
(* still pending and no longer in the outbox has a message the consumer    *)
(* group has yet to commit.  For every fault but an error inside process() *)
(* (WorkerDbError), whose offset is committed all the same.                *)
NothingLost ==
    \A p \in Photos :
        status[p] = Pending /\ publishStatus[p] = "sent" => Uncommitted(p)

(* The inductive form of NothingLost, part by part.  A row the publisher   *)
(* knows, or whose message is in the log, is committed; and a row that is  *)
(* acked, marked or sent has its message in the log.                       *)
OutboxInv ==
    /\ \A p \in Photos :
         p \in batch \cup acked \cup marked \/ InTopic(p) => status[p] # Absent
    /\ \A p \in Photos :
         p \in acked \cup marked \/ publishStatus[p] = "sent" => InTopic(p)

(* The owner of the partition reads one message at a time: its position is *)
(* the committed offset, or one more while it holds the message between.   *)
ReaderInv ==
    /\ committed <= Len(topic)
    /\ \A w \in Workers : pc[w] \in InFlight => InTopic(message[w])
    /\ owner \in Workers =>
         \/ position[owner] = committed
         \/ /\ position[owner] = committed + 1
            /\ position[owner] <= Len(topic)
            /\ pc[owner] \in InFlight
            /\ message[owner] = topic[position[owner]]

(* Whatever is answered - a message whose offset is due or committed - has *)
(* led to a claim of its photo, by this delivery or by an earlier one.     *)
Claimed(m) == m \in Photos => status[m] \in {Processing, Done, Failed}

AnsweredInv ==
    /\ \A w \in Workers : pc[w] = "committing" => Claimed(message[w])
    /\ \A i \in 1..committed : Claimed(topic[i])

DeliveryInv == OutboxInv /\ ReaderInv /\ AnsweredInv

(* process() always reaches a terminal write: a photo in `processing` is   *)
(* in the hands of a live worker.  For every fault but WorkerDbError and   *)
(* WorkerCrash, the ones that leave the loop between claim and write.      *)
NoAbandonedClaim ==
    \A p \in Photos : status[p] = Processing =>
        \E w \in Workers : pc[w] \in InProcess /\ message[w] = p

(* What specs/feature-upload/tasks.md:102 asks of the consumer: an offset  *)
(* is committed only once its message has been processed, that is, has led *)
(* to done or failed (or is a duplicate of one in process).  It holds for  *)
(* every fault but WorkerDbError and WorkerCrash.                          *)
OffsetFollowsOutcome ==
    \A i \in 1..committed : topic[i] \in Photos =>
        \/ status[topic[i]] \in Terminal
        \/ \E w \in Workers : pc[w] \in InProcess /\ message[w] = topic[i]

-----------------------------------------------------------------------------
(* Liveness.                                                               *)

(* The API is up, and a worker is.                                         *)
Up == outbox # "down" /\ \E w \in Workers : pc[w] # "stopped"

(* Every uploaded photo is claimed in the end while the service is up:     *)
(* publish errors, rolled back batches, poison messages, rebalances and    *)
(* the crash of the worker that held its message only delay the claim.     *)
EveryPhotoIsClaimed ==
    \A p \in Photos : status[p] = Pending ~> status[p] # Pending \/ ~Up

(* Every uploaded photo is done or failed in the end while the service is  *)
(* up, as long as no worker crashes, and none fails to write.              *)
EveryPhotoIsDecided ==
    \A p \in Photos : status[p] = Pending ~> status[p] \in Terminal \/ ~Up
=============================================================================
