------------------------------- MODULE Outbox -------------------------------
(***************************************************************************)
(* run_outbox_publisher, the task of the API process that moves committed  *)
(* photos to Kafka: poll the rows that are not_sent, publish each, mark it *)
(* in one long session, commit once at the end of the batch.               *)
(*                                                                         *)
(* The worker runs between any two of these steps.  A mark is not visible  *)
(* before the commit, but holds the row lock from the moment it is made.   *)
(***************************************************************************)
EXTENDS PhotoRows, Topic, Faults

CONSTANT OutboxBatchSize        \* Settings.OUTBOX_BATCH_SIZE

ASSUME OutboxAssumption ==
    /\ OutboxBatchSize \in Nat \ {0}
    /\ Photos \subseteq Messages

(* The faults that strike here.                                            *)
PublishError  == "publish_error"    \* KafkaError or TimeoutError from a send
OutboxDbError == "outbox_db_error"  \* any other exception in an iteration
ApiStops      == "api_stops"        \* the API process is killed or shut down

VARIABLES
    outbox,     \* "down", "idle" between two polls, or inside a "batch"
    batch,      \* rows fetched and not yet published
    acked       \* the row whose send returned and that is not yet marked

outboxVars == <<outbox, batch, acked, marked>>

OutboxInit ==
    /\ outbox = "idle"
    /\ batch = {}
    /\ acked = {}
    /\ marked = {}

OutboxType ==
    /\ outbox \in {"down", "idle", "batch"}
    /\ batch \subseteq Photos
    /\ acked \subseteq Photos

(* The session ends without a commit: the marks and the locks are gone.    *)
Abandon(state) ==
    /\ outbox' = state
    /\ batch' = {}
    /\ acked' = {}
    /\ marked' = {}
    /\ UNCHANGED <<rowVars, topicVars>>

-----------------------------------------------------------------------------
(* A poll that finds nothing commits an empty transaction: a stutter, as   *)
(* is an iteration in which ensure_started() raises.                       *)
Poll ==
    /\ outbox = "idle"
    /\ \E R \in FetchUnpublished(OutboxBatchSize) :
         /\ R # {}
         /\ batch' = R
    /\ outbox' = "batch"
    /\ UNCHANGED <<acked, marked, rowVars, topicVars, faults>>

Publish(p) ==
    /\ outbox = "batch"
    /\ acked = {}
    /\ p \in Oldest(batch)
    /\ Send(p)
    /\ batch' = batch \ {p}
    /\ acked' = {p}
    /\ UNCHANGED <<outbox, marked, rowVars, faults>>

(* Mutant: the row is marked although the send raised.                     *)
PublishFailsMarked(p) ==
    /\ outbox = "batch"
    /\ acked = {}
    /\ p \in Oldest(batch)
    /\ Suffer(PublishError)
    /\ Send(p) \/ UNCHANGED topicVars
    /\ batch' = batch \ {p}
    /\ acked' = {p}
    /\ UNCHANGED <<outbox, marked, rowVars>>

(* The send raises: the row stays not_sent and the loop goes on with the   *)
(* next one.  The broker may have appended the message nevertheless.       *)
PublishFails(p) ==
    /\ outbox = "batch"
    /\ acked = {}
    /\ p \in Oldest(batch)
    /\ Suffer(PublishError)
    /\ Send(p) \/ UNCHANGED topicVars
    /\ batch' = batch \ {p}
    /\ UNCHANGED <<outbox, acked, marked, rowVars>>

MarkPublished(p) ==
    /\ p \in acked
    /\ marked' = marked \cup {p}
    /\ acked' = {}
    /\ UNCHANGED <<outbox, batch, rowVars, topicVars, faults>>

CommitBatch ==
    /\ outbox = "batch"
    /\ batch = {}
    /\ acked = {}
    /\ CommitPublished
    /\ marked' = {}
    /\ outbox' = "idle"
    /\ UNCHANGED <<batch, acked, topicVars, faults>>

(* Any other exception leaves the session unclosed by a commit; it is      *)
(* logged and the loop polls again.                                        *)
IterationFails ==
    /\ outbox = "batch"
    /\ Suffer(OutboxDbError)
    /\ Abandon("idle")

(* The API process dies, or its lifespan ends: the task leaves its loop    *)
(* between two batches or is cancelled inside one.                         *)
StopApi ==
    /\ outbox # "down"
    /\ Suffer(ApiStops)
    /\ Abandon("down")

StartApi ==
    /\ outbox = "down"
    /\ outbox' = "idle"
    /\ UNCHANGED <<batch, acked, marked, rowVars, topicVars, faults>>

OutboxStep ==
    \/ Poll
    \/ \E p \in Photos : Publish(p) \/ MarkPublished(p)
    \/ CommitBatch

OutboxNext ==
    \/ OutboxStep
    \/ \E p \in Photos : PublishFails(p)
    \/ IterationFails
    \/ StopApi
    \/ StartApi
=============================================================================
