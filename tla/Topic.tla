------------------------------- MODULE Topic --------------------------------
(***************************************************************************)
(* Kafka as the services use it: the one-partition topic                   *)
(* photo.analysis.requested as an immutable log, and the consumer group of *)
(* the workers - which worker has the partition, where it reads next, and  *)
(* the offset the group has committed.  None of this is code of the        *)
(* repository; it is modelled from the calls the repository makes.         *)
(***************************************************************************)
EXTENDS Naturals, Sequences

CONSTANTS
    Messages,       \* what may be in the log
    Workers,        \* processes that may join the consumer group
    Nobody          \* the owner of an unassigned partition

ASSUME TopicAssumption == Nobody \notin Workers

VARIABLES
    topic,          \* the log
    committed,      \* messages the group has committed
    owner,          \* the worker that has the partition
    position        \* position[w]: messages w has taken, while it owns

topicVars == <<topic, committed, owner, position>>

TopicInit ==
    /\ topic = <<>>
    /\ committed = 0
    /\ owner = Nobody
    /\ position = [w \in Workers |-> 0]

TopicType ==
    /\ topic \in Seq(Messages)
    /\ committed \in Nat
    /\ owner \in Workers \cup {Nobody}
    /\ position \in [Workers -> Nat]

InTopic(m) == \E i \in 1..Len(topic) : topic[i] = m

(* m is in the part of the log the group still has to read.                *)
Uncommitted(m) == \E i \in (committed + 1)..Len(topic) : topic[i] = m

Send(m) ==
    /\ topic' = Append(topic, m)
    /\ UNCHANGED <<committed, owner, position>>

(* A member that gets the partition resumes at the committed offset (at    *)
(* the start when there is none: auto_offset_reset="earliest").            *)
Assign(w) ==
    /\ owner' = w
    /\ position' = [position EXCEPT ![w] = committed]
    /\ UNCHANGED <<topic, committed>>

(* A member that is gone gives its partition back.                         *)
Leave(w) ==
    /\ owner' = IF owner = w THEN Nobody ELSE owner
    /\ UNCHANGED <<topic, committed, position>>

HasNext(w) == owner = w /\ position[w] < Len(topic)

NextMessage(w) == topic[position[w] + 1]

Take(w) ==
    /\ HasNext(w)
    /\ position' = [position EXCEPT ![w] = @ + 1]
    /\ UNCHANGED <<topic, committed, owner>>

(* consumer.commit() commits the position of the partitions still assigned *)
(* to the caller, and nothing for a member that has lost them.             *)
CommitPosition(w) ==
    /\ committed' = IF owner = w THEN position[w] ELSE committed
    /\ UNCHANGED <<topic, owner, position>>
=============================================================================
