--------------------------- MODULE BatchContract ---------------------------
(***************************************************************************)
(* What the service promises about a batch, to a client that polls it: on  *)
(* top of what PhotoLifecycle promises of each photo, the batch is decided *)
(* once, in one atomic step, at a moment when all its photos are; and its  *)
(* best photo is the best of those that are done at that moment.  That no  *)
(* transaction spans the decision - one handler reads photos and analyses  *)
(* one after the other, others do the same and write too - is the business *)
(* of BatchReads, which implements this specification.                     *)
(***************************************************************************)
EXTENDS PhotoLifecycle

CONSTANTS
    Batch,          \* the photos of the batch; the others are single
    NoPhoto,        \* there is no best photo
    Best(_)         \* the best photo of a set, NoPhoto if it is empty

VARIABLES
    batchStatus,    \* "absent", "processing" or "completed"
    bestPhoto

batchVars == <<vars, batchStatus, bestPhoto>>

BatchInit ==
    /\ Init
    /\ batchStatus = "absent"
    /\ bestPhoto = NoPhoto

AcceptBatch ==
    /\ Accept(Batch)
    /\ batchStatus' = "processing"
    /\ UNCHANGED bestPhoto

PhotoStep ==
    /\ \E p \in Photos : \/ p \notin Batch /\ Accept({p})
                         \/ Start(p) \/ Complete(p) \/ GiveUp(p)
    /\ UNCHANGED <<batchStatus, bestPhoto>>

Decide ==
    /\ batchStatus = "processing"
    /\ \A p \in Batch : status[p] \in Terminal
    /\ batchStatus' = "completed"
    /\ bestPhoto' = Best({p \in Batch : status[p] = Done})
    /\ UNCHANGED vars

BatchNext == AcceptBatch \/ PhotoStep \/ Decide

BatchSpec == BatchInit /\ [][BatchNext]_batchVars
=============================================================================
