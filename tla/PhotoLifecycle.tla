--------------------------- MODULE PhotoLifecycle ---------------------------
(***************************************************************************)
(* What the service promises about one photo, to a client that polls it:   *)
(* an accepted photo is pending until one analysis of it is started, that  *)
(* analysis ends once, in a result or in a failure, and neither is ever    *)
(* revised.  How the promise is kept - outbox, Kafka, claim, retries - is  *)
(* the business of AnalysisPipeline, which implements this specification.  *)
(***************************************************************************)

CONSTANT Photos

VARIABLES
    status,     \* the lifecycle state of each photo (PhotoStatus)
    analysis    \* the photos that have an analysis result

vars == <<status, analysis>>

Absent     == "absent"          \* not uploaded, or the upload is uncommitted
Pending    == "pending"
Processing == "processing"
Done       == "done"
Failed     == "failed"

Terminal == {Done, Failed}

Init ==
    /\ status = [p \in Photos |-> Absent]
    /\ analysis = {}

(* An upload commits one photo, or all the photos of a batch at once.      *)
Accept(P) ==
    /\ \A p \in P : status[p] = Absent
    /\ status' = [p \in Photos |-> IF p \in P THEN Pending ELSE status[p]]
    /\ UNCHANGED analysis

Start(p) ==
    /\ status[p] = Pending
    /\ status' = [status EXCEPT ![p] = Processing]
    /\ UNCHANGED analysis

Complete(p) ==
    /\ status[p] = Processing
    /\ status' = [status EXCEPT ![p] = Done]
    /\ analysis' = analysis \cup {p}

GiveUp(p) ==
    /\ status[p] = Processing
    /\ status' = [status EXCEPT ![p] = Failed]
    /\ UNCHANGED analysis

Next ==
    \/ \E P \in SUBSET Photos : P # {} /\ Accept(P)
    \/ \E p \in Photos : Start(p) \/ Complete(p) \/ GiveUp(p)

Spec == Init /\ [][Next]_vars
=============================================================================
