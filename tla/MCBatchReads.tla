---------------------------- MODULE MCBatchReads ----------------------------
(***************************************************************************)
(* Instances of BatchReads for TLC.                                        *)
(***************************************************************************)
EXTENDS BatchReads, TLC

CONSTANTS p1, p2, p3, r1, r2

ThreePhotos == {p1, p2, p3}
TwoReaders == {r1, r2}

(* The photos of a batch: a tie in everything but their ids.               *)
Ties == [p \in ThreePhotos |-> [is_blurred |-> 0, blur_score |-> 3, faces_count |-> 1]]
SameTime == [p \in ThreePhotos |-> 1]
Ranks == (p1 :> 2) @@ (p2 :> 1) @@ (p3 :> 3)

(* A batch of two, and a single photo.                                     *)
TwoOfThree == {p1, p2}
=============================================================================
