------------------------------ MODULE MCUpload ------------------------------
(***************************************************************************)
(* Instances of Upload for TLC.  Sizes are counted in units of 25 MB, so   *)
(* the limits keep their proportions: a file of 2 units is the largest     *)
(* that is accepted.                                                       *)
(***************************************************************************)
EXTENDS Upload, TLC

CONSTANTS single, triple, lone, reader, a, b, c, d, e

(* A single upload, a batch of three files, where 3 is the most a batch    *)
(* may hold, and a batch of one, which is too small.                       *)
ThreeRequests == {single, triple, lone}
ThreeEndpoints == (single :> "photo") @@ (triple :> "batch") @@ (lone :> "batch")
ThreeFiles == (single :> <<a>>) @@ (triple :> <<b, c, d>>) @@ (lone :> <<e>>)

(* The same, and a download of the first photo of the batch.               *)
FourRequests == ThreeRequests \cup {reader}
FourEndpoints == ThreeEndpoints @@ (reader :> "content")
FourFiles == ThreeFiles @@ (reader :> <<b>>)
FivePhotos == {a, b, c, d, e}

(* The largest valid file, and one for each answer of _validate.           *)
FourBodies == {[size |-> 2, magic |-> "jpeg"], [size |-> 3, magic |-> "png"],
               [size |-> 0, magic |-> "other"], [size |-> 1, magic |-> "other"]}

(* Valid files only, for the runs in which one dependency fails.           *)
ValidBodies == {[size |-> 2, magic |-> "jpeg"], [size |-> 1, magic |-> "png"]}

EveryFault == {StorageError, TransportError, StorageSlow, FlushError, CommitFailure,
               ApiCrash}
OnlyTransport == {TransportError}
OnlyCommit == {CommitFailure}
=============================================================================
