---------------------------- MODULE UploadProofs ----------------------------
(***************************************************************************)
(* Theorems about Upload, for every set of requests, files and bodies, all *)
(* limits, every size of the pool and every number of faults of any kind.  *)
(***************************************************************************)
EXTENDS Upload, SumLemmas

-----------------------------------------------------------------------------
(* Lemmas about validation.                                                *)

(* _validate has no answers but these.                                     *)
LEMMA ValidateType ==
    ASSUME NEW b \in Bodies
    PROVE  Validate(b) \in {0, 400, 413, 415}
  BY UploadAssumption DEF Validate

(* FirstRefusal is 0 exactly if every file is valid.                       *)
LEMMA FirstRefusalIsFirst ==
    ASSUME NEW n \in Nat, NEW bs \in [1..n -> Bodies]
    PROVE  /\ FirstRefusal(bs) \in {0, 400, 413, 415}
           /\ FirstRefusal(bs) = 0 => \A i \in 1..n : Validate(bs[i]) = 0
           /\ FirstRefusal(bs) # 0 => \E i \in 1..n : FirstRefusal(bs) = Validate(bs[i])
<1> DEFINE refused == {i \in DOMAIN bs : Validate(bs[i]) # 0}
           first == CHOOSE i \in refused : \A j \in refused : i <= j
<1>1. CASE refused = {}
  BY <1>1 DEF FirstRefusal
<1>2. CASE refused # {}
  <2>1. refused \in SUBSET Nat
    OBVIOUS
  <2>2. first \in refused
    BY <1>2, <2>1, LeastNatural
  <2>3. FirstRefusal(bs) = Validate(bs[first])
    BY <1>2 DEF FirstRefusal
  <2>4. first \in 1..n /\ Validate(bs[first]) # 0
    BY <2>2
  <2> HIDE DEF refused, first
  <2>5. bs[first] \in Bodies
    BY <2>4
  <2>6. FirstRefusal(bs) \in {0, 400, 413, 415} /\ FirstRefusal(bs) # 0
    BY <2>3, <2>4, <2>5, ValidateType
  <2> QED
    BY <2>3, <2>4, <2>6
<1> QED
  BY <1>1, <1>2

(* An upload that is not refused is valid, and a refusal is a 4xx.         *)
LEMMA RefusalIsRight ==
    ASSUME NEW r \in Requests, NEW bs \in [1..Len(Files[r]) -> Bodies]
    PROVE  /\ Refusal(r, bs) \in {0, 400, 413, 415}
           /\ Refusal(r, bs) = 0 =>
                /\ \A i \in 1..Len(Files[r]) : Validate(bs[i]) = 0
                /\ Endpoint[r] = "batch" => Len(Files[r]) \in MinBatchSize..MaxBatchSize
<1>1. Len(Files[r]) \in Nat
  BY UploadAssumption
<1>2. Len(bs) = Len(Files[r])
  BY <1>1
<1>3. /\ FirstRefusal(bs) \in {0, 400, 413, 415}
      /\ FirstRefusal(bs) = 0 => \A i \in 1..Len(Files[r]) : Validate(bs[i]) = 0
  BY <1>1, FirstRefusalIsFirst
<1>4. CASE Endpoint[r] = "photo"
  BY <1>3, <1>4 DEF Refusal
<1>5. CASE Endpoint[r] # "photo"
  BY <1>2, <1>3, <1>5 DEF Refusal
<1> QED
  BY <1>4, <1>5

(* What _validate answers tells what is wrong with the file.               *)
LEMMA ValidateIsRight ==
    ASSUME NEW b \in Bodies
    PROVE  /\ Validate(b) = 0 => b.size \in 0..MaxFileSize
           /\ Validate(b) = 400 => b.size = 0
           /\ Validate(b) = 413 => b.size > MaxFileSize
           /\ Validate(b) = 415 => b.magic = "other"
  BY UploadAssumption DEF Validate

(* Files that are valid one by one are never too large together, however   *)
(* many of them a batch may have.                                          *)
LEMMA TotalIsWithinLimit ==
    ASSUME NEW n \in Nat, n <= MaxBatchSize, NEW bs \in [1..n -> Bodies],
           \A i \in 1..n : Validate(bs[i]) = 0
    PROVE  ~TooLarge(bs)
<1> DEFINE sizes == [i \in 1..n |-> bs[i].size]
<1>1. MaxFileSize \in Nat /\ MaxBatchSize \in Nat /\ BatchMaxTotal \in Nat
      /\ BatchMaxTotal >= MaxBatchSize * MaxFileSize
  BY UploadAssumption
<1>2. IsFiniteSet(1..n) /\ Cardinality(1..n) = n
  BY FS_Interval
<1>3. DOMAIN sizes = 1..n /\ \A i \in DOMAIN sizes : sizes[i] \in 0..MaxFileSize
  BY ValidateIsRight
<1>4. TotalSize(bs) = SumFunction(sizes)
  BY DEF TotalSize
<1> HIDE DEF sizes
<1>5. TotalSize(bs) \in 0..(n * MaxFileSize)
  BY <1>1, <1>2, <1>3, <1>4, SumIsBounded
<1>6. n * MaxFileSize <= MaxBatchSize * MaxFileSize
  BY <1>1
<1>7. n * MaxFileSize \in Nat /\ MaxBatchSize * MaxFileSize \in Nat
  BY <1>1
<1> QED
  BY <1>1, <1>5, <1>6, <1>7 DEF TooLarge

(* So a refusal is about the number of the files or about one of them.     *)
LEMMA RefusalIsAboutAFile ==
    ASSUME NEW r \in Uploaders, NEW bs \in [1..Len(Files[r]) -> Bodies],
           Refusal(r, bs) # 0
    PROVE  \/ /\ Endpoint[r] = "batch" /\ Refusal(r, bs) = 400
              /\ Len(Files[r]) \notin MinBatchSize..MaxBatchSize
           \/ \E i \in 1..Len(Files[r]) : Refusal(r, bs) = Validate(bs[i])
<1>1. Len(Files[r]) \in Nat /\ Endpoint[r] \in {"photo", "batch"}
  BY UploadAssumption DEF Uploaders, Downloads
<1>2. Len(bs) = Len(Files[r])
  BY <1>1
<1>3. FirstRefusal(bs) # 0 =>
        \E i \in 1..Len(Files[r]) : FirstRefusal(bs) = Validate(bs[i])
  BY <1>1, FirstRefusalIsFirst
<1>4. CASE Endpoint[r] = "photo"
  BY <1>3, <1>4 DEF Refusal
<1>5. CASE Endpoint[r] = "batch" /\ Len(bs) \in MinBatchSize..MaxBatchSize
  <2>1. FirstRefusal(bs) = 0 => ~TooLarge(bs)
    <3>1. Len(Files[r]) <= MaxBatchSize
      BY <1>1, <1>2, <1>5, UploadAssumption
    <3> QED
      BY <1>1, <3>1, FirstRefusalIsFirst, TotalIsWithinLimit
  <2> QED
    BY <1>3, <1>5, <2>1 DEF Refusal
<1>6. CASE Endpoint[r] = "batch" /\ Len(bs) \notin MinBatchSize..MaxBatchSize
  BY <1>2, <1>6 DEF Refusal
<1> QED
  BY <1>1, <1>4, <1>5, <1>6

-----------------------------------------------------------------------------
(* TypeOK, and that the program variables are functions on Requests.       *)
StoreTypes == rows \subseteq Photos /\ objects \subseteq Photos
              /\ running \subseteq Photos /\ logged \subseteq Photos
PcType == pc \in [Requests -> {"received", "connecting", "saving", "compensating",
                               "reading", "answered", "gone"}]
BodyTypes ==
    /\ bodies = [r \in Requests |-> bodies[r]]
    /\ \A r \in Requests : bodies[r] \in {<<>>} \cup [1..Len(Files[r]) -> Bodies]
CountTypes ==
    /\ saved \in [Requests -> Nat]
    /\ deleted \in [Requests -> Nat]
    /\ \A r \in Requests : saved[r] <= Len(Files[r]) /\ deleted[r] <= saved[r]
ResponseType == response \in [Requests -> {0, 200, 202, 400, 404, 413, 415, 500, 503}]

TypeInv == StoreTypes /\ PcType /\ BodyTypes /\ CountTypes /\ ResponseType /\ FaultsType

LEMMA FilesType ==
    ASSUME NEW r \in Requests
    PROVE  FilesOf(r) \subseteq Photos /\ Len(Files[r]) \in Nat
  BY UploadAssumption DEF FilesOf

(* What does not change keeps its type, and so does the budget of faults.  *)
LEMMA TypesKept ==
    ASSUME TypeInv
    PROVE  /\ UNCHANGED storeVars => StoreTypes'
           /\ UNCHANGED pc => PcType'
           /\ UNCHANGED bodies => BodyTypes'
           /\ UNCHANGED <<saved, deleted>> => CountTypes'
           /\ UNCHANGED response => ResponseType'
           /\ UNCHANGED faults => FaultsType'
           /\ \A kind : Suffer(kind) => FaultsType'
<1>1. UNCHANGED faults => FaultsType'
  BY DEF TypeInv, FaultsType
<1>2. ASSUME NEW kind, Suffer(kind)
      PROVE  FaultsType'
  BY <1>2, FaultsAssumption DEF TypeInv, FaultsType, Suffer
<1>3. UNCHANGED bodies => BodyTypes'
  BY DEF TypeInv, BodyTypes
<1>4. UNCHANGED <<saved, deleted>> => CountTypes'
  BY DEF TypeInv, CountTypes
<1> QED
  BY <1>1, <1>2, <1>3, <1>4 DEF TypeInv, StoreTypes, storeVars, PcType, ResponseType

(* An answer has a status code.                                            *)
LEMMA AnswerTypes ==
    ASSUME TypeInv, NEW r \in Requests,
           NEW code \in {200, 202, 400, 404, 413, 415, 500, 503}, Answer(r, code)
    PROVE  PcType' /\ ResponseType'
  BY DEF TypeInv, PcType, ResponseType, Answer

(* A request goes on to another place of the program.                      *)
LEMMA MoveType ==
    ASSUME TypeInv, NEW r \in Requests,
           NEW place \in {"connecting", "saving", "compensating", "reading"},
           pc' = [pc EXCEPT ![r] = place]
    PROVE  PcType'
  BY DEF TypeInv, PcType

LEMMA SavedType ==
    ASSUME TypeInv, NEW r \in Requests, saved[r] < Len(Files[r]),
           saved' = [saved EXCEPT ![r] = @ + 1], UNCHANGED deleted
    PROVE  CountTypes'
  BY FilesType DEF TypeInv, CountTypes

LEMMA DeletedType ==
    ASSUME TypeInv, NEW r \in Requests, deleted[r] < saved[r],
           deleted' = [deleted EXCEPT ![r] = @ + 1], UNCHANGED saved
    PROVE  CountTypes'
  BY FilesType DEF TypeInv, CountTypes

LEMMA TypeInvStep ==
    ASSUME TypeInv, [Next]_vars
    PROVE  TypeInv'
<1>1. ASSUME NEW r \in Requests, Receive(r)
      PROVE  TypeInv'
  <2>1. PICK bs \in [1..Len(Files[r]) -> Bodies] :
          /\ bodies' = [bodies EXCEPT ![r] = bs]
          /\ IF Refusal(r, bs) # 0
               THEN Answer(r, Refusal(r, bs))
               ELSE pc' = [pc EXCEPT ![r] = "connecting"] /\ UNCHANGED response
    BY <1>1 DEF Receive
  <2>2. Refusal(r, bs) \in {0, 400, 413, 415}
    BY RefusalIsRight
  <2>3. PcType' /\ ResponseType'
    BY <2>1, <2>2, AnswerTypes, MoveType, TypesKept
  <2>4. BodyTypes'
    BY <2>1 DEF TypeInv, BodyTypes
  <2> QED
    BY <1>1, <2>3, <2>4, TypesKept DEF Receive, TypeInv
<1>2. ASSUME NEW r \in Requests, Connect(r) \/ Ask(r)
      PROVE  TypeInv'
  BY <1>2, TypesKept, MoveType DEF Connect, Ask, TypeInv
<1>3. ASSUME NEW r \in Requests, PoolTimeout(r) \/ AnswerUnavailable(r) \/ ReadObject(r)
      PROVE  TypeInv'
  BY <1>3, TypesKept, AnswerTypes DEF PoolTimeout, AnswerUnavailable, ReadObject, TypeInv
<1>4. ASSUME NEW r \in Requests, NEW p \in Photos, SaveFile(r, p)
      PROVE  TypeInv'
  <2>1. CountTypes'
    BY <1>4, SavedType DEF SaveFile, Saving
  <2>2. StoreTypes'
    BY <1>4 DEF SaveFile, TypeInv, StoreTypes
  <2> QED
    BY <1>4, <2>1, <2>2, TypesKept DEF SaveFile, TypeInv
<1>5. ASSUME NEW r \in Requests, NEW p \in Photos, DeleteFile(r, p) \/ DeleteSwallowed(r, p)
      PROVE  TypeInv'
  <2>1. CountTypes'
    BY <1>5, DeletedType DEF DeleteFile, DeleteSwallowed, Deleting
  <2>2. StoreTypes'
    BY <1>5 DEF DeleteFile, DeleteSwallowed, TypeInv, StoreTypes
  <2> QED
    BY <1>5, <2>1, <2>2, TypesKept DEF DeleteFile, DeleteSwallowed, TypeInv
<1>6. ASSUME NEW r \in Requests, Commit(r) \/ CommitFails(r)
      PROVE  TypeInv'
  <2>1. StoreTypes'
    BY <1>6, FilesType DEF Commit, CommitFails, TypeInv, StoreTypes
  <2> QED
    BY <1>6, <2>1, TypesKept, AnswerTypes DEF Commit, CommitFails, TypeInv
<1>7. ASSUME NEW r \in Requests, Find(r)
      PROVE  TypeInv'
  BY <1>7, TypesKept, MoveType, AnswerTypes DEF Find, Proceed, TypeInv
<1>8. ASSUME NEW r \in Requests,
             FlushFails(r) \/ FindFails(r) \/ ReadUnavailable(r) \/ ReadRaises(r)
      PROVE  TypeInv'
  BY <1>8, TypesKept, AnswerTypes DEF FlushFails, FindFails, ReadUnavailable, ReadRaises, TypeInv
<1>9. ASSUME NEW r \in Requests, NEW p \in Photos, SaveRaises(r, p) \/ DeleteRaises(r, p)
      PROVE  TypeInv'
  <2>1. StoreTypes'
    BY <1>9 DEF SaveRaises, DeleteRaises, TypeInv, StoreTypes
  <2> QED
    BY <1>9, <2>1, TypesKept, AnswerTypes DEF SaveRaises, DeleteRaises, TypeInv
<1>10. ASSUME NEW r \in Requests, NEW p \in Photos, SaveUnavailable(r, p) \/ SaveTimesOut(r, p)
       PROVE  TypeInv'
  <2>1. StoreTypes'
    BY <1>10 DEF SaveUnavailable, SaveTimesOut, TypeInv, StoreTypes, storeVars
  <2> QED
    BY <1>10, <2>1, TypesKept, MoveType DEF SaveUnavailable, SaveTimesOut, Rollback, TypeInv
<1>11. ASSUME NEW p \in Photos, ThreadEnds(p)
       PROVE  TypeInv'
  <2>1. StoreTypes'
    BY <1>11 DEF ThreadEnds, TypeInv, StoreTypes
  <2> QED
    BY <1>11, <2>1, TypesKept DEF ThreadEnds, requestVars, TypeInv
<1>12. ASSUME Crash
       PROVE  TypeInv'
  <2>1. objects' \subseteq Photos
    BY <1>12 DEF Crash, TypeInv, StoreTypes
  <2>2. rows' \subseteq Photos
    BY <1>12, FilesType DEF Crash, Committing, Uploaders, TypeInv, StoreTypes
  <2>3. StoreTypes'
    BY <1>12, <2>1, <2>2 DEF Crash, TypeInv, StoreTypes
  <2>4. PcType'
    BY <1>12 DEF Crash, TypeInv, PcType
  <2> QED
    BY <1>12, <2>3, <2>4, TypesKept DEF Crash, TypeInv
<1>13. CASE UNCHANGED vars
  BY <1>13, TypesKept DEF vars, storeVars, requestVars, TypeInv
<1> QED
  BY <1>1, <1>2, <1>3, <1>4, <1>5, <1>6, <1>7, <1>8, <1>9, <1>10, <1>11, <1>12, <1>13
     DEF Next, RequestStep, RequestFails

LEMMA TypeInvInit == Init => TypeInv
  BY FaultsAssumption, FilesType
     DEF Init, TypeInv, StoreTypes, PcType, BodyTypes, CountTypes, ResponseType,
         FaultsInit, FaultsType

(* Every variable of the upload and download endpoints keeps its type.     *)
THEOREM UploadTypes == Spec => []TypeOK
<1>1. TypeInv => TypeOK
  BY FilesType
     DEF TypeInv, StoreTypes, PcType, BodyTypes, CountTypes, ResponseType, TypeOK
<1> QED
  BY <1>1, TypeInvInit, TypeInvStep, PTL DEF Spec

-----------------------------------------------------------------------------
(* The inductive invariant: what each upload, at each place of the program *)
(* and after its answer, knows of its own photos in each store.  Requests  *)
(* share no key, so no other request touches them.                         *)
DeletedBy(r) == {Files[r][i] : i \in 1..deleted[r]}
Clean(r) == FilesOf(r) \cap (rows \cup objects \cup running) = {}
ValidUpload(r) ==
    /\ \A i \in 1..Len(Files[r]) : Validate(bodies[r][i]) = 0
    /\ Endpoint[r] = "batch" => Len(Files[r]) \in MinBatchSize..MaxBatchSize

(* All rows of a request or none, none before its commit, and an answer    *)
(* that says which.                                                        *)
RowsPart(r) ==
    /\ FilesOf(r) \subseteq rows \/ FilesOf(r) \cap rows = {}
    /\ pc[r] \notin {"answered", "gone"} => FilesOf(r) \cap rows = {}
    /\ response[r] = 202 => FilesOf(r) \subseteq rows
    /\ response[r] \in {400, 413, 415, 503} => FilesOf(r) \cap rows = {}

(* An object is there from its save to a deletion, which only a            *)
(* compensation does; a thread is left only of a save that timed out, and  *)
(* never of a file that counts as saved, nor of one it never came to.      *)
Untouched(r) == {Files[r][i] : i \in (saved[r] + 2)..Len(Files[r])}

ObjectsPart(r) ==
    /\ pc[r] = "saving" => SavedBy(r) \subseteq objects
    /\ FilesOf(r) \cap rows \subseteq objects
    /\ pc[r] \in {"received", "connecting", "saving"} =>
         FilesOf(r) \cap objects \subseteq SavedBy(r)
    /\ pc[r] = "compensating" \/ response[r] = 503 =>
         Untouched(r) \cap (objects \cup running) = {}
    /\ pc[r] \in {"received", "connecting", "saving"} => FilesOf(r) \cap running = {}
    /\ SavedBy(r) \cap running = {}
    /\ pc[r] = "compensating" => DeletedBy(r) \cap objects \subseteq logged
    /\ response[r] = 503 => SavedBy(r) \cap objects \subseteq logged

(* Nothing is stored before validation, nor without it.                    *)
ValidPart(r) ==
    /\ pc[r] = "received" => Clean(r)
    /\ pc[r] \in {"connecting", "saving", "compensating"} => ValidUpload(r)
    /\ Clean(r) \/ ValidUpload(r)

PlacePart(r) ==
    /\ pc[r] # "answered" => response[r] = 0
    /\ pc[r] # "reading"
    /\ pc[r] \in {"received", "connecting"} => saved[r] = 0
    /\ pc[r] \in {"received", "connecting", "saving"} => deleted[r] = 0

UploadPart(r) == PlacePart(r) /\ RowsPart(r) /\ ObjectsPart(r) /\ ValidPart(r)

(* A download saves nothing, and reads only what has a row.                *)
DownloadPart(r) ==
    /\ pc[r] \notin {"saving", "compensating"}
    /\ pc[r] # "answered" => response[r] = 0
    /\ pc[r] = "reading" => FilesOf(r) \subseteq rows
    /\ saved[r] = 0
    /\ response[r] \in {0, 200, 404, 500, 503}

(* Every row is of a request, so RowHasObject follows from the parts.      *)
UploadInv ==
    /\ TypeInv
    /\ rows \subseteq UNION {FilesOf(r) : r \in Uploaders}
    /\ \A r \in Uploaders : UploadPart(r)
    /\ \A r \in Downloads : DownloadPart(r)

-----------------------------------------------------------------------------
(* Lemmas about the files of requests.                                     *)
LEMMA FilesAreDisjoint ==
    ASSUME NEW r \in Uploaders, NEW s \in Uploaders, r # s
    PROVE  FilesOf(r) \cap FilesOf(s) = {}
  BY UploadAssumption DEF FilesOf

LEMMA SavedAreFiles ==
    ASSUME NEW r \in Requests, TypeInv
    PROVE  /\ DeletedBy(r) \subseteq SavedBy(r) /\ SavedBy(r) \subseteq FilesOf(r)
           /\ Untouched(r) \subseteq FilesOf(r)
<1>1. DeletedBy(r) \subseteq SavedBy(r) /\ SavedBy(r) \subseteq FilesOf(r)
  BY FilesType DEF TypeInv, CountTypes, DeletedBy, SavedBy, FilesOf
<1>2. \A i \in (saved[r] + 2)..Len(Files[r]) : i \in 1..Len(Files[r])
  BY FilesType DEF TypeInv, CountTypes
<1> QED
  BY <1>1, <1>2 DEF Untouched, FilesOf

LEMMA EverySaved ==
    ASSUME NEW r \in Requests, TypeInv
    PROVE  /\ saved[r] = Len(Files[r]) => SavedBy(r) = FilesOf(r)
           /\ deleted[r] = saved[r] => DeletedBy(r) = SavedBy(r)
  BY DEF SavedBy, FilesOf, DeletedBy

LEMMA NextSaved ==
    ASSUME NEW r \in Uploaders, NEW p, TypeInv, Saving(r, p)
    PROVE  /\ p \in FilesOf(r) \ SavedBy(r)
           /\ saved[r] + 1 \in 1..Len(Files[r])
<1>1. saved[r] \in Nat /\ Len(Files[r]) \in Nat /\ saved[r] < Len(Files[r])
  BY FilesType DEF TypeInv, CountTypes, Saving, Uploaders
<1>2. saved[r] + 1 \in 1..Len(Files[r]) /\ p = Files[r][saved[r] + 1]
  BY <1>1 DEF Saving
<1>3. \A i \in 1..saved[r] : i \in 1..Len(Files[r]) /\ i # saved[r] + 1
  BY <1>1
<1>4. \A i \in 1..saved[r] : Files[r][i] # p
  BY <1>2, <1>3, UploadAssumption
<1> QED
  BY <1>2, <1>4 DEF SavedBy, FilesOf

LEMMA NextIsTheLast ==
    ASSUME NEW r \in Uploaders, NEW p, TypeInv, Saving(r, p)
    PROVE  Untouched(r) \cap (SavedBy(r) \cup {p}) = {}
<1>1. saved[r] \in Nat /\ Len(Files[r]) \in Nat /\ saved[r] < Len(Files[r])
  BY FilesType DEF TypeInv, CountTypes, Saving, Uploaders
<1>2. p = Files[r][saved[r] + 1]
  BY DEF Saving
<1>3. \A i \in (saved[r] + 2)..Len(Files[r]), j \in 1..(saved[r] + 1) :
        i \in 1..Len(Files[r]) /\ j \in 1..Len(Files[r]) /\ i # j
  BY <1>1
<1>4. \A i \in (saved[r] + 2)..Len(Files[r]), j \in 1..(saved[r] + 1) :
        Files[r][i] # Files[r][j]
  BY <1>3, UploadAssumption
<1>5. saved[r] + 1 \in 1..(saved[r] + 1) /\ \A j \in 1..saved[r] : j \in 1..(saved[r] + 1)
  BY <1>1
<1> QED
  BY <1>2, <1>4, <1>5 DEF Untouched, SavedBy

LEMMA NextDeleted ==
    ASSUME NEW r \in Uploaders, NEW p, TypeInv, Deleting(r, p)
    PROVE  p \in SavedBy(r)
  BY FilesType DEF TypeInv, CountTypes, Deleting, SavedBy, Uploaders

(* Frame: an upload keeps its part when it does not move and the stores    *)
(* change outside its own files only.                                      *)
LEMMA Frame ==
    ASSUME NEW s \in Uploaders, UploadPart(s), TypeInv,
           NEW X, FilesOf(s) \cap X = {},
           rows' \ X = rows \ X, objects' \ X = objects \ X, running' \ X = running \ X,
           logged \subseteq logged',
           pc'[s] = pc[s], bodies'[s] = bodies[s], saved'[s] = saved[s],
           deleted'[s] = deleted[s], response'[s] = response[s]
    PROVE  UploadPart(s)'
<1>1. PlacePart(s)'
  BY DEF UploadPart, PlacePart
<1>2. /\ FilesOf(s)' = FilesOf(s) /\ SavedBy(s)' = SavedBy(s)
      /\ DeletedBy(s)' = DeletedBy(s) /\ ValidUpload(s)' = ValidUpload(s)
      /\ Untouched(s)' = Untouched(s)
  BY DEF FilesOf, SavedBy, DeletedBy, ValidUpload, Untouched
<1>3. DeletedBy(s) \subseteq FilesOf(s) /\ SavedBy(s) \subseteq FilesOf(s)
      /\ Untouched(s) \subseteq FilesOf(s)
  BY SavedAreFiles DEF Uploaders
<1>4. \A p \in FilesOf(s) : /\ p \in rows' <=> p \in rows
                            /\ p \in objects' <=> p \in objects
                            /\ p \in running' <=> p \in running
  OBVIOUS
<1>5. RowsPart(s)'
  BY <1>2, <1>4 DEF UploadPart, RowsPart
<1>6. ObjectsPart(s)'
  BY <1>2, <1>3, <1>4 DEF UploadPart, ObjectsPart
<1>7. Clean(s)' = Clean(s)
  BY <1>2, <1>4 DEF Clean
<1>8. ValidPart(s)'
  BY <1>2, <1>7 DEF UploadPart, ValidPart
<1> QED
  BY <1>1, <1>5, <1>6, <1>8 DEF UploadPart

(* A step of one request, as the others see it.                            *)
Only(r) ==
    \A s \in Requests \ {r} :
        /\ pc'[s] = pc[s] /\ response'[s] = response[s] /\ bodies'[s] = bodies[s]
        /\ saved'[s] = saved[s] /\ deleted'[s] = deleted[s]

OwnFilesOnly(r) ==
    /\ rows \subseteq rows' /\ rows' \ rows \subseteq FilesOf(r)
    /\ objects' \ FilesOf(r) = objects \ FilesOf(r)
    /\ running' \ FilesOf(r) = running \ FilesOf(r)
    /\ logged \subseteq logged'

LEMMA UploadStep ==
    ASSUME UploadInv, TypeInv', NEW r \in Uploaders, Only(r), OwnFilesOnly(r),
           UploadPart(r)'
    PROVE  UploadInv'
<1>1. ASSUME NEW s \in Uploaders
      PROVE  UploadPart(s)'
  <2>1. CASE s # r
    <3>1. FilesOf(s) \cap FilesOf(r) = {}
      BY <2>1, FilesAreDisjoint
    <3>2. rows' \ FilesOf(r) = rows \ FilesOf(r)
      BY DEF OwnFilesOnly
    <3>3. s \in Requests \ {r} /\ UploadPart(s) /\ TypeInv
      BY <2>1 DEF Uploaders, UploadInv
    <3> HIDE DEF FilesOf
    <3> QED
      BY <3>1, <3>2, <3>3, Frame DEF Only, OwnFilesOnly
  <2> QED
    BY <2>1
<1>2. ASSUME NEW s \in Downloads
      PROVE  DownloadPart(s)'
  <2>1. s \in Requests \ {r}
    BY DEF Downloads, Uploaders
  <2> QED
    BY <2>1 DEF UploadInv, DownloadPart, Only, OwnFilesOnly, FilesOf
<1>3. rows' \subseteq UNION {FilesOf(s) : s \in Uploaders}
  BY DEF UploadInv, OwnFilesOnly
<1> QED
  BY <1>1, <1>2, <1>3 DEF UploadInv, Uploaders, Downloads, FilesOf

LEMMA DownloadStep ==
    ASSUME UploadInv, TypeInv', NEW r \in Downloads, Only(r), UNCHANGED storeVars,
           DownloadPart(r)'
    PROVE  UploadInv'
<1>1. ASSUME NEW s \in Uploaders
      PROVE  UploadPart(s)'
  <2>1. s \in Requests \ {r} /\ UploadPart(s) /\ TypeInv
    BY DEF Downloads, Uploaders, UploadInv
  <2>2. FilesOf(s) \cap {} = {}
    OBVIOUS
  <2>3. /\ rows' \ {} = rows \ {} /\ objects' \ {} = objects \ {}
        /\ running' \ {} = running \ {} /\ logged \subseteq logged'
    BY DEF storeVars
  <2> QED
    BY <2>1, <2>2, <2>3, Frame DEF Only
<1>2. ASSUME NEW s \in Downloads
      PROVE  DownloadPart(s)'
  <2>1. CASE s # r
    BY <2>1 DEF UploadInv, DownloadPart, Only, storeVars, FilesOf, Downloads
  <2> QED
    BY <2>1
<1> QED
  BY <1>1, <1>2 DEF UploadInv, Uploaders, Downloads, FilesOf, storeVars

(* How one request moves, and how its counters do.                         *)
LEMMA OnlyMoves ==
    ASSUME TypeInv, NEW r \in Requests, NEW place, NEW code, NEW bs,
           \/ pc' = [pc EXCEPT ![r] = place] /\ UNCHANGED response
           \/ Answer(r, code)
           \/ UNCHANGED <<pc, response>>,
           UNCHANGED bodies \/ bodies' = [bodies EXCEPT ![r] = bs],
           UNCHANGED saved \/ saved' = [saved EXCEPT ![r] = @ + 1],
           UNCHANGED deleted \/ deleted' = [deleted EXCEPT ![r] = @ + 1]
    PROVE  Only(r)
<1>1. \A s \in Requests \ {r} : pc'[s] = pc[s] /\ response'[s] = response[s]
  BY DEF TypeInv, PcType, ResponseType, Answer
<1>2. \A s \in Requests \ {r} : bodies'[s] = bodies[s]
  BY DEF TypeInv, BodyTypes
<1>3. \A s \in Requests \ {r} : saved'[s] = saved[s] /\ deleted'[s] = deleted[s]
  BY DEF TypeInv, CountTypes
<1> QED
  BY <1>1, <1>2, <1>3 DEF Only

LEMMA Answered ==
    ASSUME TypeInv, NEW r \in Requests, NEW code, Answer(r, code)
    PROVE  pc'[r] = "answered" /\ response'[r] = code
  BY DEF TypeInv, PcType, ResponseType, Answer

(* The locals of a request that an action leaves alone.                    *)
LEMMA Locals ==
    ASSUME NEW r \in Requests, UNCHANGED <<bodies, saved, deleted>>
    PROVE  /\ FilesOf(r)' = FilesOf(r) /\ SavedBy(r)' = SavedBy(r)
           /\ DeletedBy(r)' = DeletedBy(r) /\ ValidUpload(r)' = ValidUpload(r)
           /\ Untouched(r)' = Untouched(r)
  BY DEF FilesOf, SavedBy, DeletedBy, ValidUpload, Untouched

(* Every unhandled exception: 500, and the stores as they are.             *)
LEMMA UploadFails ==
    ASSUME TypeInv, NEW r \in Uploaders, UploadPart(r), pc[r] \notin {"answered", "gone"},
           Answer(r, 500), UNCHANGED <<bodies, saved, deleted, storeVars>>
    PROVE  UploadPart(r)'
<1>1. pc'[r] = "answered" /\ response'[r] = 500
  BY Answered DEF Uploaders
<1>2. /\ FilesOf(r)' = FilesOf(r) /\ SavedBy(r)' = SavedBy(r)
      /\ ValidUpload(r)' = ValidUpload(r) /\ Untouched(r)' = Untouched(r)
  BY Locals DEF Uploaders
<1>3. Clean(r)' = Clean(r)
  BY <1>2 DEF Clean, storeVars
<1> QED
  BY <1>1, <1>2, <1>3
     DEF UploadPart, PlacePart, RowsPart, ObjectsPart, ValidPart, storeVars

(* The invariant is kept by each operation of an upload.                   *)
LEMMA ReceiveKeeps ==
    ASSUME UploadInv, TypeInv', NEW r \in Requests, Receive(r)
    PROVE  UploadInv'
<1>1. PICK bs \in [1..Len(Files[r]) -> Bodies] :
        /\ bodies' = [bodies EXCEPT ![r] = bs]
        /\ IF Refusal(r, bs) # 0
             THEN Answer(r, Refusal(r, bs))
             ELSE pc' = [pc EXCEPT ![r] = "connecting"] /\ UNCHANGED response
  BY DEF Receive
<1>2. /\ r \in Uploaders /\ pc[r] = "received" /\ UploadPart(r) /\ TypeInv
      /\ UNCHANGED <<saved, deleted, storeVars>>
  BY DEF Receive, UploadInv
<1>3. Only(r)
  BY <1>1, <1>2, OnlyMoves
<1>4. bodies'[r] = bs
  BY <1>1, <1>2 DEF TypeInv, BodyTypes
<1>5. Refusal(r, bs) = 0 => ValidUpload(r)'
  BY <1>4, RefusalIsRight DEF ValidUpload
<1>6. /\ FilesOf(r)' = FilesOf(r) /\ SavedBy(r)' = SavedBy(r) /\ DeletedBy(r)' = DeletedBy(r)
  BY <1>2 DEF FilesOf, SavedBy, DeletedBy
<1>7. Clean(r) /\ Clean(r)'
  BY <1>2, <1>6 DEF UploadPart, ValidPart, Clean, storeVars
<1>8. \/ Refusal(r, bs) = 0 /\ pc'[r] = "connecting" /\ response'[r] = response[r]
      \/ pc'[r] = "answered" /\ response'[r] \in {400, 413, 415}
  BY <1>1, <1>2, RefusalIsRight, Answered DEF TypeInv, PcType
<1>9. UploadPart(r)'
  <2>1. FilesOf(r) \cap rows' = {}
    BY <1>6, <1>7 DEF Clean
  <2> QED
    BY <1>2, <1>5, <1>6, <1>7, <1>8, <2>1
       DEF UploadPart, PlacePart, RowsPart, ObjectsPart, ValidPart, Clean, storeVars
<1> QED
  BY <1>2, <1>3, <1>9, UploadStep DEF OwnFilesOnly, storeVars

LEMMA ConnectKeeps ==
    ASSUME UploadInv, TypeInv', NEW r \in Requests, Connect(r)
    PROVE  UploadInv'
<1>1. /\ r \in Uploaders /\ pc[r] = "connecting" /\ UploadPart(r) /\ TypeInv
      /\ pc' = [pc EXCEPT ![r] = "saving"]
      /\ UNCHANGED <<bodies, saved, deleted, response, storeVars>>
  BY DEF Connect, UploadInv
<1>2. Only(r)
  BY <1>1, OnlyMoves
<1>3. pc'[r] = "saving"
  BY <1>1 DEF TypeInv, PcType
<1>4. /\ FilesOf(r)' = FilesOf(r) /\ SavedBy(r)' = SavedBy(r)
      /\ ValidUpload(r)' = ValidUpload(r) /\ Untouched(r)' = Untouched(r)
  BY <1>1, Locals
<1>5. SavedBy(r) = {}
  BY <1>1 DEF SavedBy, UploadPart, PlacePart
<1>6. UploadPart(r)'
  BY <1>1, <1>3, <1>4, <1>5
     DEF UploadPart, PlacePart, RowsPart, ObjectsPart, ValidPart, Clean, storeVars
<1> QED
  BY <1>1, <1>2, <1>6, UploadStep DEF OwnFilesOnly, storeVars

(* PoolTimeout and FlushFails, and CommitFails when nothing was committed. *)
LEMMA FailureKeeps ==
    ASSUME UploadInv, TypeInv', NEW r \in Uploaders,
           pc[r] \notin {"answered", "gone"},
           Answer(r, 500), UNCHANGED <<bodies, saved, deleted, storeVars>>
    PROVE  UploadInv'
<1>1. r \in Requests /\ TypeInv /\ UploadPart(r)
  BY DEF Uploaders, UploadInv
<1>2. Only(r)
  BY <1>1, OnlyMoves
<1>3. UploadPart(r)'
  BY <1>1, UploadFails
<1> QED
  BY <1>2, <1>3, UploadStep DEF OwnFilesOnly, storeVars

(* A call of MinIO that raises, whether or not it has taken effect.        *)
LEMMA RaiseKeeps ==
    ASSUME UploadInv, TypeInv', NEW r \in Uploaders, NEW p,
           SaveRaises(r, p) \/ DeleteRaises(r, p)
    PROVE  UploadInv'
<1>1. /\ r \in Requests /\ TypeInv /\ UploadPart(r) /\ Answer(r, 500)
      /\ UNCHANGED <<bodies, saved, deleted, rows, running, logged>>
      /\ \/ pc[r] = "saving" /\ Saving(r, p) /\ objects' \in {objects, objects \cup {p}}
         \/ pc[r] = "compensating" /\ Deleting(r, p) /\ objects' \in {objects, objects \ {p}}
  BY DEF SaveRaises, DeleteRaises, Saving, Deleting, UploadInv, Uploaders
<1>2. Only(r)
  BY <1>1, OnlyMoves
<1>3. pc'[r] = "answered" /\ response'[r] = 500
  BY <1>1, Answered
<1>4. p \in FilesOf(r)
  BY <1>1, NextSaved, NextDeleted, SavedAreFiles
<1>5. /\ FilesOf(r)' = FilesOf(r) /\ SavedBy(r)' = SavedBy(r)
      /\ ValidUpload(r)' = ValidUpload(r) /\ Untouched(r)' = Untouched(r)
  BY <1>1, Locals
<1>6. UploadPart(r)'
  BY <1>1, <1>3, <1>5
     DEF UploadPart, PlacePart, RowsPart, ObjectsPart, ValidPart
<1> QED
  BY <1>1, <1>2, <1>4, <1>6, UploadStep DEF OwnFilesOnly

LEMMA SaveFileKeeps ==
    ASSUME UploadInv, TypeInv', NEW r \in Uploaders, NEW p, SaveFile(r, p)
    PROVE  UploadInv'
<1>1. /\ r \in Requests /\ TypeInv /\ UploadPart(r) /\ Saving(r, p) /\ pc[r] = "saving"
      /\ objects' = objects \cup {p} /\ saved' = [saved EXCEPT ![r] = @ + 1]
      /\ UNCHANGED <<pc, bodies, deleted, response, rows, running, logged>>
  BY DEF SaveFile, Saving, UploadInv, Uploaders
<1>2. Only(r)
  BY <1>1, OnlyMoves
<1>3. p \in FilesOf(r) \ SavedBy(r) /\ p = Files[r][saved[r] + 1]
  BY <1>1, NextSaved DEF Saving
<1>4. SavedBy(r)' = SavedBy(r) \cup {p}
  BY <1>1, <1>3 DEF SavedBy, TypeInv, CountTypes
<1>5. /\ FilesOf(r)' = FilesOf(r) /\ DeletedBy(r)' = DeletedBy(r)
      /\ ValidUpload(r)' = ValidUpload(r)
  BY <1>1 DEF FilesOf, DeletedBy, ValidUpload
<1>6. SavedBy(r)' \cap running' = {}
  BY <1>1, <1>3, <1>4 DEF UploadPart, ObjectsPart
<1>7. UploadPart(r)'
  BY <1>1, <1>3, <1>4, <1>5, <1>6
     DEF UploadPart, PlacePart, RowsPart, ObjectsPart, ValidPart
<1> QED
  BY <1>1, <1>2, <1>3, <1>7, UploadStep DEF OwnFilesOnly

LEMMA SaveFailsKeeps ==
    ASSUME UploadInv, TypeInv', NEW r \in Uploaders, NEW p,
           SaveUnavailable(r, p) \/ SaveTimesOut(r, p)
    PROVE  UploadInv'
<1>1. /\ r \in Requests /\ TypeInv /\ UploadPart(r) /\ Saving(r, p) /\ pc[r] = "saving"
      /\ pc' = [pc EXCEPT ![r] = "compensating"]
      /\ UNCHANGED <<bodies, saved, deleted, response, rows, objects, logged>>
      /\ running' \in {running, running \cup {p}}
  BY DEF SaveUnavailable, SaveTimesOut, Rollback, Saving, UploadInv, Uploaders, storeVars
<1>2. Only(r)
  BY <1>1, OnlyMoves
<1>3. /\ p \in FilesOf(r) \ SavedBy(r) /\ Untouched(r) \subseteq FilesOf(r)
      /\ Untouched(r) \cap (SavedBy(r) \cup {p}) = {}
  BY <1>1, NextSaved, NextIsTheLast, SavedAreFiles
<1>4. pc'[r] = "compensating"
  BY <1>1 DEF TypeInv, PcType
<1>5. /\ FilesOf(r)' = FilesOf(r) /\ SavedBy(r)' = SavedBy(r)
      /\ DeletedBy(r)' = DeletedBy(r) /\ ValidUpload(r)' = ValidUpload(r)
      /\ Untouched(r)' = Untouched(r)
  BY <1>1, Locals
<1>6. DeletedBy(r) = {}
  BY <1>1 DEF UploadPart, PlacePart, DeletedBy
<1>7. UploadPart(r)'
  BY <1>1, <1>3, <1>4, <1>5, <1>6
     DEF UploadPart, PlacePart, RowsPart, ObjectsPart, ValidPart
<1> QED
  BY <1>1, <1>2, <1>3, <1>7, UploadStep DEF OwnFilesOnly

LEMMA DeleteKeeps ==
    ASSUME UploadInv, TypeInv', NEW r \in Uploaders, NEW p,
           DeleteFile(r, p) \/ DeleteSwallowed(r, p)
    PROVE  UploadInv'
<1>1. /\ r \in Requests /\ TypeInv /\ UploadPart(r)
      /\ Deleting(r, p) /\ pc[r] = "compensating"
      /\ deleted' = [deleted EXCEPT ![r] = @ + 1]
      /\ UNCHANGED <<pc, bodies, saved, response, rows, running>>
      /\ \/ objects' = objects \ {p} /\ logged' = logged
         \/ objects' = objects /\ logged' = logged \cup {p}
  BY DEF DeleteFile, DeleteSwallowed, Deleting, UploadInv, Uploaders
<1>2. Only(r)
  BY <1>1, OnlyMoves
<1>3. p \in FilesOf(r) /\ p = Files[r][deleted[r] + 1]
  BY <1>1, NextDeleted, SavedAreFiles DEF Deleting
<1>4. DeletedBy(r)' = DeletedBy(r) \cup {p}
  BY <1>1, <1>3 DEF DeletedBy, TypeInv, CountTypes
<1>5. /\ FilesOf(r)' = FilesOf(r) /\ SavedBy(r)' = SavedBy(r)
      /\ ValidUpload(r)' = ValidUpload(r) /\ Untouched(r)' = Untouched(r)
  BY <1>1 DEF FilesOf, SavedBy, ValidUpload, Untouched
<1>6. DeletedBy(r)' \cap objects' \subseteq logged'
  BY <1>1, <1>4 DEF UploadPart, ObjectsPart
<1>7. UploadPart(r)'
  BY <1>1, <1>3, <1>5, <1>6
     DEF UploadPart, PlacePart, RowsPart, ObjectsPart, ValidPart
<1> QED
  BY <1>1, <1>2, <1>3, <1>7, UploadStep DEF OwnFilesOnly

LEMMA UnavailableKeeps ==
    ASSUME UploadInv, TypeInv', NEW r \in Uploaders, AnswerUnavailable(r)
    PROVE  UploadInv'
<1>1. /\ r \in Requests /\ TypeInv /\ UploadPart(r) /\ pc[r] = "compensating"
      /\ deleted[r] = saved[r] /\ Answer(r, 503)
      /\ UNCHANGED <<bodies, saved, deleted, storeVars>>
  BY DEF AnswerUnavailable, UploadInv, Uploaders
<1>2. Only(r)
  BY <1>1, OnlyMoves
<1>3. pc'[r] = "answered" /\ response'[r] = 503
  BY <1>1, Answered
<1>4. /\ FilesOf(r)' = FilesOf(r) /\ SavedBy(r)' = SavedBy(r)
      /\ ValidUpload(r)' = ValidUpload(r) /\ Untouched(r)' = Untouched(r)
  BY <1>1, Locals
<1>5. SavedBy(r) \cap objects \subseteq logged
  BY <1>1, EverySaved DEF UploadPart, ObjectsPart
<1>6. UploadPart(r)'
  BY <1>1, <1>3, <1>4, <1>5
     DEF UploadPart, PlacePart, RowsPart, ObjectsPart, ValidPart, storeVars
<1> QED
  BY <1>1, <1>2, <1>6, UploadStep DEF OwnFilesOnly, storeVars

LEMMA CommitKeeps ==
    ASSUME UploadInv, TypeInv', NEW r \in Uploaders, Commit(r) \/ CommitFails(r)
    PROVE  UploadInv'
<1>1. /\ r \in Requests /\ TypeInv /\ UploadPart(r) /\ pc[r] = "saving"
      /\ saved[r] = Len(Files[r])
      /\ UNCHANGED <<bodies, saved, deleted, objects, running, logged>>
      /\ \/ Answer(r, 202) /\ rows' = rows \cup FilesOf(r)
         \/ Answer(r, 500) /\ rows' = rows \cup FilesOf(r)
         \/ Answer(r, 500) /\ rows' = rows
  BY DEF Commit, CommitFails, UploadInv, Uploaders
<1>2. Only(r)
  BY <1>1, OnlyMoves
<1>3. /\ pc'[r] = "answered"
      /\ \/ response'[r] \in {202, 500} /\ rows' = rows \cup FilesOf(r)
         \/ response'[r] = 500 /\ rows' = rows
  BY <1>1, Answered
<1>4. /\ FilesOf(r)' = FilesOf(r) /\ SavedBy(r)' = SavedBy(r)
      /\ ValidUpload(r)' = ValidUpload(r) /\ Untouched(r)' = Untouched(r)
  BY <1>1, Locals
<1>5. FilesOf(r) \subseteq objects
  BY <1>1, EverySaved DEF UploadPart, ObjectsPart
<1>6. UploadPart(r)'
  BY <1>1, <1>3, <1>4, <1>5
     DEF UploadPart, PlacePart, RowsPart, ObjectsPart, ValidPart
<1> QED
  BY <1>1, <1>2, <1>6, UploadStep DEF OwnFilesOnly

LEMMA ThreadKeeps ==
    ASSUME UploadInv, TypeInv', NEW p, ThreadEnds(p)
    PROVE  UploadInv'
<1>1. /\ TypeInv /\ p \in running /\ running' = running \ {p}
      /\ objects' = objects \/ objects' = objects \cup {p}
      /\ UNCHANGED <<rows, logged, pc, bodies, saved, deleted, response>>
  BY DEF ThreadEnds, UploadInv, requestVars
<1>2. ASSUME NEW s \in Uploaders
      PROVE  UploadPart(s)'
  <2>1. s \in Requests /\ UploadPart(s)
    BY DEF UploadInv, Uploaders
  <2>2. /\ FilesOf(s)' = FilesOf(s) /\ SavedBy(s)' = SavedBy(s)
        /\ DeletedBy(s)' = DeletedBy(s) /\ ValidUpload(s)' = ValidUpload(s)
        /\ Untouched(s)' = Untouched(s)
    BY <1>1, <2>1, Locals
  <2>3. p \notin SavedBy(s) /\ DeletedBy(s) \subseteq SavedBy(s)
    BY <1>1, <2>1, SavedAreFiles DEF UploadPart, ObjectsPart
  <2>4. PlacePart(s)' /\ RowsPart(s)'
    BY <1>1, <2>1, <2>2 DEF UploadPart, PlacePart, RowsPart
  <2>5. ObjectsPart(s)'
    BY <1>1, <2>1, <2>2, <2>3 DEF UploadPart, ObjectsPart
  <2>6. Clean(s) => Clean(s)'
    BY <1>1, <2>2 DEF Clean
  <2>7. ValidPart(s)'
    BY <1>1, <2>1, <2>2, <2>6 DEF UploadPart, ValidPart
  <2> QED
    BY <2>4, <2>5, <2>7 DEF UploadPart
<1>3. ASSUME NEW s \in Downloads
      PROVE  DownloadPart(s)'
  BY <1>1 DEF UploadInv, DownloadPart, FilesOf
<1> QED
  BY <1>1, <1>2, <1>3 DEF UploadInv, Uploaders, Downloads, FilesOf

(* The same for the steps of a download, which change no store.            *)
LEMMA DownloadKeeps ==
    ASSUME UploadInv, TypeInv', NEW r \in Downloads,
           \/ Ask(r) \/ Find(r) \/ ReadObject(r)
           \/ PoolTimeout(r) \/ FindFails(r) \/ ReadUnavailable(r) \/ ReadRaises(r)
    PROVE  UploadInv'
<1>1. r \in Requests /\ TypeInv /\ DownloadPart(r)
  BY DEF UploadInv, Downloads
<1>2. /\ UNCHANGED <<bodies, saved, deleted, storeVars>>
      /\ \/ \E code \in {200, 404, 500, 503} : Answer(r, code)
         \/ /\ pc' = [pc EXCEPT ![r] = "connecting"]
            /\ pc[r] = "received" /\ UNCHANGED response
         \/ /\ pc' = [pc EXCEPT ![r] = "reading"]
            /\ pc[r] = "connecting" /\ UNCHANGED response
            /\ FilesOf(r) \subseteq rows
  BY DEF Ask, Find, Proceed, ReadObject, PoolTimeout, FindFails, ReadUnavailable, ReadRaises
<1>3. Only(r)
  BY <1>1, <1>2, OnlyMoves
<1>4. \/ pc'[r] = "answered" /\ response'[r] \in {200, 404, 500, 503}
      \/ pc'[r] = "connecting" /\ pc[r] = "received" /\ response'[r] = response[r]
      \/ /\ pc'[r] = "reading" /\ pc[r] = "connecting" /\ response'[r] = response[r]
         /\ FilesOf(r) \subseteq rows
  BY <1>1, <1>2, Answered DEF TypeInv, PcType
<1>5. DownloadPart(r)'
  BY <1>1, <1>2, <1>4 DEF DownloadPart, storeVars, FilesOf
<1> QED
  BY <1>2, <1>3, <1>5, DownloadStep

(* A crash: threads and requests are gone, and of what was in progress     *)
(* some has reached MinIO and PostgreSQL.                                  *)
LEMMA CrashKeeps ==
    ASSUME UploadInv, TypeInv', Crash
    PROVE  UploadInv'
<1>1. TypeInv /\ running' = {} /\ UNCHANGED <<bodies, saved, deleted, response, logged>>
  BY DEF Crash, UploadInv
<1>2. PICK S \in SUBSET (running \cup {p \in Photos : \E r \in Requests : Saving(r, p)}) :
        objects' = objects \cup S
  BY DEF Crash
<1>3. PICK C \in SUBSET Committing : rows' = rows \cup UNION {FilesOf(r) : r \in C}
  BY DEF Crash
<1>4. \A r \in Requests :
        pc'[r] = IF pc[r] \in {"received", "answered"} THEN pc[r] ELSE "gone"
  BY DEF Crash
<1>5. C \subseteq Uploaders /\ \A r \in C : pc[r] = "saving" /\ FilesOf(r) \subseteq objects
  <2>1. ASSUME NEW r \in C
        PROVE  r \in Uploaders /\ pc[r] = "saving" /\ FilesOf(r) \subseteq objects
    BY <1>1, EverySaved DEF Committing, UploadInv, UploadPart, ObjectsPart, Uploaders
  <2> QED
    BY <2>1
<1>6. ASSUME NEW p \in S, NEW s \in Uploaders, p \in FilesOf(s), p \notin running
      PROVE  pc[s] = "saving" /\ p \notin SavedBy(s)
  <2>1. PICK r \in Requests : Saving(r, p)
    BY <1>2, <1>6
  <2>2. r \in Uploaders
    BY <2>1 DEF Saving, UploadInv, DownloadPart, Uploaders, Downloads
  <2>3. p \in FilesOf(r) \ SavedBy(r)
    BY <1>1, <2>1, <2>2, NextSaved
  <2>4. r = s
    BY <1>6, <2>2, <2>3, FilesAreDisjoint
  <2> QED
    BY <2>1, <2>3, <2>4 DEF Saving
<1>7. ASSUME NEW s \in Uploaders
      PROVE  UploadPart(s)'
  <2>1. s \in Requests /\ UploadPart(s)
    BY DEF UploadInv, Uploaders
  <2>2. /\ FilesOf(s)' = FilesOf(s) /\ SavedBy(s)' = SavedBy(s)
        /\ DeletedBy(s)' = DeletedBy(s) /\ ValidUpload(s)' = ValidUpload(s)
        /\ Untouched(s)' = Untouched(s)
    BY <1>1, <2>1, Locals
  <2>3. \/ s \in C /\ FilesOf(s) \subseteq rows'
        \/ s \notin C /\ rows' \cap FilesOf(s) = rows \cap FilesOf(s)
    <3>1. CASE s \in C
      BY <1>3, <3>1
    <3>2. CASE s \notin C
      <4>1. \A r \in C : FilesOf(r) \cap FilesOf(s) = {}
        BY <1>5, <3>2, FilesAreDisjoint
      <4> QED
        BY <1>3, <3>2, <4>1
    <3> QED
      BY <3>1, <3>2
  <2>4. pc'[s] \in {"received", "answered", "gone"}
        /\ (pc'[s] # "gone" => pc'[s] = pc[s])
        /\ (pc[s] \in {"received", "answered"} => pc'[s] = pc[s])
    BY <1>4, <2>1
  <2>5. PlacePart(s)'
    BY <1>1, <2>1, <2>4 DEF UploadPart, PlacePart
  <2>6. RowsPart(s)'
    <3>1. s \in C => pc'[s] = "gone" /\ response[s] = 0
      BY <1>4, <1>5, <2>1 DEF UploadPart, PlacePart
    <3> QED
      BY <1>1, <2>1, <2>2, <2>3, <2>4, <3>1 DEF UploadPart, RowsPart
  <2>7. ObjectsPart(s)'
    <3>1. response[s] = 503 => SavedBy(s) \cap S = {}
      BY <1>1, <1>6, <2>1, SavedAreFiles DEF UploadPart, ObjectsPart, PlacePart
    <3>2. FilesOf(s) \cap rows' \subseteq objects'
      BY <1>2, <1>5, <2>1, <2>3 DEF UploadPart, ObjectsPart
    <3>3. pc'[s] = "received" => FilesOf(s) \cap objects' \subseteq SavedBy(s)
      BY <1>2, <1>4, <1>6, <2>1 DEF UploadPart, ObjectsPart
    <3>4. response[s] = 503 => Untouched(s) \cap objects' = {}
      BY <1>1, <1>2, <1>6, <2>1, SavedAreFiles DEF UploadPart, ObjectsPart, PlacePart
    <3>5. pc'[s] \in {"received", "answered", "gone"}
      BY <2>4
    <3> QED
      BY <1>1, <1>2, <2>1, <2>2, <3>1, <3>2, <3>3, <3>4, <3>5 DEF UploadPart, ObjectsPart
  <2>8. Clean(s) /\ ~ValidUpload(s) => Clean(s)'
    <3>1. ASSUME Clean(s), pc[s] # "saving"
          PROVE  Clean(s)'
      <4>1. FilesOf(s) \cap S = {}
        BY <1>6, <3>1 DEF Clean
      <4>2. s \notin C
        BY <1>5, <3>1
      <4> QED
        BY <1>1, <1>2, <2>2, <2>3, <3>1, <4>1, <4>2 DEF Clean
    <3> QED
      BY <2>1, <3>1 DEF UploadPart, ValidPart
  <2>9. pc[s] = "received" => Clean(s)'
    <3>1. ASSUME pc[s] = "received"
          PROVE  Clean(s)'
      <4>1. Clean(s)
        BY <2>1, <3>1 DEF UploadPart, ValidPart
      <4>2. FilesOf(s) \cap S = {}
        BY <1>6, <3>1, <4>1 DEF Clean
      <4>3. s \notin C
        BY <1>5, <3>1
      <4> QED
        BY <1>1, <1>2, <2>2, <2>3, <4>1, <4>2, <4>3 DEF Clean
    <3> QED
      BY <3>1
  <2>10. ValidPart(s)'
    BY <2>1, <2>2, <2>4, <2>8, <2>9 DEF UploadPart, ValidPart
  <2> QED
    BY <2>5, <2>6, <2>7, <2>10 DEF UploadPart
<1>8. ASSUME NEW s \in Downloads
      PROVE  DownloadPart(s)'
  BY <1>1, <1>4 DEF UploadInv, DownloadPart, Downloads
<1>9. rows' \subseteq UNION {FilesOf(s) : s \in Uploaders}
  BY <1>3, <1>5 DEF UploadInv
<1> QED
  BY <1>7, <1>8, <1>9 DEF UploadInv, Uploaders, Downloads, FilesOf

LEMMA UploadInvStep ==
    ASSUME UploadInv, [Next]_vars
    PROVE  UploadInv'
<1>1. TypeInv'
  BY TypeInvStep DEF UploadInv
<1>2. ASSUME NEW r \in Requests, RequestStep(r) \/ RequestFails(r)
      PROVE  UploadInv'
  <2>1. CASE r \in Uploaders
    <3>1. Receive(r) \/ Connect(r) => UploadInv'
      BY <1>1, ReceiveKeeps, ConnectKeeps
    <3>2. \A p \in Photos : SaveFile(r, p) \/ DeleteFile(r, p) => UploadInv'
      BY <1>1, <2>1, SaveFileKeeps, DeleteKeeps
    <3>3. AnswerUnavailable(r) \/ Commit(r) => UploadInv'
      BY <1>1, <2>1, UnavailableKeeps, CommitKeeps
    <3>4. PoolTimeout(r) \/ FlushFails(r) => UploadInv'
      BY <1>1, <2>1, FailureKeeps DEF PoolTimeout, FlushFails, Saving
    <3>5. ASSUME NEW p \in Photos,
                 \/ SaveUnavailable(r, p) \/ SaveTimesOut(r, p) \/ SaveRaises(r, p)
                 \/ DeleteSwallowed(r, p) \/ DeleteRaises(r, p)
          PROVE  UploadInv'
      BY <1>1, <2>1, <3>5, SaveFailsKeeps, DeleteKeeps, RaiseKeeps
    <3>6. CommitFails(r) => UploadInv'
      BY <1>1, <2>1, CommitKeeps
    <3>7. ~ (Ask(r) \/ Find(r) \/ FindFails(r))
      BY <2>1 DEF Ask, Find, FindFails, Uploaders
    <3>8. pc[r] # "reading"
      BY <2>1 DEF UploadInv, UploadPart, PlacePart
    <3>9. ~ (ReadObject(r) \/ ReadUnavailable(r) \/ ReadRaises(r))
      BY <3>8 DEF ReadObject, ReadUnavailable, ReadRaises
    <3> QED
      BY <1>2, <3>1, <3>2, <3>3, <3>4, <3>5, <3>6, <3>7, <3>9 DEF RequestStep, RequestFails
  <2>2. CASE r \in Downloads
    <3>1. pc[r] \notin {"saving", "compensating"} /\ r \notin Uploaders
      BY <2>2 DEF UploadInv, DownloadPart, Uploaders
    <3>2. \A p \in Photos : ~Saving(r, p) /\ ~Deleting(r, p)
      BY <3>1 DEF Saving, Deleting
    <3>3. \/ Ask(r) \/ Find(r) \/ ReadObject(r)
          \/ PoolTimeout(r) \/ FindFails(r) \/ ReadUnavailable(r) \/ ReadRaises(r)
      BY <1>2, <3>1, <3>2
         DEF RequestStep, RequestFails, Receive, Connect, SaveFile, DeleteFile,
             AnswerUnavailable, Commit, FlushFails, SaveUnavailable, SaveTimesOut,
             SaveRaises, DeleteSwallowed, DeleteRaises, CommitFails
    <3> QED
      BY <1>1, <2>2, <3>3, DownloadKeeps
  <2> QED
    BY <2>1, <2>2 DEF Uploaders
<1>3. CASE UNCHANGED vars
  <2>1. /\ UNCHANGED <<rows, objects, running, logged>>
        /\ UNCHANGED <<pc, bodies, saved, deleted, response>>
    BY <1>3 DEF vars, storeVars, requestVars
  <2>2. ASSUME NEW s \in Uploaders
        PROVE  UploadPart(s)'
    <3>1. FilesOf(s) \cap {} = {} /\ UploadPart(s) /\ TypeInv
      BY DEF UploadInv
    <3> QED
      BY <2>1, <3>1, Frame
  <2>3. ASSUME NEW s \in Downloads
        PROVE  DownloadPart(s)'
    BY <2>1 DEF UploadInv, DownloadPart, FilesOf
  <2> QED
    BY <1>1, <2>1, <2>2, <2>3 DEF UploadInv, Uploaders, Downloads, FilesOf
<1> QED
  BY <1>1, <1>2, <1>3, ThreadKeeps, CrashKeeps DEF Next

LEMMA UploadInvInit == Init => UploadInv
<1> SUFFICES ASSUME Init
             PROVE  UploadInv
  OBVIOUS
<1>1. TypeInv
  BY TypeInvInit
<1>2. \A r \in Requests : SavedBy(r) = {}
  BY DEF Init, SavedBy
<1>3. \A r \in Requests : Clean(r)
  BY DEF Init, Clean
<1>4. \A r \in Uploaders : UploadPart(r)
  BY <1>2, <1>3 DEF Uploaders, Init, UploadPart, PlacePart, RowsPart, ObjectsPart, ValidPart
<1>5. \A r \in Downloads : DownloadPart(r)
  BY DEF Init, DownloadPart, Downloads
<1> QED
  BY <1>1, <1>4, <1>5 DEF UploadInv, Init

LEMMA UploadIsSound == Spec => []UploadInv
  BY UploadInvInit, UploadInvStep, PTL DEF Spec

LEMMA InvRowHasObject == UploadInv => RowHasObject
<1> SUFFICES ASSUME UploadInv, NEW p \in rows
             PROVE  p \in objects
  BY DEF RowHasObject
<1>1. PICK r \in Uploaders : p \in FilesOf(r)
  BY DEF UploadInv
<1> QED
  BY <1>1 DEF UploadInv, UploadPart, ObjectsPart

(* A photo that can be listed can be downloaded and analyzed.              *)
THEOREM RowsHaveObjects == Spec => []RowHasObject
  BY UploadIsSound, InvRowHasObject, PTL

(* Uploads are all or nothing, and 202, 4xx and 503 say which.             *)
THEOREM AnswersAreTrue == Spec => []AnswerTellsTheTruth
<1>1. UploadInv => AnswerTellsTheTruth
  BY DEF UploadInv, UploadPart, RowsPart, AnswerTellsTheTruth
<1> QED
  BY <1>1, UploadIsSound, PTL

(* Nothing of an upload with a file that fails validation reaches a store. *)
THEOREM StoredFilesAreValid == Spec => []OnlyValidFilesAreStored
<1>1. UploadInv => OnlyValidFilesAreStored
  BY DEF UploadInv, UploadPart, ValidPart, Clean, ValidUpload, OnlyValidFilesAreStored
<1> QED
  BY <1>1, UploadIsSound, PTL

(* After a 503 every object but the one in doubt is deleted or reported.   *)
THEOREM CompensatedOrLogged == Spec => []CompensationIsComplete
<1>1. UploadInv => CompensationIsComplete
  <2> SUFFICES ASSUME UploadInv, NEW r \in Uploaders, response[r] = 503,
                      NEW i \in 1..Len(Files[r]), i # saved[r] + 1, Files[r][i] \in objects
               PROVE  Files[r][i] \in logged
    BY DEF CompensationIsComplete
  <2>1. Len(Files[r]) \in Nat /\ saved[r] \in Nat
    BY FilesType DEF UploadInv, TypeInv, CountTypes, Uploaders
  <2>2. i \in 1..saved[r] \/ i \in (saved[r] + 2)..Len(Files[r])
    BY <2>1
  <2>3. Files[r][i] \in SavedBy(r) \/ Files[r][i] \in Untouched(r)
    BY <2>2 DEF SavedBy, Untouched
  <2> QED
    BY <2>3 DEF UploadInv, UploadPart, ObjectsPart
<1> QED
  BY <1>1, UploadIsSound, PTL

-----------------------------------------------------------------------------
(* Only requests answer.                                                   *)
LEMMA OthersKeepAnswers ==
    ASSUME UNCHANGED vars \/ Crash \/ \E p \in Photos : ThreadEnds(p)
    PROVE  UNCHANGED <<bodies, response>>
<1>1. UNCHANGED vars => UNCHANGED <<bodies, response>>
  BY DEF vars, requestVars
<1>2. Crash => UNCHANGED <<bodies, response>>
  BY DEF Crash
<1>3. ASSUME NEW p \in Photos, ThreadEnds(p)
      PROVE  UNCHANGED <<bodies, response>>
  BY <1>3 DEF ThreadEnds, requestVars
<1> QED
  BY <1>1, <1>2, <1>3

(* A 4xx is given by Receive only, and stands from then on.                *)
LEMMA OnlyReceiveRefuses ==
    ASSUME UploadInv, [Next]_vars, NEW r \in Uploaders
    PROVE  \/ Receive(r)
           \/ /\ bodies'[r] = bodies[r]
              /\ response'[r] # response[r] => response'[r] \notin {400, 413, 415}
<1>1. r \in Requests /\ TypeInv
  BY DEF Uploaders, UploadInv
<1>2. CASE UNCHANGED vars \/ Crash \/ \E p \in Photos : ThreadEnds(p)
  BY <1>2, OthersKeepAnswers
<1>3. ASSUME NEW s \in Requests, Receive(s)
      PROVE  Receive(r) \/ (bodies'[r] = bodies[r] /\ response'[r] = response[r])
  <2>1. CASE s = r
    BY <1>3, <2>1
  <2>2. CASE s # r
    <3>1. PICK bs \in [1..Len(Files[s]) -> Bodies] :
            /\ bodies' = [bodies EXCEPT ![s] = bs]
            /\ UNCHANGED response \/ Answer(s, Refusal(s, bs))
      BY <1>3 DEF Receive
    <3>2. bodies'[r] = bodies[r]
      BY <1>1, <2>2, <3>1 DEF TypeInv, BodyTypes
    <3>3. response'[r] = response[r]
      BY <1>1, <2>2, <3>1 DEF Answer, TypeInv, ResponseType
    <3> QED
      BY <3>2, <3>3
  <2> QED
    BY <2>1, <2>2
<1>4. ASSUME NEW s \in Requests, RequestStep(s) \/ RequestFails(s), ~Receive(s)
      PROVE  /\ bodies'[r] = bodies[r]
             /\ response'[r] # response[r] => response'[r] \notin {400, 413, 415}
  <2>1. UNCHANGED bodies
    BY <1>4 DEF RequestStep, RequestFails, Connect, PoolTimeout, SaveFile, DeleteFile,
                AnswerUnavailable, Commit, Ask, Find, ReadObject, FlushFails,
                SaveUnavailable, SaveTimesOut, SaveRaises, DeleteSwallowed, DeleteRaises,
                CommitFails, FindFails, ReadUnavailable, ReadRaises
  <2>2. \/ UNCHANGED response
        \/ \E code \in {200, 202, 404, 500, 503} : Answer(s, code)
    BY <1>4 DEF RequestStep, RequestFails, Connect, PoolTimeout, SaveFile, DeleteFile,
                AnswerUnavailable, Commit, Ask, Find, Proceed, ReadObject, FlushFails,
                SaveUnavailable, SaveTimesOut, SaveRaises, DeleteSwallowed, DeleteRaises,
                CommitFails, FindFails, ReadUnavailable, ReadRaises
  <2> QED
    BY <1>1, <2>1, <2>2 DEF Answer, TypeInv, ResponseType
<1> QED
  BY <1>2, <1>3, <1>4 DEF Next

(* What RefusalHasACause says of a request.                                *)
CausePart(r) ==
    /\ response[r] = 400 =>
         \/ Endpoint[r] = "batch" /\ Len(Files[r]) \notin MinBatchSize..MaxBatchSize
         \/ \E i \in 1..Len(Files[r]) : bodies[r][i].size = 0
    /\ response[r] = 413 => \E i \in 1..Len(Files[r]) : bodies[r][i].size > MaxFileSize
    /\ response[r] = 415 => \E i \in 1..Len(Files[r]) : bodies[r][i].magic = "other"

(* Each 4xx names what is wrong with the upload, and the check of the      *)
(* total size, which no such cause explains, never fires.                  *)
THEOREM RefusalsHaveACause == Spec => []RefusalHasACause
<1>1. RefusalHasACause <=> \A r \in Uploaders : CausePart(r)
  BY DEF RefusalHasACause, CausePart
<1>2. Init => \A r \in Uploaders : CausePart(r)
  BY DEF Init, CausePart, Uploaders
<1>3. ASSUME UploadInv, [Next]_vars, NEW r \in Uploaders, CausePart(r)
      PROVE  CausePart(r)'
  <2>1. CASE Receive(r)
    <3>1. PICK bs \in [1..Len(Files[r]) -> Bodies] :
            /\ bodies' = [bodies EXCEPT ![r] = bs]
            /\ IF Refusal(r, bs) # 0 THEN Answer(r, Refusal(r, bs)) ELSE UNCHANGED response
      BY <2>1 DEF Receive
    <3>2. r \in Requests /\ response[r] = 0 /\ TypeInv
      BY <1>3, <2>1 DEF Receive, UploadInv, UploadPart, PlacePart, Uploaders
    <3>3. bodies'[r] = bs
      BY <3>1, <3>2 DEF TypeInv, BodyTypes
    <3>4. response'[r] = Refusal(r, bs)
      BY <3>1, <3>2, Answered
    <3>5. CASE Refusal(r, bs) = 0
      BY <3>4, <3>5 DEF CausePart
    <3>6. CASE Refusal(r, bs) # 0
      BY <3>3, <3>4, <3>6, RefusalIsAboutAFile, ValidateIsRight DEF CausePart
    <3> QED
      BY <3>5, <3>6
  <2>2. CASE ~Receive(r)
    BY <1>3, <2>2, OnlyReceiveRefuses DEF CausePart
  <2> QED
    BY <2>1, <2>2
<1>4. UploadInv /\ (\A r \in Uploaders : CausePart(r)) /\ [Next]_vars
        => (\A r \in Uploaders : CausePart(r))'
  BY <1>3 DEF Uploaders, Downloads
<1> QED
  BY <1>1, <1>2, <1>4, UploadIsSound, PTL DEF Spec

-----------------------------------------------------------------------------
(* A request that waits finds a free connection if the pool has one each.  *)
LEMMA PoolIsLargeEnough ==
    ASSUME IsFiniteSet(Requests), Cardinality(Requests) <= PoolSize,
           NEW r \in Requests, pc[r] = "connecting"
    PROVE  Free
<1>1. Connected \subseteq Requests /\ r \notin Connected
  BY DEF Connected
<1>2. Connected \subseteq Requests \ {r}
  BY <1>1
<1>3. IsFiniteSet(Requests \ {r}) /\ Cardinality(Requests \ {r}) = Cardinality(Requests) - 1
  BY FS_RemoveElement
<1>4. Cardinality(Connected) <= Cardinality(Requests \ {r})
  BY <1>2, <1>3, FS_Subset
<1>5. /\ Cardinality(Requests) \in Nat /\ PoolSize \in Nat
      /\ Cardinality(Connected) \in Nat
  BY <1>2, <1>3, FS_Subset, FS_CardinalityType, UploadAssumption
<1> QED
  BY <1>3, <1>4, <1>5 DEF Free

(* An outage that MinIO itself reports, as an S3Error, or that             *)
(* STORAGE_TIMEOUT_SECONDS ends, is answered 503 and never 500, whichever  *)
(* calls it hits, in the middle of a batch or the deletes that compensate  *)
(* one included, as long as the pool has a connection for every request.   *)
(* What breaks the constitution's rule is an outage that raises something  *)
(* else, in a save, a read or a delete, and a pool that is full.           *)
THEOREM ReportedOutageIs503 ==
    ASSUME FaultKinds \cap {TransportError, FlushError, CommitFailure} = {},
           IsFiniteSet(Requests), Cardinality(Requests) <= PoolSize
    PROVE  Spec => []StorageOutageIs503
<1>1. Init => StorageOutageIs503
  BY DEF Init, StorageOutageIs503
<1>2. UploadInv /\ StorageOutageIs503 /\ [Next]_vars => StorageOutageIs503'
  <2> SUFFICES ASSUME UploadInv, StorageOutageIs503, [Next]_vars
               PROVE  StorageOutageIs503'
    OBVIOUS
  <2>1. TypeInv
    BY DEF UploadInv
  <2>2. \/ UNCHANGED response
        \/ \E r \in Requests, code \in {200, 202, 400, 404, 413, 415, 503} : Answer(r, code)
    <3>1. CASE UNCHANGED vars \/ Crash \/ \E p \in Photos : ThreadEnds(p)
      BY <3>1, OthersKeepAnswers
    <3>2. ASSUME NEW r \in Requests, Receive(r)
          PROVE  UNCHANGED response \/ \E code \in {400, 413, 415} : Answer(r, code)
      <4>1. PICK bs \in [1..Len(Files[r]) -> Bodies] :
              IF Refusal(r, bs) # 0 THEN Answer(r, Refusal(r, bs)) ELSE UNCHANGED response
        BY <3>2 DEF Receive
      <4>2. Refusal(r, bs) \in {0, 400, 413, 415}
        BY RefusalIsRight
      <4> QED
        BY <4>1, <4>2
    <3>3. ASSUME NEW r \in Requests, RequestStep(r), ~Receive(r)
          PROVE  \/ UNCHANGED response
                 \/ \E code \in {200, 202, 404, 503} : Answer(r, code)
      <4>1. ~PoolTimeout(r)
        BY PoolIsLargeEnough DEF PoolTimeout
      <4> QED
        BY <3>3, <4>1 DEF RequestStep, Connect, SaveFile, DeleteFile, AnswerUnavailable,
                          Commit, Ask, Find, Proceed, ReadObject
    <3>4. ASSUME NEW r \in Requests, RequestFails(r)
          PROVE  UNCHANGED response \/ Answer(r, 503)
      <4>1. /\ ~FlushFails(r) /\ ~CommitFails(r) /\ ~FindFails(r) /\ ~ReadRaises(r)
            /\ \A p \in Photos : ~SaveRaises(r, p) /\ ~DeleteRaises(r, p)
        BY DEF FlushFails, CommitFails, FindFails, ReadRaises, SaveRaises, DeleteRaises, Suffer
      <4> QED
        BY <3>4, <4>1 DEF RequestFails, SaveUnavailable, SaveTimesOut, DeleteSwallowed,
                          ReadUnavailable
    <3> QED
      BY <3>1, <3>2, <3>3, <3>4 DEF Next
  <2> QED
    BY <2>1, <2>2 DEF Answer, TypeInv, ResponseType, StorageOutageIs503
<1> QED
  BY <1>1, <1>2, UploadIsSound, PTL DEF Spec

-----------------------------------------------------------------------------
(* Refinement: each answer is one step of UploadContract, a crash is its   *)
(* Die, and everything else stutters.                                      *)
LEMMA ContractInit == Init => Contract!Init
  BY DEF Init, Contract!Init

(* Before its answer a request is open, for the contract too.              *)
LEMMA OpenRequests ==
    ASSUME UploadInv, NEW r \in Requests, pc[r] \notin {"answered", "gone"}
    PROVE  Contract!Open(r)
  BY DEF Contract!Open, UploadInv, UploadPart, PlacePart, DownloadPart, Uploaders

LEMMA ReplyOf ==
    ASSUME UploadInv, NEW r \in Requests, pc[r] \notin {"answered", "gone"},
           NEW codes, NEW code \in codes, Answer(r, code)
    PROVE  Contract!Reply(r, codes)
<1>1. {s \in Requests : pc[s] = "gone"}' = {s \in Requests : pc[s] = "gone"}
  BY DEF Answer, UploadInv, TypeInv, PcType
<1> QED
  BY <1>1, OpenRequests DEF Contract!Reply, Answer

(* The request goes on, and no photo becomes available.                    *)
LEMMA StutterOf ==
    ASSUME TypeInv, rows \subseteq objects, rows' \subseteq objects',
           UNCHANGED <<rows, response>>,
           \/ UNCHANGED pc
           \/ \E r \in Requests : /\ pc[r] # "gone"
                                  /\ \E place \in {"connecting", "saving", "compensating", "reading"} :
                                       pc' = [pc EXCEPT ![r] = place]
    PROVE  UNCHANGED Contract!vars
<1>1. {s \in Requests : pc[s] = "gone"}' = {s \in Requests : pc[s] = "gone"}
  BY DEF TypeInv, PcType
<1> QED
  BY <1>1 DEF Contract!vars

LEMMA ContractStep ==
    ASSUME UploadInv, RowHasObject, RowHasObject', [Next]_vars
    PROVE  [Contract!Next]_(Contract!vars)
<1> USE DEF RowHasObject
<1>0. TypeInv
  BY DEF UploadInv
<1>a. rows \cap objects = rows /\ rows' \cap objects' = rows'
  OBVIOUS
<1>b. \A r \in Requests : Contract!PhotosOf(r) = FilesOf(r)
                          /\ (Contract!IsDownload(r) <=> r \in Downloads)
  BY DEF Contract!PhotosOf, FilesOf, Contract!IsDownload, Downloads
<1>1. ASSUME NEW r \in Requests, Receive(r)
      PROVE  Contract!Refuse(r) \/ UNCHANGED Contract!vars
  <2>1. PICK bs \in [1..Len(Files[r]) -> Bodies] :
            IF Refusal(r, bs) # 0
              THEN Answer(r, Refusal(r, bs))
              ELSE pc' = [pc EXCEPT ![r] = "connecting"] /\ UNCHANGED response
    BY <1>1 DEF Receive
  <2>2. Refusal(r, bs) \in {0, 400, 413, 415} /\ pc[r] = "received" /\ r \in Uploaders
        /\ UNCHANGED <<rows, objects>>
    BY <1>1, RefusalIsRight DEF Receive, storeVars
  <2>3. CASE Refusal(r, bs) # 0
    <3>0. /\ Refusal(r, bs) \in {400, 413, 415, 503} /\ Answer(r, Refusal(r, bs))
          /\ pc[r] \notin {"answered", "gone"}
      BY <2>1, <2>2, <2>3
    <3>1. Contract!Reply(r, {400, 413, 415, 503})
      BY <3>0, ReplyOf
    <3> QED
      BY <1>b, <2>2, <3>1 DEF Contract!Refuse, Uploaders
  <2>4. CASE Refusal(r, bs) = 0
    BY <1>0, <2>1, <2>2, <2>4, StutterOf
  <2> QED
    BY <2>3, <2>4
<1>2. ASSUME NEW r \in Requests, Connect(r) \/ Ask(r)
      PROVE  UNCHANGED Contract!vars
  BY <1>0, <1>2, StutterOf DEF Connect, Ask, storeVars
<1>3. ASSUME NEW r \in Requests,
             pc[r] \notin {"answered", "gone"}, Answer(r, 500), UNCHANGED rows
      PROVE  Contract!Fail(r) \/ Contract!DownloadFails(r)
  <2>1. Contract!Reply(r, {500}) /\ Contract!Reply(r, {500, 503})
    BY <1>3, ReplyOf
  <2> QED
    BY <1>3, <2>1 DEF Contract!Fail, Contract!DownloadFails
<1>4. ASSUME NEW r \in Requests, NEW p \in Photos, SaveFile(r, p) \/ DeleteFile(r, p)
      PROVE  UNCHANGED Contract!vars
  BY <1>0, <1>4, StutterOf DEF SaveFile, DeleteFile
<1>5. ASSUME NEW r \in Requests, AnswerUnavailable(r)
      PROVE  Contract!Refuse(r)
  <2>1. /\ pc[r] = "compensating" /\ Answer(r, 503) /\ UNCHANGED <<rows, objects>>
    BY <1>5 DEF AnswerUnavailable, storeVars
  <2>2. r \notin Downloads
    BY <2>1 DEF UploadInv, DownloadPart
  <2>3. Contract!Reply(r, {400, 413, 415, 503})
    BY <2>1, ReplyOf
  <2> QED
    BY <1>b, <2>1, <2>2, <2>3 DEF Contract!Refuse
<1>6. ASSUME NEW r \in Requests, Commit(r)
      PROVE  Contract!Accept(r)
  <2>1. pc[r] = "saving" /\ Answer(r, 202) /\ rows' = rows \cup FilesOf(r)
    BY <1>6 DEF Commit
  <2>2. r \notin Downloads
    BY <2>1 DEF UploadInv, DownloadPart
  <2>3. Contract!Reply(r, {202})
    BY <2>1, ReplyOf
  <2> QED
    BY <1>a, <1>b, <2>1, <2>2, <2>3 DEF Contract!Accept
<1>7. ASSUME NEW r \in Requests, CommitFails(r)
      PROVE  Contract!Fail(r)
  <2>1. pc[r] = "saving" /\ Answer(r, 500) /\ rows' \in {rows, rows \cup FilesOf(r)}
    BY <1>7 DEF CommitFails
  <2>2. r \notin Downloads
    BY <2>1 DEF UploadInv, DownloadPart
  <2>3. Contract!Reply(r, {500})
    BY <2>1, ReplyOf
  <2> QED
    BY <1>a, <1>b, <2>1, <2>2, <2>3 DEF Contract!Fail
<1>8. ASSUME NEW r \in Requests, Find(r)
      PROVE  Contract!Miss(r) \/ UNCHANGED Contract!vars
  <2>1. /\ r \in Downloads /\ pc[r] = "connecting" /\ UNCHANGED <<rows, objects>>
        /\ Proceed(r, FilesOf(r) \subseteq rows)
    BY <1>8 DEF Find, storeVars
  <2>2. CASE FilesOf(r) \subseteq rows
    BY <1>0, <2>1, <2>2, StutterOf DEF Proceed
  <2>3. CASE ~(FilesOf(r) \subseteq rows)
    <3>1. Len(Files[r]) = 1
      BY <2>1, UploadAssumption DEF Downloads
    <3>2. FilesOf(r) \cap rows = {}
      BY <2>3, <3>1 DEF FilesOf
    <3>3. Contract!Reply(r, {404})
      BY <2>1, <2>3, ReplyOf DEF Proceed
    <3> QED
      BY <1>a, <1>b, <2>1, <3>2, <3>3 DEF Contract!Miss
  <2> QED
    BY <2>2, <2>3
<1>9. ASSUME NEW r \in Requests, ReadObject(r)
      PROVE  Contract!Serve(r)
  <2>1. /\ pc[r] = "reading" /\ UNCHANGED <<rows, objects>>
        /\ Answer(r, IF FilesOf(r) \subseteq objects THEN 200 ELSE 404)
    BY <1>9 DEF ReadObject, storeVars
  <2>2. r \in Downloads /\ FilesOf(r) \subseteq rows
    BY <2>1 DEF UploadInv, UploadPart, PlacePart, DownloadPart, Uploaders
  <2>3. Answer(r, 200)
    BY <2>1, <2>2
  <2>4. Contract!Reply(r, {200})
    BY <2>1, <2>3, ReplyOf
  <2> QED
    BY <1>a, <1>b, <2>1, <2>2, <2>4 DEF Contract!Serve
<1>10. ASSUME NEW r \in Requests, ReadUnavailable(r)
       PROVE  Contract!DownloadFails(r)
  <2>1. pc[r] = "reading" /\ Answer(r, 503) /\ UNCHANGED <<rows, objects>>
    BY <1>10 DEF ReadUnavailable, storeVars
  <2>2. r \in Downloads
    BY <2>1 DEF UploadInv, UploadPart, PlacePart, Uploaders
  <2>3. Contract!Reply(r, {500, 503})
    BY <2>1, ReplyOf
  <2> QED
    BY <1>b, <2>1, <2>2, <2>3 DEF Contract!DownloadFails
<1>11. ASSUME NEW r \in Requests, NEW p \in Photos,
              SaveUnavailable(r, p) \/ SaveTimesOut(r, p) \/ DeleteSwallowed(r, p)
       PROVE  UNCHANGED Contract!vars
  BY <1>0, <1>11, StutterOf
     DEF SaveUnavailable, SaveTimesOut, DeleteSwallowed, Rollback, Saving, storeVars
<1>12. ASSUME NEW p \in Photos, ThreadEnds(p)
       PROVE  UNCHANGED Contract!vars
  BY <1>0, <1>12, StutterOf DEF ThreadEnds, requestVars
<1>13. CASE UNCHANGED vars
  BY <1>0, <1>13, StutterOf DEF vars, storeVars, requestVars
<1>14. ASSUME Crash
       PROVE  Contract!Die
  <2> DEFINE Gone == {r \in Requests : pc[r] = "gone"}
             Lost == {r \in Requests : pc[r] \notin {"received", "answered", "gone"}}
  <2>1. PICK C \in SUBSET Committing : rows' = rows \cup UNION {FilesOf(r) : r \in C}
    BY <1>14 DEF Crash
  <2>2. \A r \in Requests :
          pc'[r] = IF pc[r] \in {"received", "answered"} THEN pc[r] ELSE "gone"
    BY <1>14 DEF Crash
  <2>3. Gone' = Gone \cup Lost
    BY <2>2
  <2>4. Lost \in SUBSET {r \in Requests : Contract!Open(r)}
    BY OpenRequests
  <2>5. C \in SUBSET {r \in Gone' \ Gone : ~Contract!IsDownload(r)}
    BY <1>b, <2>2 DEF Committing, Uploaders
  <2>6. (rows \cap objects)' = (rows \cap objects) \cup UNION {Contract!PhotosOf(r) : r \in C}
    <3>1. C \subseteq Requests
      BY DEF Committing, Uploaders
    <3> QED
      BY <1>a, <1>b, <2>1, <3>1
  <2>7. UNCHANGED response
    BY <1>14 DEF Crash
  <2> HIDE DEF Lost
  <2> QED
    BY <2>3, <2>4, <2>5, <2>6, <2>7 DEF Contract!Die
<1>15. ASSUME NEW r \in Requests, RequestStep(r)
       PROVE  Contract!Next \/ UNCHANGED Contract!vars
  <2>1. PoolTimeout(r) => Contract!Next
    BY <1>3 DEF PoolTimeout, storeVars, Contract!Next
  <2> QED
    BY <1>1, <1>2, <1>4, <1>5, <1>6, <1>8, <1>9, <1>15, <2>1 DEF RequestStep, Contract!Next
<1>16. ASSUME NEW r \in Requests, RequestFails(r)
       PROVE  Contract!Next \/ UNCHANGED Contract!vars
  <2>1. ASSUME NEW p \in Photos, SaveRaises(r, p) \/ DeleteRaises(r, p)
        PROVE  Contract!Next
    BY <1>3, <2>1 DEF SaveRaises, DeleteRaises, Saving, Deleting, Contract!Next
  <2>2. FlushFails(r) \/ FindFails(r) \/ ReadRaises(r) => Contract!Next
    BY <1>3 DEF FlushFails, FindFails, ReadRaises, Saving, storeVars, Contract!Next
  <2> QED
    BY <1>7, <1>10, <1>11, <1>16, <2>1, <2>2 DEF RequestFails, Contract!Next
<1> QED
  BY <1>12, <1>13, <1>14, <1>15, <1>16 DEF Next, Contract!Next

(* Seen from their answers, the endpoints behave as UploadContract, for    *)
(* any number of concurrent uploads and downloads, faults and crashes.     *)
THEOREM UploadImplementsContract == Spec => ImplementsContract
<1>1. UploadInv /\ RowHasObject /\ RowHasObject' /\ [Next]_vars
        => [Contract!Next]_(Contract!vars)
  BY ContractStep
<1> QED
  BY <1>1, ContractInit, UploadIsSound, RowsHaveObjects, PTL
     DEF Spec, ImplementsContract, Contract!Spec

(* The contract by itself makes a photo available once and for all, so the *)
(* endpoints do: whatever is compensated, cancelled or lost later, a photo *)
(* that can be listed and downloaded stays so.                             *)
THEOREM AvailableForEver == Spec => [][rows \cap objects \subseteq (rows \cap objects)']_vars
<1>1. [Contract!Next]_(Contract!vars) => rows \cap objects \subseteq (rows \cap objects)'
  BY DEF Contract!Next, Contract!Accept, Contract!Refuse, Contract!Fail, Contract!Serve,
         Contract!Miss, Contract!DownloadFails, Contract!Die, Contract!vars
<1> QED
  BY <1>1, UploadImplementsContract, PTL DEF ImplementsContract, Contract!Spec
=============================================================================
