----------------------------- MODULE ReadProofs -----------------------------
(***************************************************************************)
(* Theorems about BatchReads, for every set of photos and of handlers and  *)
(* whatever the analyzer says of each photo.                               *)
(***************************************************************************)
EXTENDS BatchReads, FiniteSetTheorems, TLAPS

USE BatchAssumption

(* What a handler has read stays true of the rows: a status it has seen as *)
(* terminal is still the status, and a batch it has seen is still there.   *)
RowsInv ==
    /\ status \in [Photos -> {Rows!Absent, Rows!Pending, Rows!Processing, Rows!Done,
                              Rows!Failed}]
    /\ \A p \in Photos : status[p] = Rows!Done <=> p \in analysis
    /\ batchStatus \in {"absent", "processing", "completed"}
    /\ \A p \in Batch : status[p] = Rows!Absent <=> batchStatus = "absent"

ReadersInv ==
    /\ pc \in [Readers -> {"idle", "batch read", "photos read", "completing", "answered"}]
    /\ want \in [Readers -> SUBSET Photos]
    /\ seenBatch \in [Readers -> {"none", "processing", "completed"}]
    /\ seen \in [Readers -> [Photos -> {Rows!Absent, Rows!Pending, Rows!Processing,
                                        Rows!Done, Rows!Failed}]]
    /\ got \in [Readers -> SUBSET Photos]

(* How far each handler is, and what it therefore knows.                   *)
ReaderKnows(r) ==
    /\ \A p \in Photos : seen[r][p] # Rows!Absent => p \in want[r]
    /\ \A p \in Photos : seen[r][p] \in Rows!Terminal => status[p] = seen[r][p]
    /\ pc[r] \in {"idle", "batch read"} => \A p \in Photos : seen[r][p] = Rows!Absent
    /\ pc[r] = "idle" => seenBatch[r] = "none"
    /\ pc[r] = "batch read" => seenBatch[r] # "none"
    /\ pc[r] = "completing" => seenBatch[r] = "processing" /\ AllTerminal(r)
    /\ seenBatch[r] # "none" => want[r] = Batch
    /\ seenBatch[r] = "completed" => batchStatus = "completed"
    /\ seenBatch[r] = "completed" /\ pc[r] # "batch read" => AllTerminal(r)
    /\ pc[r] \in {"completing", "answered"} =>
         \A p \in Photos : seen[r][p] \in Rows!Terminal =>
             (p \in got[r] <=> seen[r][p] = Rows!Done)

ReadInv ==
    /\ RowsInv
    /\ ReadersInv
    /\ StoredBatchIsRight
    /\ \A r \in Readers : ReaderKnows(r)

(* A handler that has seen every photo of the batch terminal picks the     *)
(* best of all that are done.                                              *)
LEMMA BestIsTrueBest ==
    ASSUME RowsInv, ReadersInv, NEW r \in Readers, ReaderKnows(r),
           AllTerminal(r), want[r] = Batch,
           pc[r] \in {"completing", "answered"}
    PROVE  /\ \A p \in Batch : status[p] \in Rows!Terminal
           /\ SelectBest(Candidates(r)) = TrueBest
<1>1. \A p \in Batch : p \in Photos /\ seen[r][p] \in Rows!Terminal /\ status[p] = seen[r][p]
  BY DEF ReaderKnows, AllTerminal
<1>2. Candidates(r) = {p \in Batch : status[p] = Rows!Done}
  BY <1>1 DEF Candidates, ReaderKnows, Rows!Terminal
<1> QED
  BY <1>1, <1>2 DEF TrueBest

(* The rest of the service never takes back what a reader relies on.       *)
LEMMA RowsAdvance ==
    ASSUME RowsInv,
           \/ AcceptBatch
           \/ \E p \in Photos : AcceptPhoto(p) \/ Analyze(p)
    PROVE  /\ RowsInv'
           /\ \A p \in Photos : status[p] \in Rows!Terminal => status'[p] = status[p]
           /\ batchStatus = "completed" => UNCHANGED <<batchStatus, bestPhoto>>
           /\ UNCHANGED readerVars
<1> USE DEF RowsInv, Rows!Absent, Rows!Pending, Rows!Processing, Rows!Done, Rows!Failed,
            Rows!Terminal
<1>1. CASE AcceptBatch
  BY <1>1 DEF AcceptBatch, Rows!Accept
<1>2. CASE \E p \in Photos : AcceptPhoto(p)
  BY <1>2 DEF AcceptPhoto, Rows!Accept
<1>3. CASE \E p \in Photos : Analyze(p)
  <2> SUFFICES ASSUME NEW p \in Photos, Analyze(p)
               PROVE  /\ RowsInv'
                      /\ \A q \in Photos : status[q] \in Rows!Terminal => status'[q] = status[q]
                      /\ UNCHANGED <<batchStatus, bestPhoto, readerVars>>
    BY <1>3
  <2>1. CASE Rows!Start(p)
    BY <2>1 DEF Analyze, Rows!Start
  <2>2. CASE Rows!Complete(p)
    BY <2>2 DEF Analyze, Rows!Complete
  <2>3. CASE Rows!GiveUp(p)
    BY <2>3 DEF Analyze, Rows!GiveUp
  <2> QED
    BY <2>1, <2>2, <2>3 DEF Analyze
<1> QED
  BY <1>1, <1>2, <1>3

(* A right batch row stays right when its photos' rows move on.            *)
LEMMA StoredStaysRight ==
    ASSUME RowsInv, StoredBatchIsRight, batchStatus = "completed",
           \A p \in Photos : status[p] \in Rows!Terminal => status'[p] = status[p],
           UNCHANGED <<batchStatus, bestPhoto>>
    PROVE  StoredBatchIsRight'
<1>1. \A p \in Batch : status[p] \in Rows!Terminal /\ status'[p] = status[p]
  BY DEF StoredBatchIsRight
<1>2. {p \in Batch : status'[p] = Rows!Done} = {p \in Batch : status[p] = Rows!Done}
  BY <1>1
<1>3. TrueBest' = TrueBest
  BY <1>2 DEF TrueBest
<1> QED
  BY <1>1, <1>3 DEF StoredBatchIsRight, Rows!Terminal, Rows!Done, Rows!Failed

(* The batch row is written once every photo is decided, and with the best *)
(* of them; a second write stores the same.                                *)
LEMMA WriteIsRight ==
    ASSUME ReadInv, NEW r \in Readers, pc[r] = "completing", WriteBatch(r),
           UNCHANGED <<status, analysis>>
    PROVE  /\ RowsInv'
           /\ StoredBatchIsRight'
           /\ batchStatus' = "completed"
           /\ batchStatus = "completed" => bestPhoto' = bestPhoto
<1>1. want[r] = Batch /\ AllTerminal(r)
  BY DEF ReadInv, ReaderKnows
<1>2. /\ \A p \in Batch : status[p] \in Rows!Terminal
      /\ SelectBest(Candidates(r)) = TrueBest
  BY <1>1, BestIsTrueBest DEF ReadInv
<1>3. batchStatus' = "completed" /\ bestPhoto' = TrueBest
  BY <1>2 DEF WriteBatch
<1>4. TrueBest' = TrueBest
  BY DEF TrueBest
<1>5. RowsInv'
  <2>1. \A p \in Batch : status[p] # Rows!Absent
    BY <1>2 DEF Rows!Terminal, Rows!Absent, Rows!Done, Rows!Failed
  <2> QED
    BY <1>3, <2>1 DEF ReadInv, RowsInv
<1>6. StoredBatchIsRight'
  BY <1>2, <1>3, <1>4 DEF StoredBatchIsRight, Rows!Terminal, Rows!Done, Rows!Failed
<1>7. batchStatus = "completed" => bestPhoto' = bestPhoto
  BY <1>3 DEF ReadInv, StoredBatchIsRight
<1> QED
  BY <1>3, <1>5, <1>6, <1>7

(* A handler that does nothing still knows what it knew.                   *)
LEMMA KnowledgeLasts ==
    ASSUME ReadInv, NEW r \in Readers,
           \A p \in Photos : status[p] \in Rows!Terminal => status'[p] = status[p],
           batchStatus = "completed" => batchStatus' = "completed",
           pc'[r] = pc[r], want'[r] = want[r], seenBatch'[r] = seenBatch[r],
           seen'[r] = seen[r], got'[r] = got[r]
    PROVE  ReaderKnows(r)'
<1>1. ReaderKnows(r)
  BY DEF ReadInv
<1>2. \A p \in Photos : seen[r][p] \in Rows!Terminal => status'[p] = seen[r][p]
  BY <1>1 DEF ReaderKnows, Rows!Terminal, Rows!Done, Rows!Failed
<1>3. AllTerminal(r)' <=> AllTerminal(r)
  BY DEF AllTerminal, Rows!Terminal, Rows!Done, Rows!Failed
<1> QED
  BY <1>1, <1>2, <1>3 DEF ReaderKnows, Rows!Terminal, Rows!Done, Rows!Failed, Rows!Absent

(* A handler that is done, or has failed, knows nothing, and needs not to. *)
LEMMA EndKnowsNothing ==
    ASSUME ReadersInv, NEW r \in Readers, End(r)
    PROVE  /\ ReadersInv'
           /\ ReaderKnows(r)'
           /\ \A s \in Readers \ {r} :
                /\ pc'[s] = pc[s] /\ want'[s] = want[s] /\ got'[s] = got[s]
                /\ seenBatch'[s] = seenBatch[s] /\ seen'[s] = seen[s]
<1> USE DEF Rows!Absent, Rows!Pending, Rows!Processing, Rows!Done, Rows!Failed
<1>1. Unread \in [Photos -> {Rows!Absent, Rows!Pending, Rows!Processing,
                             Rows!Done, Rows!Failed}]
  BY DEF Unread
<1>2. ReadersInv'
  BY <1>1 DEF End, ReadersInv
<1>3. /\ pc'[r] = "idle" /\ want'[r] = {} /\ seenBatch'[r] = "none"
      /\ \A p \in Photos : seen'[r][p] = Rows!Absent
  BY DEF End, ReadersInv, Unread
<1>4. ReaderKnows(r)'
  BY <1>3 DEF ReaderKnows, Rows!Terminal
<1>5. \A s \in Readers \ {r} :
        /\ pc'[s] = pc[s] /\ want'[s] = want[s] /\ got'[s] = got[s]
        /\ seenBatch'[s] = seenBatch[s] /\ seen'[s] = seen[s]
  BY DEF End, ReadersInv
<1> QED
  BY <1>2, <1>4, <1>5

(* The state of the handlers other than r does not change.                 *)
OthersRest(r) ==
    \A s \in Readers \ {r} :
        /\ pc'[s] = pc[s] /\ want'[s] = want[s] /\ got'[s] = got[s]
        /\ seenBatch'[s] = seenBatch[s] /\ seen'[s] = seen[s]

(* It is enough to look at the handler that takes a step, when the step    *)
(* leaves the tables alone.                                                *)
LEMMA OneReads ==
    ASSUME ReadInv, NEW r \in Readers, OthersRest(r), UNCHANGED tableVars,
           ReadersInv', ReaderKnows(r)'
    PROVE  ReadInv'
<1>1. RowsInv'
  BY DEF ReadInv, RowsInv, tableVars
<1>2. StoredBatchIsRight'
  <2>1. TrueBest' = TrueBest
    BY DEF TrueBest, tableVars
  <2> QED
    BY <2>1 DEF ReadInv, StoredBatchIsRight, tableVars
<1>3. ASSUME NEW s \in Readers PROVE ReaderKnows(s)'
  <2>1. CASE s = r
    BY <2>1
  <2>2. CASE s # r
    BY <2>2, KnowledgeLasts DEF OthersRest, tableVars
  <2> QED
    BY <2>1, <2>2
<1> QED
  BY <1>1, <1>2, <1>3 DEF ReadInv

(* A snapshot is of the rows as they are.                                  *)
LEMMA SnapshotIsTrue ==
    ASSUME RowsInv, NEW S
    PROVE  /\ Snapshot(S) \in [Photos -> {Rows!Absent, Rows!Pending, Rows!Processing,
                                         Rows!Done, Rows!Failed}]
           /\ \A p \in Photos : Snapshot(S)[p] # Rows!Absent => p \in S
           /\ \A p \in Photos : Snapshot(S)[p] # Rows!Absent => Snapshot(S)[p] = status[p]
           /\ \A p \in S \cap Photos : Snapshot(S)[p] = status[p]
  BY DEF Snapshot, RowsInv

(* The initial states satisfy the invariant: nothing is stored or read.    *)
LEMMA ReadInvInit == Init => ReadInv
<1> SUFFICES ASSUME Init PROVE ReadInv
  OBVIOUS
<1> USE DEF Rows!Absent, Rows!Pending, Rows!Processing, Rows!Done, Rows!Failed, Rows!Terminal
<1>1. RowsInv
  BY DEF Init, Rows!Init, RowsInv
<1>2. ReadersInv
  BY DEF Init, Unread, ReadersInv
<1>3. StoredBatchIsRight
  BY DEF Init, StoredBatchIsRight
<1>4. \A r \in Readers : ReaderKnows(r)
  BY DEF Init, Unread, ReaderKnows
<1> QED
  BY <1>1, <1>2, <1>3, <1>4 DEF ReadInv

(* get_photo and list_photos read rows.                                    *)
LEMMA ReadPhotosKeeps ==
    ASSUME ReadInv, NEW r \in Readers, NEW S \in SUBSET Photos, ReadPhotos(r, S)
    PROVE  ReadInv'
<1> USE DEF Rows!Absent, Rows!Done, Rows!Failed, Rows!Terminal
<1>1. OthersRest(r) /\ UNCHANGED tableVars
  BY DEF ReadPhotos, OthersRest, ReadInv, ReadersInv
<1>2. ReadersInv'
  BY SnapshotIsTrue DEF ReadPhotos, ReadInv, ReadersInv
<1>3. /\ pc'[r] = "photos read" /\ want'[r] = S /\ seenBatch'[r] = "none"
      /\ seen'[r] = Snapshot(S) /\ status' = status
  <2>1. pc[r] = "idle" /\ seenBatch[r] = "none"
    BY DEF ReadPhotos, ReadInv, ReaderKnows
  <2> QED
    BY <2>1 DEF ReadPhotos, ReadInv, ReadersInv, tableVars
<1>4. /\ \A p \in Photos : Snapshot(S)[p] # Rows!Absent => p \in S
      /\ \A p \in Photos : Snapshot(S)[p] \in Rows!Terminal => status[p] = Snapshot(S)[p]
  BY SnapshotIsTrue DEF ReadInv
<1>5. ReaderKnows(r)'
  BY <1>3, <1>4 DEF ReaderKnows
<1> QED
  BY <1>1, <1>2, <1>5, OneReads

(* get_batch reads the batch's row: when it says completed, all photos are *)
(* terminal already, whatever the snapshot of the photos will be.          *)
LEMMA ReadBatchKeeps ==
    ASSUME ReadInv, NEW r \in Readers, ReadBatch(r)
    PROVE  ReadInv'
<1>1. OthersRest(r) /\ UNCHANGED tableVars
  BY DEF ReadBatch, OthersRest, ReadInv, ReadersInv
<1>2. ReadersInv'
  BY DEF ReadBatch, ReadInv, ReadersInv, RowsInv
<1>3. /\ pc'[r] = "batch read" /\ want'[r] = Batch /\ seenBatch'[r] = batchStatus
      /\ batchStatus \in {"processing", "completed"}
      /\ seen'[r] = seen[r] /\ batchStatus' = batchStatus
  BY DEF ReadBatch, ReadInv, ReadersInv, RowsInv, tableVars
<1>4. \A p \in Photos : seen[r][p] = Rows!Absent
  BY DEF ReadBatch, ReadInv, ReaderKnows
<1>5. ReaderKnows(r)'
  BY <1>3, <1>4 DEF ReaderKnows, Rows!Terminal, Rows!Absent, Rows!Done, Rows!Failed
<1> QED
  BY <1>1, <1>2, <1>5, OneReads

(* get_batch reads the photos: of a completed batch, it finds all terminal.*)
LEMMA ReadBatchPhotosKeeps ==
    ASSUME ReadInv, NEW r \in Readers, ReadBatchPhotos(r)
    PROVE  ReadInv'
<1>1. OthersRest(r) /\ UNCHANGED tableVars
  BY DEF ReadBatchPhotos, OthersRest, ReadInv, ReadersInv
<1>2. ReadersInv'
  BY SnapshotIsTrue DEF ReadBatchPhotos, ReadInv, ReadersInv
<1>3. /\ pc[r] = "batch read" /\ pc'[r] = "photos read" /\ want'[r] = want[r]
      /\ seenBatch'[r] = seenBatch[r] /\ seen'[r] = Snapshot(want[r])
      /\ UNCHANGED <<status, batchStatus>>
  BY DEF ReadBatchPhotos, ReadInv, ReadersInv, tableVars
<1>4. /\ want[r] = Batch
      /\ seenBatch[r] = "completed" => batchStatus = "completed"
  BY <1>3 DEF ReadInv, ReaderKnows
<1>5. /\ \A p \in Photos : Snapshot(Batch)[p] # Rows!Absent => p \in Batch
      /\ \A p \in Photos : Snapshot(Batch)[p] \in Rows!Terminal
                             => status[p] = Snapshot(Batch)[p]
      /\ \A p \in Batch : Snapshot(Batch)[p] = status[p]
  BY SnapshotIsTrue DEF ReadInv, Rows!Terminal, Rows!Absent, Rows!Done, Rows!Failed
<1>6. seenBatch[r] = "completed" => AllTerminal(r)'
  BY <1>3, <1>4, <1>5 DEF ReadInv, StoredBatchIsRight, AllTerminal, Rows!Terminal,
     Rows!Done, Rows!Failed
<1>7. ReaderKnows(r)'
  <2>1. \A p \in Photos : seen'[r][p] \in Rows!Terminal => status'[p] = seen'[r][p]
    BY <1>3, <1>4, <1>5
  <2> QED
    BY <1>3, <1>4, <1>5, <1>6, <2>1
       DEF ReaderKnows, Rows!Terminal, Rows!Absent, Rows!Done, Rows!Failed
<1> QED
  BY <1>1, <1>2, <1>7, OneReads

(* The handler reads the analyses after the photos, so none is missing of  *)
(* a photo it has seen done; and it goes on to the write, or answers.      *)
LEMMA ReadAnalysesKeeps ==
    ASSUME ReadInv, NEW r \in Readers, ReadAnalyses(r)
    PROVE  ReadInv'
<1>1. OthersRest(r) /\ UNCHANGED tableVars
  BY DEF ReadAnalyses, OthersRest, ReadInv, ReadersInv
<1>2. ReaderKnows(r)
  BY DEF ReadInv
<1>3. /\ pc[r] = "photos read"
      /\ pc'[r] = IF seenBatch[r] = "processing" /\ AllTerminal(r)
                    THEN "completing" ELSE "answered"
      /\ got'[r] = analysis \cap want[r]
      /\ want'[r] = want[r] /\ seenBatch'[r] = seenBatch[r] /\ seen'[r] = seen[r]
      /\ status' = status /\ batchStatus' = batchStatus
  BY DEF ReadAnalyses, AnalysesOf, ReadInv, ReadersInv, tableVars
<1>4. ReadersInv'
  <2>1. analysis \cap want[r] \in SUBSET Photos
    BY DEF ReadInv, ReadersInv
  <2> QED
    BY <2>1 DEF ReadAnalyses, AnalysesOf, ReadInv, ReadersInv
<1>5. \A p \in Photos : seen[r][p] \in Rows!Terminal =>
        (p \in analysis \cap want[r] <=> seen[r][p] = Rows!Done)
  BY <1>2 DEF ReaderKnows, ReadInv, RowsInv, Rows!Terminal, Rows!Done, Rows!Failed,
     Rows!Absent
<1>6. AllTerminal(r)' <=> AllTerminal(r)
  BY <1>3 DEF AllTerminal, Rows!Terminal, Rows!Done, Rows!Failed
<1>7. ReaderKnows(r)'
  BY <1>2, <1>3, <1>5, <1>6
     DEF ReaderKnows, Rows!Terminal, Rows!Done, Rows!Failed, Rows!Absent
<1> QED
  BY <1>1, <1>4, <1>7, OneReads

(* The write is the only step of a handler that the others could notice.   *)
LEMMA MarkCompletedKeeps ==
    ASSUME ReadInv, NEW r \in Readers, MarkCompleted(r)
    PROVE  ReadInv'
<1>1. RowsInv' /\ StoredBatchIsRight' /\ batchStatus' = "completed"
  BY WriteIsRight DEF MarkCompleted
<1>2. ReadersInv'
  BY DEF MarkCompleted, ReadInv, ReadersInv
<1>3. ReaderKnows(r)'
  <2>1. ReaderKnows(r)
    BY DEF ReadInv
  <2>2. /\ pc[r] = "completing" /\ pc'[r] = "answered" /\ got'[r] = got[r]
        /\ want'[r] = want[r] /\ seenBatch'[r] = seenBatch[r] /\ seen'[r] = seen[r]
        /\ status' = status
    BY DEF MarkCompleted, ReadInv, ReadersInv
  <2>3. seenBatch[r] = "processing"
    BY <2>1, <2>2 DEF ReaderKnows
  <2> QED
    BY <1>1, <2>1, <2>2, <2>3
       DEF ReaderKnows, Rows!Terminal, Rows!Done, Rows!Failed, Rows!Absent
<1>4. ASSUME NEW s \in Readers, s # r PROVE ReaderKnows(s)'
  BY <1>1, <1>4, KnowledgeLasts DEF MarkCompleted, ReadInv, ReadersInv
<1> QED
  BY <1>1, <1>2, <1>3, <1>4 DEF ReadInv

(* A handler that fails may have written all the same.                     *)
LEMMA EndKeeps ==
    ASSUME ReadInv, NEW r \in Readers, Answer(r) \/ ReadFails(r)
    PROVE  ReadInv'
<1>1. /\ End(r)
      /\ \/ UNCHANGED tableVars
         \/ /\ pc[r] = "completing" /\ WriteBatch(r)
            /\ UNCHANGED <<status, analysis>>
  BY DEF Answer, ReadFails, tableVars
<1>2. ReadersInv' /\ ReaderKnows(r)' /\ OthersRest(r)
  BY <1>1, EndKnowsNothing DEF ReadInv, OthersRest
<1>3. CASE UNCHANGED tableVars
  BY <1>2, <1>3, OneReads
<1>4. CASE /\ pc[r] = "completing" /\ WriteBatch(r)
           /\ UNCHANGED <<status, analysis>>
  <2>1. RowsInv' /\ StoredBatchIsRight' /\ batchStatus' = "completed"
    BY <1>4, WriteIsRight
  <2>2. ASSUME NEW s \in Readers, s # r PROVE ReaderKnows(s)'
    BY <1>2, <1>4, <2>1, <2>2, KnowledgeLasts DEF OthersRest
  <2> QED
    BY <1>2, <2>1, <2>2 DEF ReadInv
<1> QED
  BY <1>1, <1>3, <1>4

(* Uploads and workers go on while handlers run: what a handler has seen   *)
(* terminal stays so.                                                      *)
LEMMA RestOfServiceKeeps ==
    ASSUME ReadInv,
           \/ AcceptBatch
           \/ \E p \in Photos : AcceptPhoto(p) \/ Analyze(p)
    PROVE  ReadInv'
<1>1. /\ RowsInv'
      /\ \A p \in Photos : status[p] \in Rows!Terminal => status'[p] = status[p]
      /\ batchStatus = "completed" => UNCHANGED <<batchStatus, bestPhoto>>
      /\ UNCHANGED readerVars
  BY RowsAdvance DEF ReadInv
<1>2. ReadersInv'
  BY <1>1 DEF ReadInv, ReadersInv, readerVars
<1>3. StoredBatchIsRight'
  <2>1. CASE batchStatus = "completed"
    BY <1>1, <2>1, StoredStaysRight DEF ReadInv
  <2>2. CASE batchStatus # "completed"
    <3>1. batchStatus' # "completed"
      BY <2>2 DEF AcceptBatch, AcceptPhoto, Analyze
    <3> QED
      BY <3>1 DEF StoredBatchIsRight
  <2> QED
    BY <2>1, <2>2
<1>4. ASSUME NEW r \in Readers PROVE ReaderKnows(r)'
  BY <1>1, KnowledgeLasts DEF readerVars
<1> QED
  BY <1>1, <1>2, <1>3, <1>4 DEF ReadInv

(* No step breaks the invariant.                                           *)
LEMMA ReadInvStep == ReadInv /\ [Next]_vars => ReadInv'
<1> SUFFICES ASSUME ReadInv, [Next]_vars PROVE ReadInv'
  OBVIOUS
<1>1. CASE AcceptBatch \/ \E p \in Photos : AcceptPhoto(p) \/ Analyze(p)
  BY <1>1, RestOfServiceKeeps
<1>2. ASSUME NEW r \in Readers, NEW S \in SUBSET Photos, ReadPhotos(r, S)
      PROVE  ReadInv'
  BY <1>2, ReadPhotosKeeps
<1>3. ASSUME NEW r \in Readers, ReadBatch(r) PROVE ReadInv'
  BY <1>3, ReadBatchKeeps
<1>4. ASSUME NEW r \in Readers, ReadBatchPhotos(r) PROVE ReadInv'
  BY <1>4, ReadBatchPhotosKeeps
<1>5. ASSUME NEW r \in Readers, ReadAnalyses(r) PROVE ReadInv'
  BY <1>5, ReadAnalysesKeeps
<1>6. ASSUME NEW r \in Readers, MarkCompleted(r) PROVE ReadInv'
  BY <1>6, MarkCompletedKeeps
<1>7. ASSUME NEW r \in Readers, Answer(r) \/ ReadFails(r) PROVE ReadInv'
  BY <1>7, EndKeeps
<1>8. CASE UNCHANGED vars
  <2>1. RowsInv' /\ ReadersInv'
    BY <1>8 DEF ReadInv, RowsInv, ReadersInv, vars, tableVars, readerVars
  <2>2. StoredBatchIsRight'
    <3>1. TrueBest' = TrueBest
      BY <1>8 DEF TrueBest, vars, tableVars
    <3> QED
      BY <1>8, <3>1 DEF ReadInv, StoredBatchIsRight, vars, tableVars
  <2>3. ASSUME NEW r \in Readers PROVE ReaderKnows(r)'
    BY <1>8, KnowledgeLasts DEF vars, tableVars, readerVars
  <2> QED
    BY <2>1, <2>2, <2>3 DEF ReadInv
<1> QED
  BY <1>1, <1>2, <1>3, <1>4, <1>5, <1>6, <1>7, <1>8 DEF Next

(* The inductive invariant of the reads.                                   *)
THEOREM ReadsAreSound == Spec => []ReadInv
  BY ReadInvInit, ReadInvStep, PTL DEF Spec

(* A batch's row says completed only when every photo of it is decided,    *)
(* and stores the best of the done ones.                                   *)
THEOREM CompletedBatchIsRight == Spec => []StoredBatchIsRight
<1>1. ReadInv => StoredBatchIsRight
  BY DEF ReadInv
<1> QED
  BY <1>1, ReadsAreSound, PTL

(* Every answer that shows all of a batch decided names the same photo.    *)
THEOREM AnswersAgree == Spec => []CompletedAnswersAgree
<1>1. ReadInv => CompletedAnswersAgree
  <2> SUFFICES ASSUME ReadInv, NEW r \in Readers,
                      pc[r] = "answered", seenBatch[r] # "none"
               PROVE  /\ AllTerminal(r) => SelectBest(Candidates(r)) = TrueBest
                      /\ seenBatch[r] = "completed" => AllTerminal(r)
    BY DEF CompletedAnswersAgree
  <2>1. ReaderKnows(r) /\ RowsInv /\ ReadersInv
    BY DEF ReadInv
  <2>2. want[r] = Batch /\ (seenBatch[r] = "completed" => AllTerminal(r))
    BY <2>1 DEF ReaderKnows
  <2>3. AllTerminal(r) => SelectBest(Candidates(r)) = TrueBest
    BY <2>1, <2>2, BestIsTrueBest
  <2> QED
    BY <2>2, <2>3
<1> QED
  BY <1>1, ReadsAreSound, PTL

(* No answer shows a photo as done without its analysis, or one that has   *)
(* failed with one.                                                        *)
THEOREM DoneComesWithAnalysis == Spec => []DoneIsShownWithAnalysis
<1>1. ReadInv => DoneIsShownWithAnalysis
  BY DEF ReadInv, ReaderKnows, DoneIsShownWithAnalysis
<1> QED
  BY <1>1, ReadsAreSound, PTL

(* Nothing rewrites the row of a completed batch, not even a handler that  *)
(* was on its way to complete it.                                          *)
THEOREM CompletedForGood == Spec => CompletionIsFinal
<1>1. ReadInv /\ [Next]_vars => [batchStatus = "completed" =>
                                   UNCHANGED <<batchStatus, bestPhoto>>]_vars
  <2> SUFFICES ASSUME ReadInv, Next, batchStatus = "completed"
               PROVE  UNCHANGED <<batchStatus, bestPhoto>>
    OBVIOUS
  <2>1. CASE AcceptBatch \/ \E p \in Photos : AcceptPhoto(p) \/ Analyze(p)
    BY <2>1, RowsAdvance DEF ReadInv
  <2>2. ASSUME NEW r \in Readers, pc[r] = "completing", WriteBatch(r),
               UNCHANGED <<status, analysis>>
        PROVE  UNCHANGED <<batchStatus, bestPhoto>>
    BY <2>2, WriteIsRight
  <2>3. ASSUME NEW r \in Readers,
               \/ \E S \in SUBSET Photos : ReadPhotos(r, S)
               \/ ReadBatch(r) \/ ReadBatchPhotos(r) \/ ReadAnalyses(r)
               \/ MarkCompleted(r) \/ Answer(r) \/ ReadFails(r)
        PROVE  UNCHANGED <<batchStatus, bestPhoto>>
    BY <2>2, <2>3 DEF ReadPhotos, ReadBatch, ReadBatchPhotos, ReadAnalyses,
       MarkCompleted, Answer, ReadFails, tableVars
  <2> QED
    BY <2>1, <2>3 DEF Next
<1> QED
  BY <1>1, ReadsAreSound, PTL DEF Spec, CompletionIsFinal

-----------------------------------------------------------------------------
(* Refinement: uploads and workers take the steps of BatchContract, the    *)
(* first write of a handler is its Decide, and all else stutters.          *)
LEMMA BatchInitRefines == Init => Contract!BatchInit
  BY DEF Init, Rows!Init, Contract!BatchInit, Contract!Init, Rows!Absent, Contract!Absent

(* The steps of the rows are those of PhotoLifecycle on both sides.        *)
LEMMA RowStepRefines ==
    ASSUME AcceptBatch \/ \E p \in Photos : AcceptPhoto(p) \/ Analyze(p)
    PROVE  Contract!BatchNext
<1> USE DEF Rows!Absent, Rows!Pending, Rows!Processing, Rows!Done, Rows!Failed,
            Contract!Absent, Contract!Pending, Contract!Processing, Contract!Done,
            Contract!Failed
<1>1. CASE AcceptBatch
  BY <1>1 DEF AcceptBatch, Rows!Accept, Contract!BatchNext, Contract!AcceptBatch,
              Contract!Accept
<1>2. ASSUME NEW p \in Photos, AcceptPhoto(p)
      PROVE  Contract!PhotoStep
  BY <1>2 DEF AcceptPhoto, Rows!Accept, Contract!PhotoStep, Contract!Accept
<1>3. ASSUME NEW p \in Photos, Analyze(p)
      PROVE  Contract!PhotoStep
  BY <1>3 DEF Analyze, Rows!Start, Rows!Complete, Rows!GiveUp, Contract!PhotoStep,
              Contract!Start, Contract!Complete, Contract!GiveUp
<1> QED
  BY <1>1, <1>2, <1>3 DEF Contract!BatchNext

(* A handler's write is the decision, or writes what is there already.     *)
LEMMA WriteRefines ==
    ASSUME ReadInv, NEW r \in Readers, pc[r] = "completing", WriteBatch(r),
           UNCHANGED <<status, analysis>>
    PROVE  [Contract!BatchNext]_(Contract!batchVars)
<1>1. want[r] = Batch /\ AllTerminal(r)
  BY DEF ReadInv, ReaderKnows
<1>2. /\ \A p \in Batch : status[p] \in Rows!Terminal
      /\ bestPhoto' = TrueBest /\ batchStatus' = "completed"
  BY <1>1, BestIsTrueBest DEF ReadInv, WriteBatch
<1>3. batchStatus \in {"processing", "completed"}
  BY <1>2 DEF ReadInv, RowsInv, Rows!Terminal, Rows!Absent, Rows!Done, Rows!Failed
<1>4. CASE batchStatus = "completed"
  BY <1>2, <1>4, WriteIsRight DEF Contract!batchVars, Contract!vars
<1>5. CASE batchStatus = "processing"
  BY <1>2, <1>5 DEF TrueBest, Contract!BatchNext, Contract!Decide, Contract!vars,
     Rows!Terminal, Rows!Done, Rows!Failed, Contract!Terminal, Contract!Done, Contract!Failed
<1> QED
  BY <1>3, <1>4, <1>5

(* The batch endpoint keeps its contract: though a handler decides from    *)
(* reads of several moments and others write too, a client sees one atomic *)
(* decision, made when every photo was decided.                            *)
THEOREM BatchReadsImplementContract == Spec => ImplementsBatchContract
<1>1. ReadInv /\ [Next]_vars => [Contract!BatchNext]_(Contract!batchVars)
  <2> SUFFICES ASSUME ReadInv, [Next]_vars
               PROVE  Contract!BatchNext \/ UNCHANGED Contract!batchVars
    OBVIOUS
  <2>1. CASE AcceptBatch \/ \E p \in Photos : AcceptPhoto(p) \/ Analyze(p)
    BY <2>1, RowStepRefines
  <2>2. CASE UNCHANGED tableVars
    BY <2>2 DEF tableVars, Contract!batchVars, Contract!vars
  <2>3. ASSUME NEW r \in Readers, MarkCompleted(r) \/ Answer(r) \/ ReadFails(r),
               ~UNCHANGED tableVars
        PROVE  Contract!BatchNext \/ UNCHANGED Contract!batchVars
    <3>1. pc[r] = "completing" /\ WriteBatch(r) /\ UNCHANGED <<status, analysis>>
      BY <2>3 DEF MarkCompleted, Answer, ReadFails, tableVars
    <3> QED
      BY <3>1, WriteRefines
  <2>4. ASSUME NEW r \in Readers,
               \/ \E S \in SUBSET Photos : ReadPhotos(r, S)
               \/ ReadBatch(r) \/ ReadBatchPhotos(r) \/ ReadAnalyses(r)
        PROVE  UNCHANGED tableVars
    BY <2>4 DEF ReadPhotos, ReadBatch, ReadBatchPhotos, ReadAnalyses
  <2> QED
    BY <2>1, <2>2, <2>3, <2>4 DEF Next, vars
<1> QED
  BY <1>1, BatchInitRefines, ReadsAreSound, PTL
     DEF Spec, ImplementsBatchContract, Contract!BatchSpec

-----------------------------------------------------------------------------
(* select_best_photo.                                                      *)

(* The sort key, field by field.                                           *)
LEMMA KeyFields ==
    ASSUME NEW p \in Photos
    PROVE  /\ Key(p)[1] = Result[p].is_blurred /\ Key(p)[2] = Result[p].blur_score
           /\ Key(p)[3] = -Result[p].faces_count /\ Key(p)[4] = CreatedAt[p]
           /\ Key(p)[5] = IdRank[p]
           /\ \A i \in 1..5 : Key(p)[i] \in Int
  BY DEF Key

(* It is a strict total order, since the photo id is the last key.         *)
LEMMA StrictOrder ==
    ASSUME NEW p \in Photos, NEW q \in Photos, NEW r \in Photos
    PROVE  /\ ~Precedes(p, p)
           /\ Precedes(p, q) /\ Precedes(q, r) => Precedes(p, r)
           /\ p # q => Precedes(p, q) \/ Precedes(q, p)
<1>1. /\ \A i \in 1..5 : Key(p)[i] \in Int
      /\ \A i \in 1..5 : Key(q)[i] \in Int
      /\ \A i \in 1..5 : Key(r)[i] \in Int
  BY KeyFields
<1>2. ~Precedes(p, p)
  BY <1>1 DEF Precedes
<1>3. ASSUME Precedes(p, q), Precedes(q, r)
      PROVE  Precedes(p, r)
  <2>1. PICK i \in 1..5 : Key(p)[i] < Key(q)[i] /\ \A j \in 1..(i - 1) : Key(p)[j] = Key(q)[j]
    BY <1>3 DEF Precedes
  <2>2. PICK k \in 1..5 : Key(q)[k] < Key(r)[k] /\ \A j \in 1..(k - 1) : Key(q)[j] = Key(r)[j]
    BY <1>3 DEF Precedes
  <2> DEFINE m == IF i <= k THEN i ELSE k
  <2>3. m \in 1..5 /\ m <= i /\ m <= k
    OBVIOUS
  <2>4. Key(p)[m] < Key(r)[m]
    <3>1. CASE i < k
      BY <1>1, <2>1, <2>2, <3>1
    <3>2. CASE i = k
      BY <1>1, <2>1, <2>2, <3>2
    <3>3. CASE k < i
      BY <1>1, <2>1, <2>2, <3>3
    <3> QED
      BY <3>1, <3>2, <3>3
  <2>5. \A j \in 1..(m - 1) : Key(p)[j] = Key(r)[j]
    BY <2>1, <2>2, <2>3
  <2> QED
    BY <2>3, <2>4, <2>5 DEF Precedes
<1>4. p # q => Key(p)[5] # Key(q)[5]
  BY KeyFields
<1>5. p # q => Precedes(p, q) \/ Precedes(q, p)
  <2> DEFINE Same(n) == \A j \in 1..n : Key(p)[j] = Key(q)[j]
  <2>2. ASSUME NEW n \in 1..5, Same(n - 1), Key(p)[n] # Key(q)[n]
        PROVE  Precedes(p, q) \/ Precedes(q, p)
    <3>1. Key(p)[n] < Key(q)[n] \/ Key(q)[n] < Key(p)[n]
      <4>1. Key(p)[n] \in Int /\ Key(q)[n] \in Int
        BY <1>1
      <4>2. \A a, b \in Int : a # b => a < b \/ b < a
        OBVIOUS
      <4> HIDE DEF Same
      <4> QED
        BY <2>2, <4>1, <4>2, Zenon
    <3>2. \A j \in 1..(n - 1) : Key(p)[j] = Key(q)[j] /\ Key(q)[j] = Key(p)[j]
      BY <2>2 DEF Same
    <3>3. CASE Key(p)[n] < Key(q)[n]
      BY <3>2, <3>3 DEF Precedes
    <3>4. CASE Key(q)[n] < Key(p)[n]
      BY <3>2, <3>4 DEF Precedes
    <3> QED
      BY <3>1, <3>3, <3>4
  <2>3. Same(0)
    OBVIOUS
  <2>4. \A n \in 1..5 : Same(n - 1) /\ Key(p)[n] = Key(q)[n] => Same(n)
    OBVIOUS
  <2> HIDE DEF Same
  <2> QED
    BY <1>4, <2>2, <2>3, <2>4
<1> QED
  BY <1>2, <1>3, <1>5

(* Of any photos with an analysis there is a best one, and it is the one   *)
(* that is selected: select_best_photo does not depend on their order.     *)
THEOREM BestIsSelected ==
    ASSUME NEW C \in SUBSET Batch, C # {}
    PROVE  SelectBest(C) \in C /\ \A q \in C \ {SelectBest(C)} : Precedes(SelectBest(C), q)
<1> DEFINE Before(p) == {q \in C : Precedes(q, p)}
           T == {Before(p) : p \in C}
<1>1. T \subseteq FiniteSubsetsOf(Photos) /\ T # {}
  <2>1. ASSUME NEW p \in C
        PROVE  Before(p) \in SUBSET Photos /\ IsFiniteSet(Before(p))
    <3>1. Before(p) \subseteq Batch
      OBVIOUS
    <3> HIDE DEF Before
    <3> QED
      BY <3>1, FS_Subset
  <2> HIDE DEF Before
  <2> QED
    BY <2>1 DEF FiniteSubsetsOf
<1>2. PICK X \in T : \A Y \in T : ~ (<<Y, X>> \in StrictSubsetOrdering(Photos))
  <2> HIDE DEF T
  <2> QED
    BY <1>1, FS_StrictSubsetOrderingWellFounded, WFMin
<1>3. PICK p \in C : X = Before(p)
  OBVIOUS
<1>4. ASSUME NEW q \in C, Precedes(q, p)
      PROVE  FALSE
  <2>1. Before(q) \subseteq Before(p) /\ q \in Before(p) /\ q \notin Before(q)
    BY <1>4, StrictOrder
  <2>2. <<Before(q), X>> \in StrictSubsetOrdering(Photos)
    <3> Before(q) \in SUBSET Photos /\ X \in SUBSET Photos
      BY <1>3
    <3> QED
      BY <1>3, <2>1 DEF StrictSubsetOrdering
  <2> QED
    BY <1>2, <2>2
<1>5. \A q \in C \ {p} : Precedes(p, q)
  BY <1>4, StrictOrder
<1> HIDE DEF Before, T
<1> QED
  BY <1>5 DEF SelectBest

-----------------------------------------------------------------------------
(* What TypeOK says beyond ReadInv.                                        *)
HoldsInv ==
    /\ analysis \subseteq Photos
    /\ bestPhoto \in Batch \cup {NoPhoto}
    /\ \A r \in Readers :
         /\ got[r] \subseteq want[r]
         /\ pc[r] \in {"idle", "batch read", "photos read"} => got[r] = {}

LEMMA BestType ==
    ASSUME NEW r \in Readers, want[r] = Batch
    PROVE  SelectBest(Candidates(r)) \in Batch \cup {NoPhoto}
<1>1. Candidates(r) \in SUBSET Batch
  BY DEF Candidates
<1>2. CASE Candidates(r) = {}
  BY <1>2 DEF SelectBest
<1>3. CASE Candidates(r) # {}
  BY <1>1, <1>3, BestIsSelected
<1> QED
  BY <1>2, <1>3

LEMMA HoldsStep ==
    ASSUME ReadInv, HoldsInv, [Next]_vars
    PROVE  HoldsInv'
<1> USE DEF HoldsInv
<1>0. /\ pc \in [Readers -> {"idle", "batch read", "photos read", "completing", "answered"}]
      /\ want \in [Readers -> SUBSET Photos] /\ got \in [Readers -> SUBSET Photos]
      /\ seen \in [Readers -> [Photos -> {Rows!Absent, Rows!Pending, Rows!Processing,
                                          Rows!Done, Rows!Failed}]]
  BY DEF ReadInv, ReadersInv
<1>1. CASE AcceptBatch \/ \E p \in Photos : AcceptPhoto(p) \/ Analyze(p)
  <2>1. analysis' \subseteq Photos /\ UNCHANGED <<bestPhoto, readerVars>>
    BY <1>1 DEF AcceptBatch, AcceptPhoto, Analyze, Rows!Accept, Rows!Start,
                Rows!Complete, Rows!GiveUp
  <2> QED
    BY <2>1 DEF readerVars
<1>2. ASSUME NEW r \in Readers,
             \/ \E S \in SUBSET Photos : ReadPhotos(r, S)
             \/ ReadBatch(r) \/ ReadBatchPhotos(r)
      PROVE  HoldsInv'
  <2>1. /\ UNCHANGED <<analysis, bestPhoto, got>> /\ got[r] = {}
        /\ \A s \in Readers \ {r} : pc'[s] = pc[s] /\ want'[s] = want[s]
    BY <1>0, <1>2 DEF ReadPhotos, ReadBatch, ReadBatchPhotos, tableVars
  <2> QED
    BY <2>1
<1>3. ASSUME NEW r \in Readers, ReadAnalyses(r)
      PROVE  HoldsInv'
  <2>1. /\ UNCHANGED <<analysis, bestPhoto, want>>
        /\ got'[r] = analysis \cap want[r] /\ pc'[r] \in {"completing", "answered"}
        /\ \A s \in Readers \ {r} : pc'[s] = pc[s] /\ got'[s] = got[s]
    BY <1>0, <1>3 DEF ReadAnalyses, AnalysesOf, tableVars
  <2> QED
    BY <2>1
<1>4. ASSUME NEW r \in Readers, pc[r] = "completing"
      PROVE  SelectBest(Candidates(r)) \in Batch \cup {NoPhoto}
  BY <1>4, BestType DEF ReadInv, ReaderKnows
<1>5. ASSUME NEW r \in Readers, MarkCompleted(r)
      PROVE  HoldsInv'
  <2>1. /\ UNCHANGED <<analysis, want, got>> /\ pc'[r] = "answered"
        /\ bestPhoto' \in Batch \cup {NoPhoto}
        /\ \A s \in Readers \ {r} : pc'[s] = pc[s]
    BY <1>0, <1>4, <1>5 DEF MarkCompleted, WriteBatch
  <2> QED
    BY <2>1
<1>6. ASSUME NEW r \in Readers, Answer(r) \/ ReadFails(r)
      PROVE  HoldsInv'
  <2>1. UNCHANGED analysis /\ bestPhoto' \in Batch \cup {NoPhoto} /\ End(r)
    BY <1>4, <1>6 DEF Answer, ReadFails, WriteBatch, tableVars
  <2>2. /\ got'[r] = {} /\ \A s \in Readers \ {r} :
             pc'[s] = pc[s] /\ want'[s] = want[s] /\ got'[s] = got[s]
    BY <1>0, <2>1 DEF End
  <2> QED
    BY <2>1, <2>2
<1>7. CASE UNCHANGED vars
  BY <1>7 DEF vars, tableVars, readerVars
<1> QED
  BY <1>1, <1>2, <1>3, <1>5, <1>6, <1>7 DEF Next

(* Tables and handlers keep their types; a handler holds analyses of the   *)
(* photos it asked for only, and the best photo is one of the batch.       *)
THEOREM ReadTypes == Spec => []TypeOK
<1>1. Init => HoldsInv
  BY DEF Init, Rows!Init, HoldsInv
<1>2. ReadInv /\ HoldsInv /\ [Next]_vars => HoldsInv'
  BY HoldsStep
<1>3. ReadInv /\ HoldsInv => TypeOK
  BY DEF ReadInv, RowsInv, ReadersInv, HoldsInv, TypeOK
<1> QED
  BY <1>1, <1>2, <1>3, ReadsAreSound, PTL DEF Spec
=============================================================================
