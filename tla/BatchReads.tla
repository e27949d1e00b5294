----------------------------- MODULE BatchReads -----------------------------
(***************************************************************************)
(* GET /v1/photos, /v1/photos/{id} and /v1/batches/{id}.  A handler reads  *)
(* with one SELECT per table, each with a snapshot of its own (the engine  *)
(* sets no isolation level: READ COMMITTED), while the workers go on; and  *)
(* a handler that finds every photo of a batch terminal writes what it     *)
(* computed from those reads into the batch's row.                         *)
(*                                                                         *)
(* The rows move as PhotoLifecycle says, which AnalysisPipeline implements.*)
(***************************************************************************)
EXTENDS Integers, FiniteSets

CONSTANTS
    Photos,
    Batch,          \* the photos of the one batch; the others are single
    Readers,        \* handlers that may run at the same time
    Result,         \* what the analyzer says of each photo
    CreatedAt,      \* photos.created_at
    IdRank,         \* the order of the photo ids, as uuids compare
    NoPhoto         \* best_photo_id is NULL

ASSUME BatchAssumption ==
    /\ Batch \subseteq Photos
    /\ Batch # {}
    /\ IsFiniteSet(Batch)
    /\ NoPhoto \notin Photos
    /\ Result \in [Photos -> [is_blurred : {0, 1}, blur_score : Nat, faces_count : Nat]]
    /\ CreatedAt \in [Photos -> Nat]
    /\ IdRank \in [Photos -> Nat]
    /\ \A p, q \in Photos : IdRank[p] = IdRank[q] => p = q

VARIABLES
    status,         \* photos.status, as committed
    analysis,       \* the photos with a row in analysis_results
    batchStatus,    \* batches.status
    bestPhoto,      \* batches.best_photo_id
    pc,             \* where each handler is
    want,           \* the photos it reads
    seenBatch,      \* batches.status as it read it; "none" for the photo reads
    seen,           \* photos.status as it read them; "absent" if it did not
    got             \* the photos whose analysis it read

tableVars == <<status, analysis, batchStatus, bestPhoto>>
readerVars == <<pc, want, seenBatch, seen, got>>
vars == <<tableVars, readerVars>>

Rows == INSTANCE PhotoLifecycle

Unread == [p \in Photos |-> Rows!Absent]

Init ==
    /\ Rows!Init
    /\ batchStatus = "absent"
    /\ bestPhoto = NoPhoto
    /\ pc = [r \in Readers |-> "idle"]
    /\ want = [r \in Readers |-> {}]
    /\ seenBatch = [r \in Readers |-> "none"]
    /\ seen = [r \in Readers |-> Unread]
    /\ got = [r \in Readers |-> {}]

-----------------------------------------------------------------------------
(* The rest of the service.                                                *)
AcceptBatch ==
    /\ Rows!Accept(Batch)
    /\ batchStatus' = "processing"
    /\ UNCHANGED <<bestPhoto, readerVars>>

AcceptPhoto(p) ==
    /\ p \notin Batch
    /\ Rows!Accept({p})
    /\ UNCHANGED <<batchStatus, bestPhoto, readerVars>>

Analyze(p) ==
    /\ Rows!Start(p) \/ Rows!Complete(p) \/ Rows!GiveUp(p)
    /\ UNCHANGED <<batchStatus, bestPhoto, readerVars>>

-----------------------------------------------------------------------------
(* select_best_photo: the least key among the photos read as done.         *)
Key(p) == <<Result[p].is_blurred, Result[p].blur_score, -Result[p].faces_count,
            CreatedAt[p], IdRank[p]>>

Precedes(p, q) ==
    \E i \in 1..5 : /\ Key(p)[i] < Key(q)[i]
                    /\ \A j \in 1..(i - 1) : Key(p)[j] = Key(q)[j]

SelectBest(candidates) ==
    IF candidates = {} THEN NoPhoto
    ELSE CHOOSE p \in candidates : \A q \in candidates \ {p} : Precedes(p, q)

Decided(r) ==               \* mutant: a failed photo may win
    {p \in want[r] : seen[r][p] \in Rows!Terminal}

Candidates(r) == {p \in want[r] : seen[r][p] = Rows!Done /\ p \in got[r]}

SomeTerminal(r) ==          \* mutant: one decided photo completes the batch
    \E p \in want[r] : seen[r][p] \in Rows!Terminal

AllTerminal(r) ==
    want[r] # {} /\ \A p \in want[r] : seen[r][p] \in Rows!Terminal

-----------------------------------------------------------------------------
(* SELECT ... FROM photos, by the loader of the handler; which analyses to *)
(* read follows from the photos found.                                     *)
Snapshot(S) == [p \in Photos |-> IF p \in S THEN status[p] ELSE Rows!Absent]

(* get_photo reads one row, list_photos a page of rows; a photo that is    *)
(* not there is a 404, and no change of state.                             *)
ReadPhotos(r, S) ==
    /\ pc[r] = "idle"
    /\ S # {}
    /\ \A p \in S : status[p] # Rows!Absent
    /\ want' = [want EXCEPT ![r] = S]
    /\ seen' = [seen EXCEPT ![r] = Snapshot(S)]
    /\ pc' = [pc EXCEPT ![r] = "photos read"]
    /\ UNCHANGED <<seenBatch, got, tableVars>>

ReadBatch(r) ==
    /\ pc[r] = "idle"
    /\ batchStatus # "absent"
    /\ seenBatch' = [seenBatch EXCEPT ![r] = batchStatus]
    /\ want' = [want EXCEPT ![r] = Batch]
    /\ pc' = [pc EXCEPT ![r] = "batch read"]
    /\ UNCHANGED <<seen, got, tableVars>>

(* Mutant: the analyses are read before the photos, so some that are there *)
(* by now are missing.                                                     *)
AnalysesFirst(r) ==
    /\ pc[r] = "batch read"
    /\ \E S \in SUBSET (analysis \cap want[r]) : got' = [got EXCEPT ![r] = S]
    /\ seen' = [seen EXCEPT ![r] = Snapshot(want[r])]
    /\ pc' = [pc EXCEPT ![r] =
                 IF \A p \in want[r] : status[p] \in Rows!Terminal THEN "completing"
                                                                  ELSE "answered"]
    /\ UNCHANGED <<want, seenBatch, tableVars>>

ReadBatchPhotos(r) ==
    /\ pc[r] = "batch read"
    /\ seen' = [seen EXCEPT ![r] = Snapshot(want[r])]
    /\ pc' = [pc EXCEPT ![r] = "photos read"]
    /\ UNCHANGED <<want, seenBatch, got, tableVars>>

EveryAnalysis(r) == analysis    \* mutant: the query has no WHERE

AnalysesOf(r) == analysis \cap want[r]

(* get_batch goes on to the write when it is the first to see the batch    *)
(* complete; every other handler answers.                                  *)
ReadAnalyses(r) ==
    /\ pc[r] = "photos read"
    /\ got' = [got EXCEPT ![r] = AnalysesOf(r)]
    /\ pc' = [pc EXCEPT ![r] = IF seenBatch[r] = "processing" /\ AllTerminal(r)
                                 THEN "completing" ELSE "answered"]
    /\ UNCHANGED <<want, seenBatch, seen, tableVars>>

WriteBatch(r) ==
    /\ batchStatus' = "completed"
    /\ bestPhoto' = SelectBest(Candidates(r))

MarkCompleted(r) ==
    /\ pc[r] = "completing"
    /\ WriteBatch(r)
    /\ pc' = [pc EXCEPT ![r] = "answered"]
    /\ UNCHANGED <<status, analysis, want, seenBatch, seen, got>>

(* The handler is done, and another request may take its place.            *)
End(r) ==
    /\ pc' = [pc EXCEPT ![r] = "idle"]
    /\ want' = [want EXCEPT ![r] = {}]
    /\ seenBatch' = [seenBatch EXCEPT ![r] = "none"]
    /\ seen' = [seen EXCEPT ![r] = Unread]
    /\ got' = [got EXCEPT ![r] = {}]

Answer(r) ==
    /\ pc[r] = "answered"
    /\ End(r)
    /\ UNCHANGED tableVars

(* A statement or the commit raises: 500; the commit may have taken effect.*)
ReadFails(r) ==
    /\ pc[r] \notin {"idle", "answered"}
    /\ End(r)
    /\ \/ UNCHANGED <<batchStatus, bestPhoto>>
       \/ pc[r] = "completing" /\ WriteBatch(r)
    /\ UNCHANGED <<status, analysis>>

Next ==
    \/ AcceptBatch
    \/ \E p \in Photos : AcceptPhoto(p) \/ Analyze(p)
    \/ \E r \in Readers :
         \/ \E S \in SUBSET Photos : ReadPhotos(r, S)
         \/ ReadBatch(r)
         \/ ReadBatchPhotos(r)
         \/ ReadAnalyses(r)
         \/ MarkCompleted(r)
         \/ Answer(r)
         \/ ReadFails(r)

Spec == Init /\ [][Next]_vars

-----------------------------------------------------------------------------
(* Types of the rows and of what a handler holds: it holds analyses of the *)
(* photos it asked for only.                                               *)
TypeOK ==
    /\ status \in [Photos -> {Rows!Absent, Rows!Pending, Rows!Processing, Rows!Done,
                              Rows!Failed}]
    /\ analysis \subseteq Photos
    /\ batchStatus \in {"absent", "processing", "completed"}
    /\ bestPhoto \in Batch \cup {NoPhoto}
    /\ pc \in [Readers -> {"idle", "batch read", "photos read", "completing", "answered"}]
    /\ want \in [Readers -> SUBSET Photos]
    /\ seenBatch \in [Readers -> {"none", "processing", "completed"}]
    /\ seen \in [Readers -> [Photos -> {Rows!Absent, Rows!Pending, Rows!Processing,
                                        Rows!Done, Rows!Failed}]]
    /\ \A r \in Readers : got[r] \subseteq want[r]

(* The best photo of the batch, of all that are done.                      *)
TrueBest == SelectBest({p \in Batch : status[p] = Rows!Done})

(* get_batch: the row of a completed batch is right, though it was         *)
(* computed from reads of three moments and may be written by several      *)
(* handlers: every photo is decided, and the best of the done ones stored. *)
StoredBatchIsRight ==
    batchStatus = "completed" =>
        /\ \A p \in Batch : status[p] \in Rows!Terminal
        /\ bestPhoto = TrueBest

(* mark_completed: writing a completed batch again changes nothing.        *)
CompletionIsFinal ==
    [][batchStatus = "completed" => UNCHANGED <<batchStatus, bestPhoto>>]_vars

(* get_batch: all answers that say "completed" give the same best photo,   *)
(* the right one, and a request that came after the completion gives it.   *)
CompletedAnswersAgree ==
    \A r \in Readers : pc[r] = "answered" /\ seenBatch[r] # "none" =>
        /\ AllTerminal(r) => SelectBest(Candidates(r)) = TrueBest
        /\ seenBatch[r] = "completed" => AllTerminal(r)

(* The loaders read a photo before its analysis, so an answer shows a      *)
(* decided photo with an analysis exactly if it is done: none is missing,  *)
(* and a photo that failed never shows one.                                *)
DoneIsShownWithAnalysis ==
    \A r \in Readers : pc[r] \in {"completing", "answered"} =>
        \A p \in Photos : seen[r][p] \in Rows!Terminal =>
            (p \in got[r] <=> seen[r][p] = Rows!Done)

(* get_batch: however the reads and the writes of several handlers fall,   *)
(* the batch is decided in one atomic step, by the first write; any other  *)
(* write changes nothing.                                                  *)
Contract == INSTANCE BatchContract WITH Best <- SelectBest

ImplementsBatchContract == Contract!BatchSpec

(* schemas/photos.py:31 says that the analysis is embedded in an answer    *)
(* "once the photo reaches status=done": an answer with an analysis shows  *)
(* the status done.                                                        *)
AnalysisOnlyOnceDone ==
    \A r \in Readers : pc[r] = "answered" =>
        \A p \in got[r] : seen[r][p] = Rows!Done
=============================================================================
