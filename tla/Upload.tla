------------------------------- MODULE Upload -------------------------------
(***************************************************************************)
(* POST /v1/photos, POST /v1/photos/batch and GET /v1/photos/{id}/content: *)
(* PhotoService.create_photo and create_batch write a database transaction *)
(* and MinIO objects that no transaction covers; get_photo_content reads a *)
(* row, and then its object.  Concurrent requests share the connection     *)
(* pool; a save that timed out goes on in its thread after the answer.     *)
(*                                                                         *)
(* A photo stands for its row, for its object key and for its object.      *)
(***************************************************************************)
EXTENDS Sequences, FiniteSets, Functions, Faults

CONSTANTS
    Requests,
    Photos,
    Endpoint,       \* "photo", "batch" or "content", of each request
    Files,          \* the photos it would create, in order, or asks for
    Bodies,         \* the file contents a client may send: [size, magic]
    MinBatchSize, MaxBatchSize,     \* MIN_BATCH_SIZE, MAX_BATCH_SIZE
    MaxFileSize, BatchMaxTotal,     \* MAX_FILE_SIZE_BYTES, BATCH_MAX_TOTAL_BYTES
    PoolSize        \* pool_size + max_overflow of the engine

Downloads == {r \in Requests : Endpoint[r] = "content"}
Uploaders == Requests \ Downloads

(* Object keys are built from fresh UUIDs: no two uploaded files share one. *)
(* The limit of a batch leaves room for as many files as it may have.      *)
ASSUME UploadAssumption ==
    /\ Endpoint \in [Requests -> {"photo", "batch", "content"}]
    /\ Files \in [Requests -> Seq(Photos)]
    /\ \A r \in Requests : Endpoint[r] # "batch" => Len(Files[r]) = 1
    /\ \A r, s \in Uploaders : \A i \in 1..Len(Files[r]), j \in 1..Len(Files[s]) :
         Files[r][i] = Files[s][j] => r = s /\ i = j
    /\ \A b \in Bodies : b.size \in Nat /\ b.magic \in {"jpeg", "png", "other"}
    /\ MaxFileSize \in Nat /\ MaxBatchSize \in Nat /\ BatchMaxTotal \in Nat
    /\ BatchMaxTotal >= MaxBatchSize * MaxFileSize
    /\ PoolSize \in Nat \ {0}

(* The faults that strike here.                                            *)
StorageError   == "storage_error"     \* a call of MinIO raises S3Error
TransportError == "transport_error"   \* it raises something else, as urllib3
                                      \* does for a host that is down
StorageSlow    == "storage_slow"      \* STORAGE_TIMEOUT_SECONDS pass
FlushError     == "flush_error"       \* an INSERT, or a SELECT, raises
CommitFailure  == "commit_failure"    \* session.commit() raises
ApiCrash       == "api_crash"         \* the API process is killed

VARIABLES
    rows,       \* photos whose row is committed
    objects,    \* photos whose object is in the bucket
    running,    \* photos whose save goes on in an abandoned thread
    logged,     \* objects reported by "failed to delete orphaned object"
    pc,         \* where each request is
    bodies,     \* the bodies of its files
    saved,      \* how many of its files it has saved (saved_object_keys)
    deleted,    \* how many of those its compensation has dealt with
    response    \* the status code of its answer, 0 before it

storeVars == <<rows, objects, running, logged>>
requestVars == <<pc, bodies, saved, deleted, response>>
vars == <<storeVars, requestVars, faults>>

FilesOf(r) == {Files[r][i] : i \in 1..Len(Files[r])}
SavedBy(r) == {Files[r][i] : i \in 1..saved[r]}

Init ==
    /\ rows = {}
    /\ objects = {}
    /\ running = {}
    /\ logged = {}
    /\ pc = [r \in Requests |-> "received"]
    /\ bodies = [r \in Requests |-> <<>>]
    /\ saved = [r \in Requests |-> 0]
    /\ deleted = [r \in Requests |-> 0]
    /\ response = [r \in Requests |-> 0]
    /\ FaultsInit

(* A request is answered: its session is closed, which rolls back what it  *)
(* has not committed.                                                      *)
Answer(r, code) ==
    /\ pc' = [pc EXCEPT ![r] = "answered"]
    /\ response' = [response EXCEPT ![r] = code]

-----------------------------------------------------------------------------
(* Validation, before anything is written.  0 is "no objection".           *)
Validate(b) ==
    CASE b.size = 0                          -> 400
      [] b.size > MaxFileSize                -> 413
      [] b.size \in 1..MaxFileSize           -> IF b.magic = "other" THEN 415 ELSE 0

(* The first file that is refused decides.                                 *)
FirstRefusal(bs) ==
    LET refused == {i \in DOMAIN bs : Validate(bs[i]) # 0}
    IN  IF refused = {} THEN 0
        ELSE Validate(bs[CHOOSE i \in refused : \A j \in refused : i <= j])

RefusalLast(r, bs) ==       \* mutant: only the last file is validated
    IF bs = <<>> THEN 400 ELSE Validate(bs[Len(bs)])

TotalSize(bs) == SumFunction([i \in DOMAIN bs |-> bs[i].size])

TooLargeAtLimit(bs) ==      \* mutant: >= for >
    TotalSize(bs) >= BatchMaxTotal

TooLarge(bs) == TotalSize(bs) > BatchMaxTotal

Refusal(r, bs) ==
    IF Endpoint[r] = "photo" THEN FirstRefusal(bs)
    ELSE IF Len(bs) \notin MinBatchSize..MaxBatchSize THEN 400
    ELSE IF FirstRefusal(bs) # 0 THEN FirstRefusal(bs)
    ELSE IF TooLarge(bs) THEN 413
    ELSE 0

Receive(r) ==
    /\ r \in Uploaders
    /\ pc[r] = "received"
    /\ \E bs \in [1..Len(Files[r]) -> Bodies] :
         /\ bodies' = [bodies EXCEPT ![r] = bs]
         /\ IF Refusal(r, bs) # 0
              THEN Answer(r, Refusal(r, bs))
              ELSE pc' = [pc EXCEPT ![r] = "connecting"] /\ UNCHANGED response
    /\ UNCHANGED <<saved, deleted, storeVars, faults>>

-----------------------------------------------------------------------------
(* The first INSERT takes a connection, which is held through the saves    *)
(* until the transaction ends.                                             *)
Connected == {r \in Requests : pc[r] \in {"saving", "reading"}}
Free == Cardinality(Connected) < PoolSize

Connect(r) ==
    /\ r \in Uploaders
    /\ pc[r] = "connecting"
    /\ Free
    /\ pc' = [pc EXCEPT ![r] = "saving"]
    /\ UNCHANGED <<bodies, saved, deleted, response, storeVars, faults>>

(* The pool's own timeout is not a TimeoutError of the code's handlers.    *)
PoolTimeout(r) ==
    /\ pc[r] = "connecting"
    /\ ~Free
    /\ Answer(r, 500)
    /\ UNCHANGED <<bodies, saved, deleted, storeVars, faults>>

(* The file whose row is inserted and whose bytes are saved next.          *)
Saving(r, p) == pc[r] = "saving" /\ saved[r] < Len(Files[r]) /\ p = Files[r][saved[r] + 1]

(* repository.create raises: no handler in the service, so 500.            *)
FlushFails(r) ==
    /\ \E p \in Photos : Saving(r, p)
    /\ Suffer(FlushError)
    /\ Answer(r, 500)
    /\ UNCHANGED <<bodies, saved, deleted, storeVars>>

SaveAndCommitRow(r, p) ==       \* mutant: one transaction per file
    /\ Saving(r, p)
    /\ objects' = objects \cup {p}
    /\ rows' = rows \cup {p}
    /\ saved' = [saved EXCEPT ![r] = @ + 1]
    /\ UNCHANGED <<pc, bodies, deleted, response, running, logged, faults>>

SaveFile(r, p) ==
    /\ Saving(r, p)
    /\ objects' = objects \cup {p}
    /\ saved' = [saved EXCEPT ![r] = @ + 1]
    /\ UNCHANGED <<pc, bodies, deleted, response, rows, running, logged, faults>>

(* StorageUnavailable or TimeoutError: rollback, then compensation.        *)
Rollback(r) == pc' = [pc EXCEPT ![r] = "compensating"]

SaveUnavailable(r, p) ==
    /\ Saving(r, p)
    /\ Suffer(StorageError)
    /\ Rollback(r)
    /\ UNCHANGED <<bodies, saved, deleted, response, storeVars>>

SaveTimeoutIgnored(r, p) ==     \* mutant: a timeout counts as a save
    /\ Saving(r, p)
    /\ Suffer(StorageSlow)
    /\ running' = running \cup {p}
    /\ saved' = [saved EXCEPT ![r] = @ + 1]
    /\ UNCHANGED <<pc, bodies, deleted, response, rows, objects, logged>>

(* asyncio.timeout cancels the wait, not the thread.                       *)
SaveTimesOut(r, p) ==
    /\ Saving(r, p)
    /\ Suffer(StorageSlow)
    /\ Rollback(r)
    /\ running' = running \cup {p}
    /\ UNCHANGED <<bodies, saved, deleted, response, rows, objects, logged>>

(* save_file translates S3Error only: anything else passes the service's   *)
(* handlers too.  The put may have taken effect, its answer being lost.    *)
SaveRaises(r, p) ==
    /\ Saving(r, p)
    /\ Suffer(TransportError)
    /\ Answer(r, 500)
    /\ objects' \in {objects, objects \cup {p}}
    /\ UNCHANGED <<bodies, saved, deleted, rows, running, logged>>

(* An abandoned thread ends, with or without having stored the object.     *)
ThreadEnds(p) ==
    /\ p \in running
    /\ running' = running \ {p}
    /\ objects' \in {objects, objects \cup {p}}
    /\ UNCHANGED <<rows, logged, requestVars, faults>>

-----------------------------------------------------------------------------
DeletingEveryFile(r, p) ==      \* mutant: compensates files it never saved
    /\ pc[r] = "compensating"
    /\ deleted[r] < Len(Files[r])
    /\ p = Files[r][deleted[r] + 1]

(* delete_file for each saved key, in order.                               *)
Deleting(r, p) ==
    /\ pc[r] = "compensating"
    /\ deleted[r] < saved[r]
    /\ p = Files[r][deleted[r] + 1]

DeleteNothing(r, p) ==          \* mutant: nothing is compensated
    /\ Deleting(r, p)
    /\ deleted' = [deleted EXCEPT ![r] = @ + 1]
    /\ UNCHANGED <<pc, bodies, saved, response, storeVars, faults>>

DeleteFile(r, p) ==
    /\ Deleting(r, p)
    /\ objects' = objects \ {p}
    /\ deleted' = [deleted EXCEPT ![r] = @ + 1]
    /\ UNCHANGED <<pc, bodies, saved, response, rows, running, logged, faults>>

(* delete_file logs an S3Error, and the loop goes on with the next key.    *)
DeleteSwallowed(r, p) ==
    /\ Deleting(r, p)
    /\ Suffer(StorageError)
    /\ logged' = logged \cup {p}
    /\ deleted' = [deleted EXCEPT ![r] = @ + 1]
    /\ UNCHANGED <<pc, bodies, saved, response, rows, objects, running>>

(* Anything else ends the loop and the request, whether or not the object  *)
(* is gone.                                                                *)
DeleteRaises(r, p) ==
    /\ Deleting(r, p)
    /\ Suffer(TransportError)
    /\ Answer(r, 500)
    /\ objects' \in {objects, objects \ {p}}
    /\ UNCHANGED <<bodies, saved, deleted, rows, running, logged>>

AnswerOnceClean(r) ==           \* mutant: waits for the objects to be gone
    /\ pc[r] = "compensating"
    /\ deleted[r] = saved[r]
    /\ SavedBy(r) \cap objects = {}
    /\ Answer(r, 503)
    /\ UNCHANGED <<bodies, saved, deleted, storeVars, faults>>

AnswerUnavailable(r) ==
    /\ pc[r] = "compensating"
    /\ deleted[r] = saved[r]
    /\ Answer(r, 503)
    /\ UNCHANGED <<bodies, saved, deleted, storeVars, faults>>

-----------------------------------------------------------------------------
Commit(r) ==
    /\ pc[r] = "saving"
    /\ saved[r] = Len(Files[r])
    /\ rows' = rows \cup FilesOf(r)
    /\ Answer(r, 202)
    /\ UNCHANGED <<bodies, saved, deleted, objects, running, logged, faults>>

(* Nothing was committed, or only the answer of the commit was lost.       *)
CommitFails(r) ==
    /\ pc[r] = "saving"
    /\ saved[r] = Len(Files[r])
    /\ Suffer(CommitFailure)
    /\ rows' \in {rows, rows \cup FilesOf(r)}
    /\ Answer(r, 500)
    /\ UNCHANGED <<bodies, saved, deleted, objects, running, logged>>

(* get_photo_content.  The connection of the SELECTs is held until the     *)
(* answer, through a read of up to STORAGE_TIMEOUT_SECONDS.                *)
Ask(r) ==
    /\ r \in Downloads
    /\ pc[r] = "received"
    /\ pc' = [pc EXCEPT ![r] = "connecting"]
    /\ UNCHANGED <<bodies, saved, deleted, response, storeVars, faults>>

Proceed(r, found) ==
    IF found THEN pc' = [pc EXCEPT ![r] = "reading"] /\ UNCHANGED response
             ELSE Answer(r, 404)

FindInBucket(r) ==      \* mutant: asks the bucket, not the table
    /\ r \in Downloads
    /\ pc[r] = "connecting"
    /\ Free
    /\ Proceed(r, FilesOf(r) \subseteq objects)
    /\ UNCHANGED <<bodies, saved, deleted, storeVars, faults>>

Find(r) ==
    /\ r \in Downloads
    /\ pc[r] = "connecting"
    /\ Free
    /\ Proceed(r, FilesOf(r) \subseteq rows)
    /\ UNCHANGED <<bodies, saved, deleted, storeVars, faults>>

FindFails(r) ==
    /\ r \in Downloads
    /\ pc[r] = "connecting"
    /\ Free
    /\ Suffer(FlushError)
    /\ Answer(r, 500)
    /\ UNCHANGED <<bodies, saved, deleted, storeVars>>

(* get_file: NoSuchKey is a NotFoundError.                                 *)
ReadObject(r) ==
    /\ pc[r] = "reading"
    /\ Answer(r, IF FilesOf(r) \subseteq objects THEN 200 ELSE 404)
    /\ UNCHANGED <<bodies, saved, deleted, storeVars, faults>>

(* Any other S3Error, or the timeout.                                      *)
ReadUnavailable(r) ==
    /\ pc[r] = "reading"
    /\ Suffer(StorageError) \/ Suffer(StorageSlow)
    /\ Answer(r, 503)
    /\ UNCHANGED <<bodies, saved, deleted, storeVars>>

ReadRaises(r) ==
    /\ pc[r] = "reading"
    /\ Suffer(TransportError)
    /\ Answer(r, 500)
    /\ UNCHANGED <<bodies, saved, deleted, storeVars>>

-----------------------------------------------------------------------------
(* The process dies with its requests and its threads; a put in progress   *)
(* may have reached MinIO, and a commit in progress PostgreSQL.            *)
Committing == {r \in Uploaders : pc[r] = "saving" /\ saved[r] = Len(Files[r])}

Crash ==
    /\ Suffer(ApiCrash)
    /\ \E S \in SUBSET (running \cup {p \in Photos : \E r \in Requests : Saving(r, p)}) :
         objects' = objects \cup S
    /\ \E C \in SUBSET Committing : rows' = rows \cup UNION {FilesOf(r) : r \in C}
    /\ running' = {}
    /\ pc' = [r \in Requests |-> IF pc[r] \in {"received", "answered"} THEN pc[r]
                                                                       ELSE "gone"]
    /\ UNCHANGED <<bodies, saved, deleted, response, logged>>

-----------------------------------------------------------------------------
(* What a request does by itself while nothing goes wrong.                 *)
RequestStep(r) ==
    \/ Receive(r)
    \/ Connect(r)
    \/ PoolTimeout(r)
    \/ \E p \in Photos : SaveFile(r, p) \/ DeleteFile(r, p)
    \/ AnswerUnavailable(r)
    \/ Commit(r)
    \/ Ask(r)
    \/ Find(r)
    \/ ReadObject(r)

RequestFails(r) ==
    \/ FlushFails(r)
    \/ \E p \in Photos :
         \/ SaveUnavailable(r, p)
         \/ SaveTimesOut(r, p)
         \/ SaveRaises(r, p)
         \/ DeleteSwallowed(r, p)
         \/ DeleteRaises(r, p)
    \/ CommitFails(r)
    \/ FindFails(r)
    \/ ReadUnavailable(r)
    \/ ReadRaises(r)

Next ==
    \/ \E r \in Requests : RequestStep(r) \/ RequestFails(r)
    \/ \E p \in Photos : ThreadEnds(p)
    \/ Crash

Spec == Init /\ [][Next]_vars

(* The event loop runs every request it has accepted.                      *)
FairSpec == Spec /\ \A r \in Requests : WF_vars(pc[r] # "received" /\ RequestStep(r))

-----------------------------------------------------------------------------
(* Types of the tables, the bucket, the threads and the requests.          *)
TypeOK ==
    /\ rows \subseteq Photos
    /\ objects \subseteq Photos
    /\ running \subseteq Photos
    /\ logged \subseteq Photos
    /\ pc \in [Requests -> {"received", "connecting", "saving", "compensating",
                            "reading", "answered", "gone"}]
    /\ \A r \in Requests : bodies[r] \in {<<>>} \cup [1..Len(Files[r]) -> Bodies]
    /\ \A r \in Requests : saved[r] \in 0..Len(Files[r]) /\ deleted[r] \in 0..saved[r]
    /\ response \in [Requests -> {0, 200, 202, 400, 404, 413, 415, 500, 503}]
    /\ FaultsType

(* create_photo, create_batch: a committed row always has its object, so   *)
(* a photo that can be listed can be downloaded and analyzed, whatever     *)
(* late threads, compensations and lost commits do.                        *)
RowHasObject == rows \subseteq objects

(* create_batch: the rows of a request are committed together or not at    *)
(* all; a client that was told 202 has all of them, and one that was told  *)
(* 4xx or 503 has none.                                                    *)
AnswerTellsTheTruth ==
    \A r \in Uploaders :
        /\ FilesOf(r) \subseteq rows \/ FilesOf(r) \cap rows = {}
        /\ response[r] = 202 => FilesOf(r) \subseteq rows
        /\ response[r] \in {400, 413, 415, 503} => FilesOf(r) \cap rows = {}

(* create_batch: one bad file rejects the batch before anything is stored, *)
(* so nothing of a request with a bad file ever reaches a store.           *)
OnlyValidFilesAreStored ==
    \A r \in Uploaders :
        FilesOf(r) \cap (rows \cup objects \cup running) # {} =>
            /\ \A i \in 1..Len(Files[r]) : Validate(bodies[r][i]) = 0
            /\ Endpoint[r] = "batch" => Len(Files[r]) \in MinBatchSize..MaxBatchSize

(* create_photo, create_batch: each 4xx names a fault of the upload itself.*)
(* In particular a batch of files that are small enough is never too large *)
(* as a whole, so the check of the total size refuses nothing.             *)
RefusalHasACause ==
    \A r \in Uploaders :
        /\ response[r] = 400 =>
             \/ Endpoint[r] = "batch" /\ Len(Files[r]) \notin MinBatchSize..MaxBatchSize
             \/ \E i \in 1..Len(Files[r]) : bodies[r][i].size = 0
        /\ response[r] = 413 =>
             \E i \in 1..Len(Files[r]) : bodies[r][i].size > MaxFileSize
        /\ response[r] = 415 =>
             \E i \in 1..Len(Files[r]) : bodies[r][i].magic = "other"

(* create_batch: after a 503 every object of the request is gone, or a     *)
(* warning names it, now and for ever; except for one, the file at which   *)
(* the saves stopped, which its abandoned thread may still have stored.    *)
CompensationIsComplete ==
    \A r \in Uploaders : response[r] = 503 =>
        \A i \in 1..Len(Files[r]) :
            i # saved[r] + 1 /\ Files[r][i] \in objects => Files[r][i] \in logged

(* The endpoints keep UploadContract: whatever threads, compensations,     *)
(* lost commits and crashes do in between, each answer is one atomic step  *)
(* of the photos that can be found and downloaded, and a photo a client    *)
(* was told of is never answered 404.                                      *)
Contract == INSTANCE UploadContract WITH
    available <- rows \cap objects,
    answer <- response,
    gone <- {r \in Requests : pc[r] = "gone"}

ImplementsContract == Contract!Spec

(* Every accepted request is answered, or dies with the process: waiting   *)
(* for one of PoolSize connections, which uploads and downloads hold       *)
(* through their calls of MinIO, never lasts for ever.                     *)
EveryRequestIsAnswered ==
    \A r \in Requests : pc[r] = "connecting" ~> pc[r] \in {"answered", "gone"}

(* specs/constitution.md, 3.2: "If MinIO is unavailable we return 503, not *)
(* 500".  For a run in which MinIO is all that fails.                      *)
StorageOutageIs503 ==
    \A r \in Requests : response[r] # 500

(* delete_file's docstring: it compensates an object whose save succeeded  *)
(* when "the DB commit that should follow it failed".  For a run in which  *)
(* commits are all that fails.                                             *)
FailedCommitIsCompensated ==
    \A r \in Requests : response[r] = 500 => FilesOf(r) \cap objects \subseteq rows
=============================================================================
