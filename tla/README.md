# photo-analysis-service: TLA+ models and proofs

This directory models the photo service (`src/photo-service`): an HTTP API that
stores photos, an outbox task that hands them to Kafka, and workers that have
them analyzed. The modules are checked by TLC on small instances, and theorems
about them are proved by TLAPS for every value of the constants.

    tlc -config pipeline_safety.cfg MCAnalysisPipeline.tla
    tlapm DeliveryProofs.tla

## 1. The system

### Components

| component | code (`app/`) | state it keeps | operations |
|---|---|---|---|
| upload service | `services/photo_service.py`, `api/` | an open transaction, the list of saved object keys | `create_photo`, `create_batch`, `get_photo_content` |
| object storage | `integrations/storage.py` | the MinIO bucket | `save_file`, `get_file`, `delete_file` |
| rows | `repositories/`, `db/models.py` | `photos`, `analysis_results`, `batches` | claim, record, mark, upsert, fetch |
| outbox publisher | `services/outbox.py` | the batch it is in, an uncommitted session | poll, publish, mark, commit |
| Kafka producer | `integrations/kafka_producer.py` | `_producer`, `_started` | `ensure_started`, `publish`, `stop` |
| Kafka | external | the log, the group's offset and assignment | append, read, commit, rebalance |
| worker consumer | `worker/` | the message in flight, the stop event | fetch, handle, commit, shut down |
| analysis processor | `services/analysis_processor.py` | the attempt and the last error | claim, analyze with retries, terminal write |
| reads | `services/batch_service.py`, `PhotoService.get_*` | a handler's snapshots | `get_photo`, `list_photos`, `get_batch` |
| analyzer client | `integrations/analyzer_client.py` | none | call, classify an error, name it |
| API lifespan | `main.py` | the outbox task, the stop event, the event loop | boot, serve, drain, stop, `readyz` |

The rest (configuration, logging, metrics, generated stubs, the analyzer stub,
migrations) is in section 6, with the reason why it is not modelled.

### How they interact

    client --POST--> upload service --rows (1 transaction)--> PostgreSQL
                            \--objects (no transaction)--> MinIO
    outbox task: PostgreSQL (not_sent) --> Kafka --> PostgreSQL (sent)
    worker: Kafka --> claim (PostgreSQL) --> analyzer (gRPC) --> terminal write
            --> offset commit (Kafka)
    client --GET--> reads: one SELECT per table

The parts share the committed rows, the row locks, the log and the bucket.
Nothing is called back.

### What is hard, and what makes each part correct

* **Pipeline.** Three transactions per photo with a remote call between them, two
  stores (PostgreSQL, Kafka) without a common transaction, at-least-once delivery
  with rebalances, processes that die anywhere. Correct means: a photo is
  analyzed by one worker at a time, its outcome is written once, its row records
  what happened, and an accepted photo is neither lost nor left undecided.
* **Upload.** Two stores again, saves that outlive their timeout, a compensation
  that may itself fail, requests that compete for connections. Correct means: a
  row always has its object, an answer never lies about the rows, an invalid file
  leaves no trace, a 503 leaves no silent orphan, and a photo that a client was
  told of is never a 404.
* **Reads.** Several snapshots per answer, and a handler that stores what it has
  computed from them. Correct means: the stored result of a batch is right, and
  every later answer agrees with it.
* **List.** Pages by offset over an order with ties, while photos commit in
  another order than they sort in. Correct means: a client that walks through
  the pages misses nothing and sees nothing twice, as far as ties allow.
* **Lifespan.** Start, failure and cancellation of a producer that two places
  start, a shutdown that races the task, and one event loop that a probe can
  stop. Correct means: the producer heals, is never used unstarted or after its
  stop, and a process that is told to stop does.

The hazards, each at its line and with the properties that cover it, are in
`PROJECT.json`.

## 2. Modules

| module | models | notes |
|---|---|---|
| `PhotoLifecycle` | what a client is promised about a photo | abstract specification |
| `Faults` | a budget of faults | a run chooses kinds and number |
| `AnalyzerClient` | the exceptions of a call, `classify_grpc_error`, `error_code_from_exception` | pure |
| `PhotoRows` | the committed rows and every statement on them | extends `AnalyzerClient`; a statement is an operator, its callers compose transactions |
| `Topic` | Kafka: log, offset, assignment | external, from the calls the code makes |
| `Outbox` | `run_outbox_publisher` | extends `PhotoRows`, `Topic`, `Faults` |
| `Worker` | `consume_loop`, `_handle_message`, `AnalysisProcessor.process` | extends `PhotoRows`, `Topic`, `Faults` |
| `AnalysisPipeline` | the composition, with uploads as commits | implements `PhotoLifecycle` |
| `UploadContract` | what a client is promised about uploads and downloads | abstract specification: one atomic step per answer |
| `BatchContract` | what a client is promised about a batch | abstract specification, extends `PhotoLifecycle`: one atomic decision |
| `Upload` | `create_photo`, `create_batch`, `get_photo_content` | what happens before such a commit; implements `UploadContract` |
| `BatchReads` | the GET handlers and `select_best_photo` | uses `PhotoLifecycle` as its environment; implements `BatchContract` |
| `Gallery` | the pages of `list_photos` | |
| `ApiLifespan` | `lifespan`, `KafkaEventProducer`, `readyz` | what starts and stops the outbox task |
| `PipelineProofs`, `DeliveryProofs`, `RecordProofs` | theorems about `AnalysisPipeline` | each extends the one before |
| `SumLemmas` | lemmas: sums of a function over a finite set | used by `UploadProofs` |
| `UploadProofs`, `ReadProofs`, `GalleryProofs`, `LifespanProofs` | theorems about `Upload`, `BatchReads`, `Gallery`, `ApiLifespan` | |
| `MCAnalysisPipeline`, `MCUpload`, `MCBatchReads`, `MCGallery` | instances for TLC | |

The modules are tied together by abstraction. `AnalysisPipeline` treats an upload
as one commit, and `Upload` models how it gets there; `Upload` implements
`UploadContract`; `AnalysisPipeline` implements `PhotoLifecycle`, and `BatchReads` reads rows that move as
`PhotoLifecycle` allows and implements `BatchContract`, which adds the batch to
that promise; `Outbox` has `StopApi` and `StartApi`, and `ApiLifespan`
models what they stand for.

### State and actions against the code

* **Rows.** `status`, `attempts`, `lastError` (`last_error_code`), `publishStatus`, `CreatedAt` are the columns; `analysis` is
  the set of photos with a row in `analysis_results`. A row that is not committed
  is `"absent"`. Only commits change them: statement and commit are one action
  wherever the code commits right after the statement (claim, attempt, terminal
  write). The outbox is the exception: its marks are the set `marked`, which
  blocks every other UPDATE of those rows (`Unlocked`) until `CommitBatch`.
* **Outbox.** `Poll` is the SELECT (any cut among equal `created_at`); `Publish`
  and `PublishFails` are a send and its two outcomes - a send that raises may
  have reached the log; `MarkPublished` follows; `CommitBatch` ends the
  iteration. `IterationFails` is the catch-all `except`, `StopApi` a kill, a
  drain timeout or a shutdown. A message that a failed send leaves behind is
  appended at the failure, if at all.
* **Worker.** `pc` follows one message: `polling`, `claiming`, `analyzing`,
  `completing` or `failing`, `committing`. `Return` is "process() returned or
  raised, the offset is next"; `Exit` is the end of the process. `DbError` covers
  each statement of `process()`, with and without the commit taking effect.
  A backoff is the time between two steps. `AnalyzeFails` takes an exception of
  `AnalyzerClient`, which the code's own tables turn into a decision and a code.
* **Topic.** A worker's `position` is what it has read, `committed` the group's
  offset. `CommitPosition` does what aiokafka does: it commits the position of
  the partitions still assigned, so a worker that has lost the partition commits
  nothing, and one that lost it and got it back commits the position it was
  given.
* **Upload.** A photo stands for its row, its key and its object; a request is
  received, waits for a connection, saves, compensates, and is answered.
  `SaveTimesOut` leaves a thread in `running`, whose put `ThreadEnds` may still
  complete at any later time. `SaveRaises`, `FlushFails`, `DeleteRaises` and
  `CommitFails` end in the catch-all 500 handler. Whatever raises may have taken
  effect all the same: the put, the delete or the commit; an `S3Error` is MinIO's
  own refusal and changes nothing. The fault kinds are
  those of the MinIO client, not of the call: an `S3Error` (`StorageError`) makes
  a save a 503 and a delete a warning, any other exception (`TransportError`)
  ends either with a 500. Sizes keep the proportions of the limits (units of 25 MB). A
  download (`Ask`, `Find`, `ReadObject`) competes for the same connections and
  holds one through its call of MinIO, as `get_session` does. In the refinement a
  photo is *available* when both its row and its object are there; the threads,
  the deletes and the saves are stutters.
* **BatchReads.** `ReadBatch`, `ReadBatchPhotos` and `ReadAnalyses` are the three
  SELECTs of `get_batch`; `ReadPhotos` and `ReadAnalyses` the two of `get_photo`
  and `list_photos`. No isolation level is set, so each has its own snapshot.
  A 404 changes nothing and is left out.
* **Gallery.** `Insert` is the first INSERT of a transaction, which fixes its
  `now()`; `Commit` comes any time later. A page is cut out of *some* order that
  respects `created_at DESC`: the code leaves the order of ties open, and
  PostgreSQL may choose it anew for every query. The client asks for page after
  page until one is not full.
* **ApiLifespan.** `producer` and `started` are the two fields, with the object
  told apart by what its `start()` has done. Cancellation is its own outcome,
  because `except Exception` does not see it. Of time the module keeps one bit,
  `overdue`: a request of the `start()` in progress may have run into
  `KAFKA_PUBLISH_TIMEOUT_SECONDS`, because the broker was down or because the
  loop was held up for so long; then `start()` may raise (`StartRaises`), although
  the broker is up. While `probe` is `bucket`, the
  synchronous call of `ensure_bucket` in `readyz` has the event loop: every step
  of the task and of `lifespan` waits (`OnLoop`). The docstring of
  `ensure_bucket` (`storage.py:57`) says that it is called once during startup;
  `readyz` calls it on every probe. SIGTERM may come in any state; uvicorn lets
  the boot and the requests in flight end before it goes on with `lifespan`.

Left out throughout: logging, metrics, trace ids, file names, wording. The trace
id and the message's payload are not read by any decision.

### Faults

A fault is an action of the component it strikes and spends one unit of a budget
(`MaxFaults`); `FaultKinds` admits kinds. A run's kinds are the hypotheses of its
properties. `ApiLifespan` and `BatchReads` need no budget: their faults do not
make the state grow.

## 3. What TLC checks

| run | instance | states | shows |
|---|---|---|---|
| `pipeline_safety` | 2 single uploads, 2 workers, 2 attempts, 3 analyzer errors, poison message, 2 faults of any kind | 1,497,000 | safety of the pipeline, what a fault may cost, and `ImplementsLifecycle` |
| `pipeline_delivery` | the same with 1 attempt, outbox batches of one, no `WorkerDbError` | 282,000 | `NothingLost`, its inductive form, `EveryPhotoIsClaimed` |
| `pipeline_progress` | a batch of 2 photos, 2 workers, 2 attempts, 2 faults, no `WorkerDbError` and no `WorkerCrash` (the two that interrupt `process()`) | 920,000 | `NoAbandonedClaim`, `OffsetFollowsOutcome`, `EveryPhotoIsDecided` |
| `pipeline_offset` | 1 worker, one database error | | `OffsetFollowsOutcome` is violated |
| `upload_safety` | a single file, a batch of 3, a batch of 1, a download, 4 kinds of file, 1 connection, 3 faults of any kind | 212,000 | safety of uploads, why they are refused, `ImplementsContract`, and that each request is answered |
| `upload_outage` | one transport error, a connection for everybody | | `StorageOutageIs503` is violated |
| `upload_commit` | one failed commit | | `FailedCommitIsCompensated` is violated |
| `batch_safety` | a batch of 2 tied photos, a single photo, 2 handlers | 905,000 | what is stored and answered about batches, and `ImplementsBatchContract` |
| `batch_torn` | the same | | `AnalysisOnlyOnceDone` is violated |
| `gallery` | a batch of 3 and 3 single uploads, pages of 2, a clock of 3 values | 767,000 | what a walk through the list skips and repeats |
| `lifespan` | the default batch of 100 rows, Kafka up and down at will, probes at will | 2,000 | healing, order of shutdown, its end |
| `lifespan_fresh` | the same | | `EveryStartIsFresh` is violated |

### Why the bounds are enough

Two photos are the least that make the outbox batch, the order of the log and
cross-talk between photos visible; two workers the least for a claim race, and a
third would only repeat the second. Two attempts give a first, a last, and a
success after a failure. The three errors of the analyzer in
`pipeline_safety`, a timeout, an `UNAVAILABLE` and an unknown exception, are
classified and named in three ways, and in the other runs a timeout and a
`NOT_FOUND` are of the two classes; the other codes differ in their name only,
and the proofs are about all of them. Two faults give every pair: a failure during the
recovery from another. In `upload_safety` a batch of three is the least in which
two objects have been saved when the third fails, so that one delete can fail
and another succeed; three faults are a save, a delete and a crash. Two handlers
are the least that can write a batch twice. Three files of the largest size are
exactly `BatchMaxTotal`, which is where the check of the total would be off by one. A batch of three is the least that
a page of two can cut inside, and three single uploads can commit before,
between and after its pages; three values of the clock put a row before,
level with and behind another. The theorems of section 4 have no
bounds.

`CHECK_DEADLOCK FALSE` is in every configuration because the system may stop:
all uploads are decided, all requests answered, the process closed.

### Fairness

* The outbox task and every running worker keep taking their steps: the event
  loop runs them, each wait has a timeout, and the analyzer call ends by
  `ANALYZER_GRPC_TIMEOUT`. One weak-fairness condition per process, on the
  disjunction of its fault-free steps.
* Nothing restarts a process: `docker-compose.yml` has no restart policy. So
  `StartApi` and `StartWorker` are not fair, and the liveness properties promise
  something only while the API and a worker are `Up`.
* Uploads and faults are never fair.
* In `Upload`, a request that has been accepted keeps going; a client that has
  not sent anything need not.
* In `ApiLifespan`, `EnsureFails` is not fair while Kafka is down: nothing bounds `start()` in the
  outbox task, so `ShutdownEnds` must hold although it hangs. A probe ends,
  because the MinIO client has timeouts (`LoopStep`), and after it asyncio runs
  the callbacks that have become ready before it looks at new requests: without
  that, probes in a row could starve the task.
* `SelfHeals` supposes that Kafka stays up, and that in the end no stop of the loop
  by `readyz` outlasts the request timeout of a `start()` (`~overdue` for good).
  The second is a hypothesis about MinIO, not a promise of the code: if every
  probe of a hanging MinIO holds the loop for more than ten seconds, every
  `start()` raises and the producer is never started. TLC finds that behaviour
  when `~overdue` is dropped from the premise. Under these hypotheses a `start()`
  ends, in success or in failure (`EnsureEnds`, strongly fair): its answers are
  read and its timers looked at whenever the loop goes round, but a probe may
  come between any two of its rounds, so that it is not *continuously* able to
  go on. Strong fairness is more than the code gives under a broker that comes
  and goes for ever; only `SelfHeals`, whose premise excludes that, needs it.

### Violations

Five runs check a sentence of the repository's documents or comments that the
code does not keep; the findings in `PROJECT.json` quote both sides.

* `OffsetFollowsOutcome`: the offset of a message whose processing failed is
  committed, so a database error in `process()` loses the photo. This is the one
  fault under which `NothingLost` fails. A worker that dies with a claim leaves the
  same behind, as its docstring says; under every other fault the sentence is true,
  which `pipeline_progress` checks and `OffsetsFollowOutcomes` proves.
* `StorageOutageIs503`: only `S3Error` becomes a 503, an unreachable MinIO is a 500.
  For the outages that the code does recognise, an `S3Error` or the timeout, the
  sentence is true, even if the outage lasts through every compensating delete:
  `ReportedOutageIs503` proves it, for a pool that has a connection for every
  request.
* `FailedCommitIsCompensated`: no object is deleted when the commit fails.
* `AnalysisOnlyOnceDone`: an answer may show an analysis with `processing`.
* `EveryStartIsFresh`: a cancelled `start()` leaves its producer behind.

## 4. What is proved

For all values of the constants, from the assumptions named in the modules:
all sets of photos, uploads, messages, workers and analyzer errors, every
`MaxAttempts`, `OutboxBatchSize`, `FaultKinds` and `MaxFaults` in the pipeline
(`UploadsAssumption`, `MaxAttemptsAssumption`, `TopicAssumption`,
`OutboxAssumption`, `WorkerAssumption`, `FaultsAssumption`); all sets of requests,
files and bodies, every limit and pool size in `Upload` (`UploadAssumption`);
every batch, set of handlers and analyzer result in `BatchReads`
(`BatchAssumption`); every finite set of photos, every page size and clock in
`Gallery` (`GalleryAssumption`); every `OutboxBatchSize` in `ApiLifespan`
(`LifespanAssumption`).

| module | theorem | states |
|---|---|---|
| `PipelineProofs` | `TypeCorrect` | `Spec => []TypeOK` |
| | `ExclusiveClaims` | `Spec => []ClaimIsExclusive` |
| | `TerminalRowsAreFinal` | `Spec => TerminalIsFinal` |
| | `PipelineImplementsLifecycle` | `Spec => ImplementsLifecycle` |
| `DeliveryProofs` | `OutboxIsSound`, `SentIsPublished` | `Spec => []OutboxInv`, `Spec => []SentIsInTopic` |
| | `ReaderIsSound` | `Spec => []ReaderInv` |
| | `DeliveryIsSound`, `AtLeastOnce` | `WorkerDbError \notin FaultKinds`: `Spec => []DeliveryInv`, `Spec => []NothingLost` |
| | `OncePerFault` | `Spec => []DuplicatesNeedFaults` |
| `RecordProofs` | `RowsRecordAttempts` | `Spec => []RecordedAttempts` |
| | `StuckPhotosAreCounted` | `Spec => []StuckPhotosNeedFaults` |
| | `EveryClaimIsHeld`, `OffsetsFollowOutcomes` | `WorkerDbError`, `WorkerCrash \notin FaultKinds`: `Spec => []NoAbandonedClaim`, `Spec => []OffsetFollowsOutcome` |
| | `NoBacklogMeansDecided` | the same two: with nothing to publish and no lag, each photo is decided or at a worker |
| `UploadProofs` | `UploadTypes` | `Spec => []TypeOK` |
| | `RowsHaveObjects` | `Spec => []RowHasObject` |
| | `AnswersAreTrue` | `Spec => []AnswerTellsTheTruth` |
| | `StoredFilesAreValid` | `Spec => []OnlyValidFilesAreStored` |
| | `RefusalsHaveACause` | `Spec => []RefusalHasACause` |
| | `CompensatedOrLogged` | `Spec => []CompensationIsComplete` |
| | `ReportedOutageIs503` | no `TransportError`, `FlushError`, `CommitFailure`, and `Cardinality(Requests) <= PoolSize`: `Spec => []StorageOutageIs503` |
| | `UploadImplementsContract`, `AvailableForEver` | `Spec => ImplementsContract`, `Spec => [][rows \cap objects \subseteq (rows \cap objects)']_vars` |
| `ReadProofs` | `ReadTypes` | `Spec => []TypeOK` |
| | `BestIsSelected` | `SelectBest` is the least of its candidates, if there are any |
| | `CompletedBatchIsRight` | `Spec => []StoredBatchIsRight` |
| | `AnswersAgree`, `DoneComesWithAnalysis` | `Spec => []CompletedAnswersAgree`, `Spec => []DoneIsShownWithAnalysis` |
| | `CompletedForGood` | `Spec => CompletionIsFinal` |
| | `BatchReadsImplementContract` | `Spec => ImplementsBatchContract` |
| `GalleryProofs` | `GalleryTypes` | `Spec => []TypeOK` |
| | `WalksSkipOnlyTies` | `Spec => []SkipsOnlyTies` |
| | `RepeatsAreCaused` | `Spec => []RepeatsHaveACause` |
| | `QuietWalkIsExact` | without ties and without commits during the walk, `seen = known` and `repeated = {}` at its end |
| `LifespanProofs` | `ProducerFieldsAgree` | `Spec => []TypeOK` |
| | `NeverPublishesUnstarted`, `TaskIsOverBeforeStop` | `Spec => []PublishesOnlyWhenStarted`, `Spec => []TaskEndsFirst` |

The arguments:

* `ClaimIsExclusive` is inductive together with `TypeOK`. A worker enters
  `InProcess` only through `Claim`, on a `pending` row; every other worker in
  process has a `processing` row, so it is another photo's. A worker's write
  touches the row of its own message only; `WorkerRowStep` does that case analysis
  once.
* `TerminalIsFinal` and the refinement follow from it: each row write is a claim
  of a pending row or a statement about a row in process, which is `processing`.
* `NothingLost` is not inductive. Its strengthening is
  `OutboxInv /\ ReaderInv /\ AnsweredInv`: what is sent is in the log; the owner
  of the partition is at most one message past the offset, and holds that
  message; every message whose offset is due or committed has led to a claim. A
  pending photo that is sent is therefore in the log, and not below the offset.
  `AnsweredInv` is where a database error hurts: `Return` without a claim. TLC
  checks the strengthening as `DeliveryInv`.
* `DuplicatesNeedFaults` needs to know which photos may be published again. In
  `CopiesInv` a row that is acked, marked or sent (`Settled`) has at most
  `1 + faults` messages in the log, any other at most `faults`, and the batch
  holds no settled row. A send settles its row or costs a fault; a row becomes
  unsettled only when a batch is abandoned, which costs a fault too.
* `RecordInv` ties the columns to the local variables of the worker that holds
  the row: while `attempt` n is made, the row has n - 1 attempts; a worker is
  about to fail a photo only with a code that is permanent, or at the last
  attempt, and makes another attempt only after a transient one. That nobody else
  writes the row in between is `ClaimIsExclusive`.
* `StuckPhotosNeedFaults` holds under every fault, the two that interrupt
  `process()` included: a photo may be left behind in `processing`, or pending with
  its offset committed, but each costs a fault of its own. It is not inductive,
  because a photo is lost when `process()` raises and seen to be lost only when its
  offset is committed, which is no fault. `GivenUpInv` counts instead the pending
  photos one of whose messages has been answered (`Missed`), and the claims that
  nobody holds: `FaultsGrow` says that a step adds to them at most one photo, and
  only if it spends a fault (`OnePhotoPerFault`).
* `OffsetFollowsOutcome` is what delivery and claims say together: below the
  committed offset every photo has been claimed (`DeliveryInv`), and a claimed
  photo is decided or in the hands of a worker (`NoAbandonedClaim`). Its two
  hypotheses are those of the two parts. `NoBacklogMeansDecided` is what can be
  proved of `EveryPhotoIsDecided` without fairness: when nothing is left to publish
  or to read, nothing is left undecided either.
* `UploadInv` says of each upload, place by place in its handler, which of its
  objects are in the bucket, in a thread or deleted, and whether its rows may be
  committed. No two uploads share a photo, so a step of one leaves the parts of
  the others alone, and each part is proved once. The objects of a committed
  request are never compensated, and a 202, a 4xx and a 503 are given at places
  that decide about its rows. The refinement maps a commit to the atomic answer;
  that a download that found the row finds the object is `RowHasObject` together
  with the fact that rows are never deleted. `CompensationIsComplete` needs that
  the saves run in order: the files after the one that failed were never tried
  (`Untouched`), so a single object is in doubt after a 503.
* `RefusalHasACause` is arithmetic over a batch of any size. The sum of the sizes
  is a fold over the files, and a property of it for every number of files would
  be an induction, which cannot be cited here with an operator of one's own.
  `SumLemmas` takes the least counterexample instead: `SumIsBounded` bounds a sum
  by the number of its terms times the largest. With `BatchMaxTotal >= MaxBatchSize
  * MaxFileSize`, which `photo_service.py:67` defines it to be, the check of the
  total never fires, and every refusal is one of `_validate` or of the batch size.
* `ReportedOutageIs503` names what it takes for the constitution's rule to hold:
  a request that waits is not itself connected, so a pool with a connection for
  each never times out (`PoolIsLargeEnough`), and of the faults only an `S3Error`, the
  timeout and a crash are left. A save or a read that meets one is answered 503,
  a delete that does is logged and the loop goes on to its 503. A transport error
  of a compensating delete is excluded like every other: `DeleteRaises` answers
  500, as `storage.py:110-115` lets it pass.
* The reads rest on `ReadInv`: what a handler has seen `done` or `failed` is still
  so, because a terminal status is final (`RowsAdvance`), and a photo read as
  `done` has its analysis by the time the analyses are read. A handler about to
  write has therefore seen the batch as it now is (`BestIsTrueBest`), and a second
  write stores what the first did (`WriteIsRight`). The refinement follows: the
  first write is the `Decide` of `BatchContract`, whose guard is that *now* all
  photos are decided, and any other a stutter. `BestIsSelected` shows that
  `Precedes` is a strict order on the batch, total because ids differ, and takes
  its least element on a finite set; `HoldsInv` then types what a handler holds.
* `WalkInv` counts. Rows are only added, and a row that is in front stays in
  front: the rows that sort before an untied photo that was known when the walk
  began are at least those the walk has passed, so the offset has not passed the
  photo unseen (`PlaceInv`). It is shown a second time only if the rows before it
  have become more, that is, if one of them was committed during the walk.
* `LifespanInv` adds to the properties of `ApiLifespan` that the task runs while
  `lifespan` serves or drains and only then, and that `start()` is called on a
  producer that is not started. `readyz` disturbs none of it: it only delays.

Only model-checked: liveness (`EveryPhotoIsClaimed`, `EveryPhotoIsDecided`,
`EveryRequestIsAnswered`, `SelfHeals`, `ShutdownEnds`), which is beyond the
prover. Every other property of a passing run is a theorem.

## 5. Plan

Done, in this order: rows, topic, outbox, worker, their composition and its
proofs; uploads; reads and their proofs; lifespan and its proofs; then the
analyzer's errors, downloads and `UploadContract` with the proofs of `Upload`,
the list of photos with its proofs, the event loop of the API, the proofs
that the pipeline still lacked, and then `BatchContract` and what the documents'
sentences are true of.

Next, if the code grows that way: several partitions of the topic, as soon as the
deployment has more than one; the threads of the saves as a
resource that abandoned ones hold on to; the scrape of `/metrics` as one more user of the
connection pool.

## 6. Not modelled

* **Request id and logging** (`api/middleware.py`, `core/logging.py`): a context
  variable per request, reset when it ends. The stored `trace_id` is passed on and
  logged, and no step decides by it. That a value longer than the column makes
  the INSERT fail is a `FlushFails`.
* **Metrics** (`integrations/metrics.py`, `api/metrics_middleware.py`): counters
  that only grow and that nothing in the service reads. The gauge
  `photos_pending` is a query per scrape whose errors are swallowed.
* **`healthz`**: a constant answer.
* **Migrations**: DDL that is applied before the service starts; no version of the code runs
  against another's schema in the deployment the repository describes.
* **Generated stubs** (`grpc_gen/`), **configuration and schemas**: no state. The
  settings appear as constants.
* **Analyzer stub**: a pure function of a hash of the object key, for
  development. The models let the analyzer say anything.
* **`update_status`, `count_pending`**: no caller that acts on them.
* **`truncate_error_message`, `_content_disposition`, `_ext_to_mime`**: texts that
  no step reads back.
* **Tests, dashboards, deployment files**: read for assumptions (one API process,
  one partition, no restart policy).
