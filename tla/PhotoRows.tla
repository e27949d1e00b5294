----------------------------- MODULE PhotoRows ------------------------------
(***************************************************************************)
(* The tables `photos` and `analysis_results` as PostgreSQL has committed  *)
(* them, and the statements PhotoRepository and AnalysisResultRepository   *)
(* run on them.  A statement is an operator over the committed columns;    *)
(* which of them share a transaction, and what happens between two         *)
(* transactions, is decided by the callers (Outbox, Worker).               *)
(*                                                                         *)
(* Columns kept: status, attempts, last_error_code, publish_status and     *)
(* created_at.  A row that is not committed is Absent.                     *)
(***************************************************************************)
EXTENDS Naturals, FiniteSets, AnalyzerClient

CONSTANTS
    Photos,         \* photo ids; a photo is also the body of its message
    Uploads,        \* the sets of photos one request commits together
    CreatedAt,      \* created_at of each row: the start of its transaction
    MaxAttempts     \* Settings.WORKER_MAX_ATTEMPTS

(* create_photo commits one row, create_batch all the rows of a batch; a   *)
(* photo id is generated by one request, and now() is constant within a    *)
(* transaction, so the photos of a batch tie.                              *)
ASSUME UploadsAssumption ==
    /\ Uploads \subseteq SUBSET Photos
    /\ CreatedAt \in [Photos -> Nat]
    /\ \A P, Q \in Uploads : P # Q => P \cap Q = {}
    /\ \A P \in Uploads : \A p, q \in P : CreatedAt[p] = CreatedAt[q]

ASSUME MaxAttemptsAssumption == MaxAttempts \in Nat \ {0}

VARIABLES
    status,         \* photos.status
    attempts,       \* photos.attempts
    lastError,      \* photos.last_error_code
    publishStatus,  \* photos.publish_status
    analysis,       \* the photos with a row in analysis_results
    marked          \* rows the outbox session has updated and not committed:
                    \* it holds their row locks

rowVars == <<status, attempts, lastError, publishStatus, analysis>>

Absent     == "absent"
Pending    == "pending"
Processing == "processing"
Done       == "done"
Failed     == "failed"

Statuses == {Absent, Pending, Processing, Done, Failed}
Terminal == {Done, Failed}

NoError == "none"       \* SQL NULL

RowsInit ==
    /\ status = [p \in Photos |-> Absent]
    /\ attempts = [p \in Photos |-> 0]
    /\ lastError = [p \in Photos |-> NoError]
    /\ publishStatus = [p \in Photos |-> "not_sent"]
    /\ analysis = {}

RowsType ==
    /\ status \in [Photos -> Statuses]
    /\ attempts \in [Photos -> 0..MaxAttempts]
    /\ lastError \in [Photos -> {NoError} \cup ErrorCodes]
    /\ publishStatus \in [Photos -> {"not_sent", "sent"}]
    /\ analysis \subseteq Photos
    /\ marked \subseteq Photos

-----------------------------------------------------------------------------
(* The commit of an upload: create_photo inserts one row, create_batch one *)
(* per file, all pending and not_sent.                                     *)
CreateRows(P) ==
    /\ \A p \in P : status[p] = Absent
    /\ status' = [p \in Photos |-> IF p \in P THEN Pending ELSE status[p]]
    /\ UNCHANGED <<attempts, lastError, publishStatus, analysis>>

(* UPDATE photos waits for a row lock another transaction holds.           *)
Unlocked(p) == p \notin marked

(* UPDATE ... SET status='processing' WHERE photo_id=:id AND               *)
(* status='pending', and its rowcount.                                     *)
ClaimableUnlessTerminal(p) == status[p] \in {Pending, Processing}  \* mutant
ClaimableUnlessDone(p) == status[p] \in {Pending, Failed}          \* mutant

Claimable(p) == status[p] = Pending

ClaimForProcessing(p) ==
    /\ status' = IF Claimable(p) THEN [status EXCEPT ![p] = Processing]
                                 ELSE status
    /\ UNCHANGED <<attempts, lastError, publishStatus, analysis>>

RecordAttempt(p, n, code) ==
    /\ attempts' = [attempts EXCEPT ![p] = n]
    /\ lastError' = [lastError EXCEPT ![p] = code]
    /\ UNCHANGED <<status, publishStatus, analysis>>

(* The terminal transaction of a success: INSERT ... ON CONFLICT DO        *)
(* NOTHING, then mark_done, which also clears last_error_*.                *)
NoUpsert(p) == UNCHANGED analysis       \* mutant: the result is not stored

Upsert(p) == analysis' = analysis \cup {p}

MarkDoneKeepsError(p, n) ==             \* mutant: last_error_* is not cleared
    /\ status' = [status EXCEPT ![p] = Done]
    /\ attempts' = [attempts EXCEPT ![p] = n]
    /\ UNCHANGED lastError

MarkDone(p, n) ==
    /\ status' = [status EXCEPT ![p] = Done]
    /\ attempts' = [attempts EXCEPT ![p] = n]
    /\ lastError' = [lastError EXCEPT ![p] = NoError]

UpsertAndMarkDone(p, n) == Upsert(p) /\ MarkDone(p, n) /\ UNCHANGED publishStatus

MarkFailed(p, code, n) ==
    /\ status' = [status EXCEPT ![p] = Failed]
    /\ lastError' = [lastError EXCEPT ![p] = code]
    /\ attempts' = [attempts EXCEPT ![p] = n]
    /\ UNCHANGED <<publishStatus, analysis>>

(* Commit of the outbox session: the rows it has updated become sent.      *)
CommitNothing == UNCHANGED rowVars      \* mutant: the marks are not committed

MarkWithoutWhere ==                     \* mutant: UPDATE without its WHERE
    /\ publishStatus' = [p \in Photos |->
                           IF marked # {} THEN "sent" ELSE publishStatus[p]]
    /\ UNCHANGED <<status, attempts, lastError, analysis>>

CommitPublished ==
    /\ publishStatus' = [p \in Photos |->
                           IF p \in marked THEN "sent" ELSE publishStatus[p]]
    /\ UNCHANGED <<status, attempts, lastError, analysis>>

-----------------------------------------------------------------------------
(* SELECT ... WHERE publish_status='not_sent' ORDER BY created_at LIMIT n: *)
(* the sets of rows it may return, ties being cut anywhere.                *)
Unpublished == {p \in Photos : status[p] # Absent /\ publishStatus[p] = "not_sent"}

FetchUnpublished(n) ==
    {R \in SUBSET Unpublished :
        /\ Cardinality(R) <= n
        /\ R # Unpublished => Cardinality(R) = n
        /\ \A p \in R, q \in Unpublished \ R : CreatedAt[p] <= CreatedAt[q]}

(* The rows of a fetched batch that may come next in created_at order.     *)
Oldest(R) == {p \in R : \A q \in R : CreatedAt[p] <= CreatedAt[q]}
=============================================================================
