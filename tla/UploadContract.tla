--------------------------- MODULE UploadContract ---------------------------
(***************************************************************************)
(* What the photo endpoints promise to their clients, in one atomic step   *)
(* per answer: an upload makes all its photos available or none of them,   *)
(* its status code says which, and a download finds exactly what is        *)
(* available.  Upload, with its transaction, its bucket, its threads and   *)
(* its compensations, implements this specification.                       *)
(***************************************************************************)
EXTENDS Naturals, Sequences

CONSTANTS
    Requests,
    Endpoint,       \* "photo", "batch" or "content", of each request
    Files           \* the photos it would create, or asks for

VARIABLES
    available,      \* the photos a client can find and download
    answer,         \* the status code of each answer, 0 before it
    gone            \* the requests that died with the process

vars == <<available, answer, gone>>

PhotosOf(r) == {Files[r][i] : i \in 1..Len(Files[r])}
IsDownload(r) == Endpoint[r] = "content"

Init ==
    /\ available = {}
    /\ answer = [r \in Requests |-> 0]
    /\ gone = {}

Open(r) == answer[r] = 0 /\ r \notin gone

Reply(r, codes) ==
    /\ Open(r)
    /\ \E code \in codes : answer' = [answer EXCEPT ![r] = code]
    /\ UNCHANGED gone

(* 202: every photo of the request is available.                           *)
Accept(r) ==
    /\ ~IsDownload(r)
    /\ Reply(r, {202})
    /\ available' = available \cup PhotosOf(r)

(* 4xx and 503: none is, and none will be.                                 *)
Refuse(r) ==
    /\ ~IsDownload(r)
    /\ Reply(r, {400, 413, 415, 503})
    /\ UNCHANGED available

(* 500: the client does not know, but it is all or nothing.                *)
Fail(r) ==
    /\ ~IsDownload(r)
    /\ Reply(r, {500})
    /\ available' \in {available, available \cup PhotosOf(r)}

Serve(r) ==
    /\ IsDownload(r)
    /\ Reply(r, {200})
    /\ PhotosOf(r) \subseteq available
    /\ UNCHANGED available

(* 404: the photo is not available now, so no client has been told of it.  *)
Miss(r) ==
    /\ IsDownload(r)
    /\ Reply(r, {404})
    /\ PhotosOf(r) \cap available = {}
    /\ UNCHANGED available

DownloadFails(r) ==
    /\ IsDownload(r)
    /\ Reply(r, {500, 503})
    /\ UNCHANGED available

(* The process dies.  Uploads that were about to be accepted may have been *)
(* committed, each with all its photos.                                    *)
Die ==
    /\ \E S \in SUBSET {r \in Requests : Open(r)} : gone' = gone \cup S
    /\ \E C \in SUBSET {r \in gone' \ gone : ~IsDownload(r)} :
         available' = available \cup UNION {PhotosOf(r) : r \in C}
    /\ UNCHANGED answer

Next ==
    \/ \E r \in Requests :
         \/ Accept(r) \/ Refuse(r) \/ Fail(r)
         \/ Serve(r) \/ Miss(r) \/ DownloadFails(r)
    \/ Die

Spec == Init /\ [][Next]_vars
=============================================================================
