------------------------------ MODULE Gallery -------------------------------
(***************************************************************************)
(* GET /v1/photos?limit=&offset=: a client walks through the list of       *)
(* photos page by page while others upload.  PhotoRepository.list orders   *)
(* by created_at alone, newest first.  created_at is the start of the      *)
(* uploading transaction: the photos of a batch share it, and since the    *)
(* transaction stays open through the saves, photos appear in the list in  *)
(* another order than they are sorted in.                                  *)
(***************************************************************************)
EXTENDS Naturals, FiniteSets

CONSTANTS
    Photos,
    Uploads,    \* the sets of photos one transaction inserts
    Limit,      \* the limit the client asks for
    MaxTime     \* bound: how often the clock of the database ticks

ASSUME GalleryAssumption ==
    /\ IsFiniteSet(Photos)
    /\ Uploads \subseteq SUBSET Photos
    /\ \A P, Q \in Uploads : P # Q => P \cap Q = {}
    /\ Limit \in Nat \ {0}
    /\ MaxTime \in Nat

VARIABLES
    now,        \* the clock of the database
    createdAt,  \* photos.created_at, of the photos inserted so far
    committed,  \* the photos whose transaction has committed
    walk,       \* the client: "before", "walking" or "ended"
    offset,     \* of the page it asks for next
    known,      \* the photos that were committed when it began
    seen,       \* those it has been shown
    repeated    \* those it has been shown twice

tableVars == <<now, createdAt, committed>>
clientVars == <<walk, offset, known, seen, repeated>>
vars == <<tableVars, clientVars>>

Init ==
    /\ now = 0
    /\ createdAt = [p \in {} |-> 0]
    /\ committed = {}
    /\ walk = "before"
    /\ offset = 0
    /\ known = {}
    /\ seen = {}
    /\ repeated = {}

-----------------------------------------------------------------------------
(* The first INSERT begins a transaction, and with it fixes now().         *)
Inserted == DOMAIN createdAt

Insert(P) ==
    /\ P \cap Inserted = {}
    /\ createdAt' = [p \in Inserted \cup P |-> IF p \in P THEN now ELSE createdAt[p]]
    /\ UNCHANGED <<now, committed, clientVars>>

(* A transaction that is rolled back is one that never commits.            *)
Commit(P) ==
    /\ P \subseteq Inserted \ committed
    /\ committed' = committed \cup P
    /\ UNCHANGED <<now, createdAt, clientVars>>

Tick ==
    /\ now < MaxTime
    /\ now' = now + 1
    /\ UNCHANGED <<createdAt, committed, clientVars>>

-----------------------------------------------------------------------------
(* What a SELECT sees; and the sets of rows its ORDER BY may put first,    *)
(* ties being cut anywhere.                                                *)
DirtyRows == Inserted           \* mutant: uncommitted rows are visible

Visible == committed

AnyFirst(n) == {S \in SUBSET Visible : Cardinality(S) = n}  \* mutant: no ORDER BY

OldestFirst(n) ==               \* mutant: ORDER BY created_at, ascending
    {S \in SUBSET Visible :
        /\ Cardinality(S) = n
        /\ \A p \in S, q \in Visible \ S : createdAt[p] <= createdAt[q]}

First(n) ==
    {S \in SUBSET Visible :
        /\ Cardinality(S) = n
        /\ \A p \in S, q \in Visible \ S : createdAt[p] >= createdAt[q]}

AtMost(n) == IF n <= Cardinality(Visible) THEN n ELSE Cardinality(Visible)

(* OFFSET o LIMIT Limit: two cuts in one order of the rows.                *)
Pages(o) ==
    LET Cuts == [before : First(AtMost(o)), upto : First(AtMost(o + Limit))]
    IN  {cut.upto \ cut.before : cut \in {c \in Cuts : c.before \subseteq c.upto}}

(* The client asks for page after page, until one is not full.             *)
Begin ==
    /\ walk = "before"
    /\ walk' = "walking"
    /\ known' = committed
    /\ UNCHANGED <<tableVars, offset, seen, repeated>>

ReadPage ==
    /\ walk = "walking"
    /\ \E page \in Pages(offset) :
         /\ seen' = seen \cup page
         /\ repeated' = repeated \cup (seen \cap page)
         /\ walk' = IF Cardinality(page) < Limit THEN "ended" ELSE "walking"
    /\ offset' = offset + Limit
    /\ UNCHANGED <<tableVars, known>>

Next ==
    \/ \E P \in Uploads : Insert(P) \/ Commit(P)
    \/ Tick
    \/ Begin
    \/ ReadPage

Spec == Init /\ [][Next]_vars

-----------------------------------------------------------------------------
(* Types; and no page shows a row that is not committed.                   *)
TypeOK ==
    /\ now \in 0..MaxTime
    /\ Inserted \subseteq Photos
    /\ \A p \in Inserted : createdAt[p] \in 0..now
    /\ committed \subseteq Inserted
    /\ walk \in {"before", "walking", "ended"}
    /\ offset \in Nat
    /\ known \subseteq committed
    /\ seen \subseteq committed
    /\ repeated \subseteq seen

Tied(p) == \E q \in committed \ {p} : createdAt[q] = createdAt[p]

(* list: a walk shows every photo that was there when it began, whatever   *)
(* is uploaded meanwhile, unless the photo shares its created_at with      *)
(* another, as the photos of a batch do: ORDER BY leaves their order open, *)
(* and two pages may cut it differently.                                   *)
SkipsOnlyTies ==
    walk = "ended" => \A p \in known \ seen : Tied(p)

(* list: a photo is shown twice only because of such a tie, or because a   *)
(* photo that sorts before it was committed during the walk.               *)
RepeatsHaveACause ==
    \A p \in repeated :
        \/ Tied(p)
        \/ \E q \in committed \ known : createdAt[q] > createdAt[p]
=============================================================================
