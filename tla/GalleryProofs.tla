---------------------------- MODULE GalleryProofs ----------------------------
(***************************************************************************)
(* Theorems about Gallery, for every set of photos and uploads, every page *)
(* size and every interleaving of uploads with the walk.                   *)
(***************************************************************************)
EXTENDS Gallery, FiniteSetTheorems, TLAPS

USE GalleryAssumption

(* The rows that sort before p for sure.                                   *)
Newer(p) == {q \in committed : createdAt[q] > createdAt[p]}

Untied(p) == p \in committed /\ ~Tied(p)

(* A photo committed during the walk pushed p down the list.               *)
Pushed(p) == \E q \in committed \ known : createdAt[q] > createdAt[p]

-----------------------------------------------------------------------------
TypeInv ==
    /\ TypeOK
    /\ createdAt \in [Inserted -> Nat]
    /\ now \in Nat
    /\ walk = "before" => seen = {} /\ repeated = {} /\ offset = 0

LEMMA Finite ==
    ASSUME TypeOK, NEW S \in SUBSET committed
    PROVE  /\ IsFiniteSet(S) /\ IsFiniteSet(committed)
           /\ Cardinality(S) \in Nat /\ Cardinality(committed) \in Nat
           /\ Cardinality(S) <= Cardinality(committed)
           /\ S # committed => Cardinality(S) < Cardinality(committed)
<1>1. committed \subseteq Photos
  BY DEF TypeOK
<1>2. IsFiniteSet(committed)
  BY <1>1, FS_Subset
<1> QED
  BY <1>2, FS_Subset, FS_CardinalityType

(* A page is cut out of the list by two prefixes of it.                    *)
LEMMA PageIsCut ==
    ASSUME TypeOK, NEW page \in Pages(offset)
    PROVE  \E B, U \in SUBSET committed :
             /\ B \subseteq U /\ page = U \ B
             /\ Cardinality(B) = AtMost(offset) /\ Cardinality(U) = AtMost(offset + Limit)
             /\ \A p \in B, q \in committed \ B : createdAt[p] >= createdAt[q]
             /\ \A p \in U, q \in committed \ U : createdAt[p] >= createdAt[q]
  BY DEF Pages, First, Visible

(* The rows that tie with nothing have their place in every prefix.        *)
LEMMA PrefixWith ==
    ASSUME TypeInv, NEW S \in SUBSET committed, NEW p \in S,
           \A s \in S, q \in committed \ S : createdAt[s] >= createdAt[q]
    PROVE  Cardinality(Newer(p)) < Cardinality(S)
<1>1. /\ \A q \in committed : createdAt[q] \in Nat
  BY DEF TypeInv, TypeOK
<1>2. Newer(p) \subseteq S /\ p \notin Newer(p)
  BY <1>1 DEF Newer
<1> QED
  BY <1>2, Finite, FS_Subset DEF TypeInv

LEMMA PrefixWithout ==
    ASSUME TypeInv, NEW S \in SUBSET committed, NEW p \in committed \ S, Untied(p),
           \A s \in S, q \in committed \ S : createdAt[s] >= createdAt[q]
    PROVE  Cardinality(S) <= Cardinality(Newer(p))
<1>1. \A q \in committed : createdAt[q] \in Nat
  BY DEF TypeInv, TypeOK
<1>2. S \subseteq Newer(p)
  BY <1>1 DEF Newer, Untied, Tied
<1>3. Newer(p) \subseteq committed
  BY DEF Newer
<1> QED
  BY <1>2, <1>3, Finite, FS_Subset DEF TypeInv

-----------------------------------------------------------------------------
(* While the client walks, a photo it has not seen that was there, and     *)
(* that ties with none, has at least offset photos before it; and one it   *)
(* has seen has fewer, unless it was pushed down.                          *)
PlaceInv ==
    /\ walk = "walking" => \A p \in known \ seen :
          Untied(p) => offset <= Cardinality(Newer(p))
    /\ walk = "walking" => \A p \in seen :
          Untied(p) /\ ~Pushed(p) => Cardinality(Newer(p)) < offset

WalkInv == TypeInv /\ PlaceInv /\ SkipsOnlyTies /\ RepeatsHaveACause

LEMMA TypeInvStep ==
    ASSUME TypeInv, [Next]_vars
    PROVE  TypeInv'
<1> USE DEF TypeInv, TypeOK, tableVars, clientVars
<1>1. ASSUME NEW P \in Uploads, Insert(P)
      PROVE  TypeInv'
  <2>1. P \subseteq Photos /\ Inserted' = Inserted \cup P
    BY <1>1 DEF Insert, Inserted
  <2> QED
    BY <1>1, <2>1 DEF Insert
<1>2. ASSUME NEW P \in Uploads, Commit(P)
      PROVE  TypeInv'
  BY <1>2 DEF Commit, Inserted
<1>3. CASE Tick
  BY <1>3 DEF Tick, Inserted
<1>4. CASE Begin
  BY <1>4 DEF Begin, Inserted
<1>5. CASE ReadPage
  <2>1. PICK page \in Pages(offset) :
          /\ seen' = seen \cup page
          /\ repeated' = repeated \cup (seen \cap page)
          /\ walk' = IF Cardinality(page) < Limit THEN "ended" ELSE "walking"
    BY <1>5 DEF ReadPage
  <2>2. page \subseteq committed
    BY <2>1, PageIsCut
  <2> QED
    BY <1>5, <2>1, <2>2 DEF ReadPage, Inserted
<1>6. CASE UNCHANGED vars
  BY <1>6 DEF vars, Inserted
<1> QED
  BY <1>1, <1>2, <1>3, <1>4, <1>5, <1>6 DEF Next

(* Uploads only push photos down: what sorts before one still does, a tie  *)
(* remains a tie, and a photo that is new to the list is new to the walk.  *)
LEMMA UploadsKeepPlaces ==
    ASSUME WalkInv, TypeInv', UNCHANGED clientVars,
           committed \subseteq committed',
           \A p \in committed : createdAt'[p] = createdAt[p]
    PROVE  PlaceInv' /\ SkipsOnlyTies' /\ RepeatsHaveACause'
<1>1. TypeInv /\ known \subseteq committed /\ seen \subseteq committed
      /\ repeated \subseteq committed
  BY DEF WalkInv, TypeInv, TypeOK
<1>2. \A p \in committed : Tied(p) => Tied(p)'
  BY DEF Tied
<1>3. \A p \in committed : Pushed(p) => Pushed(p)'
  BY DEF Pushed, clientVars
<1>4. SkipsOnlyTies' /\ RepeatsHaveACause'
  BY <1>1, <1>2, <1>3 DEF WalkInv, SkipsOnlyTies, RepeatsHaveACause, Pushed, clientVars
<1>5. ASSUME NEW p \in committed
      PROVE  /\ Cardinality(Newer(p)) <= Cardinality(Newer(p)')
             /\ Cardinality(Newer(p)) \in Nat /\ Cardinality(Newer(p)') \in Nat
  <2>1. Newer(p) \subseteq Newer(p)' /\ Newer(p) \subseteq committed /\ Newer(p)' \subseteq committed'
    BY DEF Newer
  <2>2. IsFiniteSet(committed')
    BY FS_Subset DEF TypeInv, TypeOK
  <2> HIDE DEF Newer
  <2> QED
    BY <1>1, <2>1, <2>2, FS_Subset, FS_CardinalityType
<1>6. ASSUME NEW p \in committed, ~Pushed(p)', walk = "walking"
      PROVE  Newer(p)' = Newer(p)
  <2>1. ASSUME NEW q \in committed', createdAt'[q] > createdAt'[p]
        PROVE  q \in committed
    BY <1>1, <1>6, <2>1 DEF Pushed, clientVars
  <2> QED
    BY <2>1 DEF Newer
<1>7. offset \in Nat
  BY <1>1 DEF TypeInv, TypeOK
<1>8. PlaceInv'
  <2>1. ASSUME walk = "walking", NEW p \in known \ seen, Untied(p)'
        PROVE  offset <= Cardinality(Newer(p)')
    <3>1. p \in committed /\ Untied(p)
      BY <1>1, <1>2, <2>1 DEF Untied
    <3>2. offset <= Cardinality(Newer(p))
      BY <2>1, <3>1 DEF WalkInv, PlaceInv
    <3> QED
      BY <1>5, <1>7, <3>1, <3>2
  <2>2. ASSUME walk = "walking", NEW p \in seen, Untied(p)', ~Pushed(p)'
        PROVE  Cardinality(Newer(p)') < offset
    <3>1. p \in committed /\ Untied(p) /\ ~Pushed(p)
      BY <1>1, <1>2, <1>3, <2>2 DEF Untied
    <3>2. Cardinality(Newer(p)) < offset
      BY <2>2, <3>1 DEF WalkInv, PlaceInv
    <3> QED
      BY <1>6, <2>2, <3>1, <3>2
  <2> QED
    BY <2>1, <2>2 DEF PlaceInv, clientVars
<1> QED
  BY <1>4, <1>8

LEMMA BeginPlaces ==
    ASSUME WalkInv, Begin
    PROVE  PlaceInv' /\ SkipsOnlyTies' /\ RepeatsHaveACause'
<1>1. /\ walk' = "walking" /\ seen' = {} /\ repeated' = {} /\ offset' = 0
      /\ TypeOK /\ UNCHANGED <<committed, createdAt>>
  BY DEF Begin, WalkInv, TypeInv, tableVars
<1>2. \A p \in committed : Cardinality(Newer(p)) >= 0 /\ Newer(p)' = Newer(p)
  <2> SUFFICES ASSUME NEW p \in committed
               PROVE  Cardinality(Newer(p)) >= 0 /\ Newer(p)' = Newer(p)
    OBVIOUS
  <2>1. Newer(p) \in SUBSET committed /\ Newer(p)' = Newer(p)
    BY <1>1 DEF Newer
  <2> QED
    BY <1>1, <2>1, Finite
<1>3. known' \subseteq committed
  BY DEF Begin
<1> QED
  BY <1>1, <1>2, <1>3 DEF PlaceInv, SkipsOnlyTies, RepeatsHaveACause

(* A page: the client has passed everything up to the upper cut, and shown *)
(* again is only what was pushed below the lower one.                      *)
LEMMA ReadPagePlaces ==
    ASSUME WalkInv, ReadPage
    PROVE  PlaceInv' /\ SkipsOnlyTies' /\ RepeatsHaveACause'
<1>1. PICK page \in Pages(offset) :
        /\ seen' = seen \cup page
        /\ repeated' = repeated \cup (seen \cap page)
        /\ walk' = IF Cardinality(page) < Limit THEN "ended" ELSE "walking"
  BY DEF ReadPage
<1>2. /\ TypeInv /\ TypeOK /\ walk = "walking" /\ offset' = offset + Limit
      /\ UNCHANGED <<committed, createdAt, known>>
      /\ known \subseteq committed /\ seen \subseteq committed
      /\ repeated \subseteq committed
      /\ offset \in Nat /\ Limit \in Nat \ {0}
  BY DEF ReadPage, WalkInv, TypeInv, TypeOK, tableVars
<1>3. PICK B \in SUBSET committed, U \in SUBSET committed :
        /\ B \subseteq U /\ page = U \ B
        /\ Cardinality(B) = AtMost(offset) /\ Cardinality(U) = AtMost(offset + Limit)
        /\ \A p \in B, q \in committed \ B : createdAt[p] >= createdAt[q]
        /\ \A p \in U, q \in committed \ U : createdAt[p] >= createdAt[q]
  BY <1>2, PageIsCut
<1>4. /\ Cardinality(B) \in Nat /\ Cardinality(U) \in Nat /\ Cardinality(committed) \in Nat
      /\ Cardinality(page) = Cardinality(U) - Cardinality(B)
      /\ U # committed => Cardinality(U) < Cardinality(committed)
      /\ B # committed => Cardinality(B) < Cardinality(committed)
  <2>1. IsFiniteSet(U) /\ U \cap B = B
    BY <1>2, <1>3, Finite
  <2>2. Cardinality(U \ B) = Cardinality(U) - Cardinality(B)
    <3>1. Cardinality(U \ B) = Cardinality(U) - Cardinality(U \cap B)
      BY <2>1, FS_Difference
    <3> QED
      BY <2>1, <3>1
  <2>3. /\ Cardinality(B) \in Nat /\ Cardinality(committed) \in Nat
        /\ B # committed => Cardinality(B) < Cardinality(committed)
    BY <1>2, Finite
  <2>4. /\ Cardinality(U) \in Nat
        /\ U # committed => Cardinality(U) < Cardinality(committed)
    BY <1>2, Finite
  <2> QED
    BY <1>3, <2>2, <2>3, <2>4
<1>5. \A p \in committed : /\ Newer(p)' = Newer(p) /\ (Untied(p)' <=> Untied(p))
                           /\ (Pushed(p)' <=> Pushed(p)) /\ (Tied(p)' <=> Tied(p))
                           /\ Cardinality(Newer(p)) \in Nat
  <2> SUFFICES ASSUME NEW p \in committed
               PROVE  /\ Newer(p)' = Newer(p) /\ (Untied(p)' <=> Untied(p))
                      /\ (Pushed(p)' <=> Pushed(p)) /\ (Tied(p)' <=> Tied(p))
                      /\ Cardinality(Newer(p)) \in Nat
    OBVIOUS
  <2>1. Newer(p) \in SUBSET committed /\ Newer(p)' = Newer(p)
    BY <1>2 DEF Newer
  <2>2. (Untied(p)' <=> Untied(p)) /\ (Pushed(p)' <=> Pushed(p)) /\ (Tied(p)' <=> Tied(p))
    BY <1>2 DEF Untied, Pushed, Tied
  <2> QED
    BY <1>2, <2>1, <2>2, Finite
<1>6. ASSUME NEW p \in known \ seen', Untied(p)
      PROVE  /\ offset + Limit <= Cardinality(Newer(p))
             /\ Cardinality(page) = Limit
  <2>1. p \in committed /\ p \notin seen /\ p \notin page
    BY <1>1, <1>2, <1>6
  <2>2. offset <= Cardinality(Newer(p))
    BY <1>2, <1>6, <2>1 DEF WalkInv, PlaceInv
  <2>3. p \notin B
    <3>1. SUFFICES ASSUME p \in B PROVE FALSE
      OBVIOUS
    <3>2. Cardinality(Newer(p)) < Cardinality(B)
      BY <1>2, <1>3, <3>1, PrefixWith
    <3> QED
      BY <1>2, <1>3, <1>4, <1>5, <2>1, <2>2, <3>2 DEF AtMost, Visible
  <2>4. p \in committed \ U
    BY <1>3, <2>1, <2>3
  <2>5. Cardinality(U) <= Cardinality(Newer(p))
    BY <1>2, <1>3, <1>6, <2>4, PrefixWithout
  <2>6. Cardinality(U) = offset + Limit
    BY <1>2, <1>3, <1>4, <2>4 DEF AtMost, Visible
  <2>7. Cardinality(B) = offset
    BY <1>2, <1>3, <1>4, <2>4, <2>6 DEF AtMost, Visible
  <2> QED
    BY <1>2, <1>4, <2>5, <2>6, <2>7
<1>7. ASSUME NEW p \in seen', Untied(p), ~Pushed(p)
      PROVE  /\ Cardinality(Newer(p)) < offset + Limit
             /\ p \notin seen \cap page
  <2>1. p \in committed
    BY <1>1, <1>2, <1>3, <1>7
  <2>2. p \in seen => Cardinality(Newer(p)) < offset
    BY <1>2, <1>7 DEF WalkInv, PlaceInv
  <2>3. p \in page => Cardinality(Newer(p)) < offset + Limit
    <3>1. SUFFICES ASSUME p \in page PROVE Cardinality(Newer(p)) < offset + Limit
      OBVIOUS
    <3>2. Cardinality(Newer(p)) < Cardinality(U)
      BY <1>2, <1>3, <3>1, PrefixWith
    <3> QED
      BY <1>2, <1>3, <1>4, <1>5, <2>1, <3>2 DEF AtMost, Visible
  <2>4. p \notin seen \cap page
    <3>1. SUFFICES ASSUME p \in seen, p \in page PROVE FALSE
      OBVIOUS
    <3>2. p \in committed \ B
      BY <1>3, <2>1, <3>1
    <3>3. Cardinality(B) <= Cardinality(Newer(p))
      BY <1>2, <1>3, <1>7, <3>2, PrefixWithout
    <3>4. Cardinality(B) < offset /\ Cardinality(B) < Cardinality(committed)
      BY <1>2, <1>4, <1>5, <2>1, <2>2, <3>1, <3>2, <3>3
    <3> QED
      BY <1>2, <1>3, <1>4, <3>4 DEF AtMost, Visible
  <2> QED
    BY <1>1, <1>2, <1>5, <1>7, <2>1, <2>2, <2>3, <2>4
<1>8. SkipsOnlyTies'
  <2> SUFFICES ASSUME walk' = "ended", NEW p \in known' \ seen'
               PROVE  Tied(p)'
    BY DEF SkipsOnlyTies
  <2>1. Cardinality(page) < Limit
    BY <1>1
  <2>2. p \in known \ seen' /\ p \in committed
    BY <1>2
  <2> QED
    BY <1>2, <1>4, <1>5, <1>6, <2>1, <2>2 DEF Untied
<1>9. PlaceInv'
  <2>1. ASSUME NEW p \in known' \ seen', Untied(p)'
        PROVE  offset' <= Cardinality(Newer(p)')
    <3>1. p \in known \ seen' /\ p \in committed /\ Untied(p)
      BY <1>2, <1>5, <2>1
    <3> QED
      BY <1>2, <1>5, <1>6, <3>1
  <2>2. ASSUME NEW p \in seen', Untied(p)', ~Pushed(p)'
        PROVE  Cardinality(Newer(p)') < offset'
    <3>1. p \in committed
      BY <1>1, <1>2, <1>3
    <3>2. Untied(p) /\ ~Pushed(p)
      BY <1>5, <2>2, <3>1
    <3> QED
      BY <1>2, <1>5, <1>7, <3>1, <3>2
  <2> QED
    BY <2>1, <2>2 DEF PlaceInv
<1>10. RepeatsHaveACause'
  <2> SUFFICES ASSUME NEW p \in repeated'
               PROVE  Tied(p)' \/ Pushed(p)'
    BY DEF RepeatsHaveACause, Pushed
  <2>1. p \in committed
    BY <1>1, <1>2
  <2>2. CASE p \in repeated
    BY <1>5, <2>1, <2>2 DEF WalkInv, RepeatsHaveACause, Pushed
  <2>3. CASE p \in seen \cap page
    BY <1>1, <1>5, <1>7, <2>1, <2>3 DEF Untied
  <2> QED
    BY <1>1, <2>2, <2>3
<1> QED
  BY <1>8, <1>9, <1>10

LEMMA WalkInvStep ==
    ASSUME WalkInv, [Next]_vars
    PROVE  WalkInv'
<1>1. TypeInv /\ TypeInv'
  BY TypeInvStep DEF WalkInv
<1>2. ASSUME \/ \E P \in Uploads : Insert(P) \/ Commit(P)
             \/ Tick
             \/ UNCHANGED vars
      PROVE  /\ UNCHANGED clientVars /\ committed \subseteq committed'
             /\ \A p \in committed : createdAt'[p] = createdAt[p]
  BY <1>1, <1>2 DEF Insert, Commit, Tick, vars, tableVars, TypeInv, TypeOK, Inserted
<1> QED
  BY <1>1, <1>2, UploadsKeepPlaces, BeginPlaces, ReadPagePlaces DEF WalkInv, Next

LEMMA WalkInvInit == Init => WalkInv
<1> SUFFICES ASSUME Init
             PROVE  WalkInv
  OBVIOUS
<1>1. TypeInv
  BY DEF Init, TypeInv, TypeOK, Inserted
<1> QED
  BY <1>1 DEF Init, WalkInv, PlaceInv, SkipsOnlyTies, RepeatsHaveACause

LEMMA WalksAreSound == Spec => []WalkInv
  BY WalkInvInit, WalkInvStep, PTL DEF Spec

(* Types; and no page shows a row that is not committed.                   *)
THEOREM GalleryTypes == Spec => []TypeOK
<1>1. WalkInv => TypeOK
  BY DEF WalkInv, TypeInv
<1> QED
  BY <1>1, WalksAreSound, PTL

(* Paging by offset skips a photo only if it ties with another, however    *)
(* many photos are uploaded during the walk and in whatever order they     *)
(* commit.                                                                 *)
THEOREM WalksSkipOnlyTies == Spec => []SkipsOnlyTies
<1>1. WalkInv => SkipsOnlyTies
  BY DEF WalkInv
<1> QED
  BY <1>1, WalksAreSound, PTL

(* And it repeats one only for a tie, or for an upload that sorts first.   *)
THEOREM RepeatsAreCaused == Spec => []RepeatsHaveACause
<1>1. WalkInv => RepeatsHaveACause
  BY DEF WalkInv
<1> QED
  BY <1>1, WalksAreSound, PTL

(* So pagination is exact for the client that walks over photos which do   *)
(* not tie and while none is committed: every photo once.                  *)
THEOREM QuietWalkIsExact ==
    Spec => [](walk = "ended" /\ committed = known /\ (\A p \in committed : ~Tied(p))
                 => seen = known /\ repeated = {})
<1>1. TypeOK /\ SkipsOnlyTies /\ RepeatsHaveACause
        => (walk = "ended" /\ committed = known /\ (\A p \in committed : ~Tied(p))
              => seen = known /\ repeated = {})
  BY DEF TypeOK, SkipsOnlyTies, RepeatsHaveACause
<1> QED
  BY <1>1, GalleryTypes, WalksSkipOnlyTies, RepeatsAreCaused, PTL
=============================================================================
