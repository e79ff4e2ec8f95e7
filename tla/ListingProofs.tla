---------------------------- MODULE ListingProofs ----------------------------
(* Proofs about Listing for any number of rows, page sizes and lengths of  *)
(* a scan.                                                                 *)
EXTENDS Listing, FiniteSetTheorems, TLAPS

-----------------------------------------------------------------------------
(* Sets of rows are finite, and their sizes numbers.                       *)
LEMMA RowSets == ASSUME NEW S \in SUBSET Rows
                 PROVE  IsFiniteSet(S) /\ Cardinality(S) \in Nat
<1>1. IsFiniteSet(Rows) BY FS_Interval, SizeAssumption DEF Rows
<1>2. IsFiniteSet(S) BY <1>1, FS_Subset
<1> QED BY <1>2, FS_CardinalityType

LEMMA RowSetsGrow == ASSUME NEW T \in SUBSET Rows, NEW S \in SUBSET T
                     PROVE  Cardinality(S) <= Cardinality(T)
BY RowSets, FS_Subset

LEMMA RowSetsDiffer == ASSUME NEW T \in SUBSET Rows, NEW S \in SUBSET T, S # T
                       PROVE  Cardinality(S) < Cardinality(T)
BY RowSets, FS_Subset

LEMMA RowAdded == ASSUME NEW S \in SUBSET Rows, NEW x \in Rows, x \notin S
                  PROVE  Cardinality(S \cup {x}) = Cardinality(S) + 1
BY RowSets, FS_AddElement

LEMMA RowRemoved == ASSUME NEW S \in SUBSET Rows, NEW x \in S
                    PROVE  Cardinality(S \ {x}) = Cardinality(S) - 1
BY RowSets, FS_RemoveElement

LEMMA OneMore == ASSUME NEW S \in SUBSET Rows, NEW x \in Rows, NEW T \in SUBSET (S \cup {x})
                 PROVE  Cardinality(T) <= Cardinality(S) + 1
<1>1. S \cup {x} \in SUBSET Rows OBVIOUS
<1>2. Cardinality(T) <= Cardinality(S \cup {x}) BY <1>1, RowSetsGrow
<1>3. Cardinality(S \cup {x}) <= Cardinality(S) + 1 BY RowSets, FS_AddElement
<1>4. Cardinality(S) \in Nat /\ Cardinality(T) \in Nat /\ Cardinality(S \cup {x}) \in Nat
  BY <1>1, RowSets
<1> QED BY <1>2, <1>3, <1>4

-----------------------------------------------------------------------------
(* Positions in any set of rows L, listed newest first or last.            *)
Before(L, n, r) == {s \in L : IF n THEN s > r ELSE s < r}
Position(L, n, r) == Cardinality(Before(L, n, r))

LEMMA RankIsPosition == \A r : /\ Ahead(r) = Before(Listed, newest, r)
                               /\ Rank(r) = Position(Listed, newest, r)
BY DEF Ahead, Rank, Before, Position

LEMMA PositionType ==
    ASSUME NEW L \in SUBSET Rows, NEW n \in BOOLEAN, NEW r
    PROVE  Before(L, n, r) \in SUBSET L /\ Position(L, n, r) \in Nat
<1>1. Before(L, n, r) \in SUBSET L BY DEF Before
<1> QED BY <1>1, RowSets DEF Position

LEMMA PositionOrder ==
    ASSUME NEW L \in SUBSET Rows, NEW n \in BOOLEAN, NEW r \in L, NEW s \in Before(L, n, r)
    PROVE  Position(L, n, s) < Position(L, n, r)
<1>1. s \in L /\ r \in Int /\ s \in Int /\ L \subseteq Int BY DEF Before, Rows
<1>2. s \notin Before(L, n, s) BY <1>1 DEF Before
<1>4. ASSUME NEW t \in Before(L, n, s) PROVE t \in Before(L, n, r)
  <2>1. t \in L /\ t \in Int BY <1>1 DEF Before
  <2>2. CASE n
    <3>1. t > s /\ s > r BY <2>2 DEF Before
    <3> QED BY <1>1, <2>1, <2>2, <3>1 DEF Before
  <2>3. CASE ~n
    <3>1. t < s /\ s < r BY <2>3 DEF Before
    <3> QED BY <1>1, <2>1, <2>3, <3>1 DEF Before
  <2> QED BY <2>2, <2>3
<1>3. Before(L, n, r) \in SUBSET Rows BY PositionType
<1> QED BY <1>2, <1>3, <1>4, RowSetsDiffer DEF Position

(* No two rows are in the same place.                                      *)
LEMMA PositionsDiffer ==
    ASSUME NEW L \in SUBSET Rows, NEW n \in BOOLEAN, NEW r \in L, NEW s \in L,
           Position(L, n, r) = Position(L, n, s)
    PROVE  r = s
<1>1. r \in Int /\ s \in Int BY DEF Rows
<1>2. Position(L, n, r) \in Nat BY PositionType
<1>3. s \notin Before(L, n, r) /\ r \notin Before(L, n, s) BY <1>2, PositionOrder
<1> QED BY <1>1, <1>3 DEF Before

LEMMA PositionInside ==
    ASSUME NEW L \in SUBSET Rows, NEW n \in BOOLEAN, NEW r \in L
    PROVE  Position(L, n, r) < Cardinality(L)
<1>1. Before(L, n, r) \in SUBSET L /\ r \notin Before(L, n, r) BY DEF Before, Rows
<1> QED BY <1>1, RowSetsDiffer DEF Position

LEMMA PositionEnter ==
    ASSUME NEW L \in SUBSET Rows, NEW n \in BOOLEAN, NEW x \in Rows, x \notin L, NEW r
    PROVE  Position(L \cup {x}, n, r) \in {Position(L, n, r), Position(L, n, r) + 1}
<1>1. Before(L \cup {x}, n, r) \in {Before(L, n, r), Before(L, n, r) \cup {x}} BY DEF Before
<1>2. Before(L, n, r) \in SUBSET Rows /\ x \notin Before(L, n, r) BY DEF Before
<1>3. Cardinality(Before(L, n, r) \cup {x}) = Position(L, n, r) + 1
  BY <1>2, RowAdded DEF Position
<1> QED BY <1>1, <1>3 DEF Position

LEMMA PositionLeave ==
    ASSUME NEW L \in SUBSET Rows, NEW n \in BOOLEAN, NEW x \in L, NEW r
    PROVE  Position(L \ {x}, n, r) \in {Position(L, n, r), Position(L, n, r) - 1}
<1>1. CASE x \in Before(L, n, r)
  <2>1. Before(L \ {x}, n, r) = Before(L, n, r) \ {x} BY DEF Before
  <2>2. Before(L, n, r) \in SUBSET Rows BY PositionType
  <2> QED BY <1>1, <2>1, <2>2, RowRemoved DEF Position
<1>2. CASE x \notin Before(L, n, r)
  <2>1. Before(L \ {x}, n, r) = Before(L, n, r) BY <1>2 DEF Before
  <2> QED BY <2>1 DEF Position
<1> QED BY <1>1, <1>2

(* So k places hold at most k rows.                                        *)
LEMMA PlacesHold ==
    ASSUME NEW L \in SUBSET Rows, NEW n \in BOOLEAN, NEW a \in Nat, NEW k \in Nat
    PROVE  Cardinality({r \in L : a <= Position(L, n, r) /\ Position(L, n, r) < a + k}) <= k
<1> DEFINE S == {r \in L : a <= Position(L, n, r) /\ Position(L, n, r) < a + k}
           T == a .. (a + k - 1)
           f == [r \in S |-> Position(L, n, r)]
<1>1. \A r \in S : Position(L, n, r) \in T
  <2> SUFFICES ASSUME NEW r \in S PROVE Position(L, n, r) \in T OBVIOUS
  <2>1. Position(L, n, r) \in Nat BY PositionType
  <2> QED BY <2>1
<1>2. f \in [S -> T] BY <1>1
<1>3. \A r, s \in S : f[r] = f[s] => r = s BY PositionsDiffer
<1>4. f \in Injection(S, T) BY <1>2, <1>3 DEF Injection, IsInjective
<1>5. IsFiniteSet(T) /\ Cardinality(T) = k
  <2>1. a + k - 1 \in Int OBVIOUS
  <2>2. IsFiniteSet(T) /\ Cardinality(T) = IF a > a + k - 1 THEN 0 ELSE a + k - 1 - a + 1
    BY <2>1, FS_Interval
  <2> QED BY <2>2
<1>6. Cardinality(S) <= Cardinality(T) BY <1>4, <1>5, FS_Injection
<1> QED BY <1>5, <1>6

(* A non-empty set of numbers has a least one.                             *)
LEMMA LeastNumber ==
    ASSUME NEW T \in SUBSET Nat, T # {}
    PROVE  \E m \in T : \A k \in T : m <= k
<1>1. \E m \in T : \A k \in T : ~(<<k, m>> \in OpToRel(<, Nat))
  BY NatLessThanWellFounded, WFMin, Zenon
<1>2. PICK m \in T : \A k \in T : ~(<<k, m>> \in OpToRel(<, Nat)) BY <1>1
<1>3. \A k \in T : ~(k < m) BY <1>2 DEF OpToRel
<1> QED BY <1>3

(* And each of the first Cardinality(L) places holds one.                  *)
LEMMA PlaceFilled ==
    ASSUME NEW L \in SUBSET Rows, NEW n \in BOOLEAN, NEW a \in Nat, a < Cardinality(L)
    PROVE  \E r \in L : Position(L, n, r) = a
<1> DEFINE Low == {r \in L : 0 <= Position(L, n, r) /\ Position(L, n, r) < 0 + a}
           High == {r \in L : a <= Position(L, n, r)}
           T == {Position(L, n, r) : r \in High}
<1>0. \A r \in L : Position(L, n, r) \in Nat BY PositionType
<1>1. Cardinality(Low) <= a BY PlacesHold
<1>2. Low \in SUBSET Rows /\ Cardinality(L) \in Nat /\ Cardinality(Low) \in Nat BY RowSets
<1>3. High # {}
  <2>1. L # Low BY <1>1, <1>2
  <2> QED BY <1>0, <2>1
<1>4. PICK m \in T : \A k \in T : m <= k
  <2>1. T \in SUBSET Nat /\ T # {} BY <1>0, <1>3
  <2> QED BY <2>1, LeastNumber
<1>5. PICK r \in High : m = Position(L, n, r) OBVIOUS
<1>6. Before(L, n, r) \in SUBSET Low
  <2> SUFFICES ASSUME NEW s \in Before(L, n, r) PROVE s \in Low OBVIOUS
  <2>1. s \in L /\ r \in L BY DEF Before
  <2>2. Position(L, n, s) < Position(L, n, r) BY <2>1, PositionOrder
  <2>3. Position(L, n, s) \in Nat /\ Position(L, n, r) \in Nat BY <1>0, <2>1
  <2>4. s \notin High BY <1>4, <1>5, <2>2, <2>3
  <2> QED BY <2>1, <2>3, <2>4
<1>7. Position(L, n, r) <= Cardinality(Low) BY <1>2, <1>6, RowSetsGrow DEF Position
<1>8. r \in L /\ a <= Position(L, n, r) /\ Position(L, n, r) \in Nat BY <1>0
<1> QED BY <1>1, <1>2, <1>7, <1>8

-----------------------------------------------------------------------------
(* The next page starts where this one ends; page 0 is page 1.             *)
LEMMA OffsetType == TypeOK => Offset \in Nat /\ SizeServed \in Nat \ {0}
<1> SUFFICES ASSUME TypeOK PROVE Offset \in Nat /\ SizeServed \in Nat \ {0} OBVIOUS
<1>1. page \in Nat /\ size \in Nat BY SizeAssumption DEF TypeOK
<1>2. SizeServed \in Nat \ {0} BY <1>1, SizeAssumption DEF SizeServed
<1>3. PageServed(page) - 1 \in Nat BY <1>1 DEF PageServed
<1> QED BY <1>2, <1>3 DEF Offset

LEMMA NextOffset ==
    ASSUME TypeOK, page' = page + 1, size' = size
    PROVE  IF page = 0 THEN Offset = 0 /\ Offset' = 0 ELSE Offset' = Offset + SizeServed
<1> DEFINE k == PageServed(page) - 1
           n == SizeServed
<1>1. page \in Nat BY DEF TypeOK
<1>2. n \in Nat \ {0} BY OffsetType
<1>3. k \in Nat BY <1>1 DEF PageServed
<1>4. SizeServed' = n BY DEF SizeServed
<1>5. Offset = k * n BY DEF Offset
<1>6. Offset' = (PageServed(page') - 1) * n BY <1>4 DEF Offset, PageServed
<1>7. CASE page = 0
  <2>1. k = 0 /\ PageServed(page') - 1 = 0 BY <1>7 DEF PageServed
  <2> QED BY <1>2, <1>5, <1>6, <1>7, <2>1
<1>8. CASE page # 0
  <2>1. PageServed(page') - 1 = k + 1 BY <1>1, <1>8 DEF PageServed
  <2> HIDE DEF k, n
  <2>2. (k + 1) * n = k * n + n BY <1>2, <1>3
  <2>3. Offset' = Offset + n BY <1>5, <1>6, <2>1, <2>2
  <2> QED BY <1>8, <2>3 DEF n
<1> QED BY <1>7, <1>8

(* Positions of listed rows, and sets of rows, under an invariant.         *)
LEMMA RankType == TypeOK => \A r : Rank(r) \in Nat
BY PositionType, RankIsPosition DEF TypeOK, Listed

LEMMA WindowHolds == TypeOK => Cardinality(Window) <= SizeServed
<1> SUFFICES ASSUME TypeOK PROVE Cardinality(Window) <= SizeServed OBVIOUS
<1>1. Listed \in SUBSET Rows /\ newest \in BOOLEAN BY DEF Listed, TypeOK
<1>2. Window = {r \in Listed : /\ Offset <= Position(Listed, newest, r)
                               /\ Position(Listed, newest, r) < Offset + SizeServed}
  BY RankIsPosition DEF Window
<1> QED BY <1>1, <1>2, OffsetType, PlacesHold

(* A page with no rows is past the last one.                               *)
LEMMA WindowFilled == TypeOK /\ Window = {} => Cardinality(Listed) <= Offset
<1> SUFFICES ASSUME TypeOK, Window = {} PROVE Cardinality(Listed) <= Offset OBVIOUS
<1>1. Listed \in SUBSET Rows /\ newest \in BOOLEAN BY DEF Listed, TypeOK
<1>2. Offset \in Nat /\ SizeServed \in Nat \ {0} /\ Cardinality(Listed) \in Nat
  BY <1>1, OffsetType, RowSets
<1>3. CASE Offset < Cardinality(Listed)
  <2>1. PICK r \in Listed : Position(Listed, newest, r) = Offset
    BY <1>1, <1>2, <1>3, PlaceFilled
  <2>2. Rank(r) = Offset BY <2>1, RankIsPosition
  <2> QED BY <1>2, <2>2 DEF Window
<1> QED BY <1>2, <1>3

LEMMA InvSets ==
    TypeOK => /\ Listed \in SUBSET Rows /\ Slipped \in SUBSET Missed /\ Missed \in SUBSET Rows
              /\ twice \cup Repeatable \in SUBSET Rows /\ left \in SUBSET Rows
              /\ entered \in SUBSET Rows /\ Window \in SUBSET Listed
BY DEF TypeOK, Listed, Slipped, Missed, Repeatable, Window

-----------------------------------------------------------------------------
LEMMA InvInit == Init => Inv
<1> SUFFICES ASSUME Init PROVE Inv OBVIOUS
<1>1. TypeOK
  <2>1. row \in [Rows -> {"before", "in", "after"}] BY DEF Init
  <2>2. page \in Nat BY DEF Init
  <2> QED BY <2>1, <2>2 DEF Init, TypeOK
<1>2. Offset = 0
  <2>1. PageServed(page) = 1 BY DEF Init, PageServed
  <2> QED BY <1>1, <2>1, OffsetType DEF Offset
<1>3. HistoryInv BY DEF Init, HistoryInv
<1>4. MissedInv
  <2>1. \A r : Rank(r) \in Nat BY <1>1, RankType
  <2>2. Slipped = {} BY <1>2, <2>1 DEF Slipped
  <2>3. left = {} /\ scan = "reading" BY DEF Init
  <2> QED BY <2>2, <2>3, FS_EmptySet DEF MissedInv, MissedAtMostLeft
<1>5. TwiceInv
  <2>1. twice \cup Repeatable = {} /\ entered = {} /\ (first = 0 /\ page > 0 <=> FALSE)
    BY DEF Init, Repeatable
  <2> QED BY <2>1, FS_EmptySet DEF TwiceInv
<1>6. RaiseInv BY <1>2 DEF Init, RaiseInv, RaisesOnlyOnEmpty
<1> QED BY <1>1, <1>3, <1>4, <1>5, <1>6 DEF Inv

-----------------------------------------------------------------------------
(* Reading a page.                                                         *)
LEMMA ReadChanges ==
    ASSUME NEW null, Read(null)
    PROVE  /\ UNCHANGED <<kind, newest, size, first, row, start, entered, left>>
           /\ Listed' = Listed /\ (\A r : Rank(r)' = Rank(r)) /\ SizeServed' = SizeServed
BY DEF Read, requestVars, rowVars, Listed, Rank, Ahead, SizeServed

LEMMA ReadOn ==
    ASSUME NEW null, Read(null), scan' # "raised"
    PROVE  /\ seen' = seen \cup Window /\ twice' = twice \cup (seen \cap Window)
           /\ page' = page + 1 /\ (scan' = "reading" <=> HasMore)
           /\ scan' \in {"reading", "done"}
BY DEF Read, GoesOn

LEMMA ReadRaises ==
    ASSUME NEW null, Read(null), scan' = "raised"
    PROVE  /\ UNCHANGED <<page, seen, twice>>
           /\ Window = {} /\ kind \in ThroughPaginated
BY DEF Read, Readable

LEMMA ReadStep == ASSUME Inv, NEW null \in BOOLEAN, Read(null) PROVE Inv'
<1>a. TypeOK /\ HistoryInv /\ scan = "reading" BY DEF Inv, Read
<1>b. /\ UNCHANGED <<kind, newest, size, first, row, start, entered, left>>
      /\ Listed' = Listed /\ (\A r : Rank(r)' = Rank(r)) /\ SizeServed' = SizeServed
  BY ReadChanges
<1>c. Offset \in Nat /\ SizeServed \in Nat \ {0} BY <1>a, OffsetType
<1>d. \A r : Rank(r) \in Nat BY <1>a, RankType
<1>1. TypeOK'
  <2>1. Window \subseteq Rows BY DEF Window, Listed
  <2>2. page' \in Nat BY <1>a DEF TypeOK, Read
  <2>3. /\ seen' \in SUBSET Rows /\ twice' \in SUBSET Rows
        /\ scan' \in {"reading", "done", "raised"}
    BY <1>a, <2>1 DEF TypeOK, Read
  <2> QED BY <1>a, <1>b, <2>2, <2>3 DEF TypeOK
<1>2. CASE scan' = "raised"
  <2>1. UNCHANGED <<page, seen, twice>> /\ Window = {} /\ kind \in ThroughPaginated
    BY <1>2, ReadRaises
  <2>2. Offset' = Offset BY <1>b, <2>1 DEF Offset, PageServed
  <2>3. HistoryInv' BY <1>a, <1>b, <2>1 DEF HistoryInv, Filtered
  <2>4. MissedInv' BY <1>2 DEF MissedInv, MissedAtMostLeft
  <2>5. Repeatable' = Repeatable BY <1>b, <2>1, <2>2 DEF Repeatable
  <2>6. TwiceInv' BY <1>b, <2>1, <2>5 DEF Inv, TwiceInv
  <2>7. Cardinality(Listed) <= Offset BY <1>a, <2>1, WindowFilled
  <2>8. ~Filtered BY <2>1 DEF Filtered, ThroughPaginated
  <2>9. Cardinality(Listed) \in Nat /\ IsFiniteSet(Listed) BY <1>a, InvSets, RowSets
  <2>10. Offset = 0 BY <1>a, <1>c, <2>7, <2>8, <2>9 DEF Inv, RaiseInv
  <2>11. Listed = {} BY <2>7, <2>9, <2>10, FS_EmptySet
  <2>12. ASSUME NEW r \in start \cup seen PROVE FALSE
    <3>1. r \in Rows /\ row[r] # "before" BY <1>a DEF TypeOK, HistoryInv
    <3>2. row[r] # "after" BY <1>a, <2>8, <3>1 DEF HistoryInv
    <3>3. row[r] = "in" BY <1>a, <3>1, <3>2 DEF TypeOK
    <3> QED BY <2>11, <3>1, <3>3 DEF Listed
  <2>13. RaiseInv' BY <1>2, <1>b, <2>1, <2>12 DEF RaiseInv, RaisesOnlyOnEmpty
  <2> QED BY <1>1, <2>3, <2>4, <2>6, <2>13 DEF Inv
<1>3. CASE scan' # "raised"
  <2>1. /\ seen' = seen \cup Window /\ twice' = twice \cup (seen \cap Window)
        /\ page' = page + 1 /\ (scan' = "reading" <=> HasMore)
        /\ scan' \in {"reading", "done"}
    BY <1>3, ReadOn
  <2>2. IF page = 0 THEN Offset = 0 /\ Offset' = 0 ELSE Offset' = Offset + SizeServed
    BY <1>a, <1>b, <2>1, NextOffset
  <2>3. Offset' \in Nat /\ Offset' <= Offset + SizeServed BY <1>c, <2>2
  <2>4. page \in Nat /\ page' # 0 BY <1>a, <2>1 DEF TypeOK
  <2>5. HistoryInv'
    <3>1. \A r \in Window : row[r] # "before" BY DEF Window, Listed
    <3> QED BY <1>a, <1>b, <2>1, <2>4, <3>1 DEF HistoryInv, Filtered
  <2>6. ASSUME NEW r \in Missed', Rank(r) < Offset + SizeServed PROVE r \in Slipped
    <3>1. r \in Missed /\ r \in Listed /\ r \notin Window BY <1>b, <2>1 DEF Missed
    <3>2. Rank(r) < Offset BY <1>c, <1>d, <2>6, <3>1 DEF Window
    <3> QED BY <3>1, <3>2 DEF Slipped
  <2>7. /\ Slipped \in SUBSET Rows /\ Cardinality(Slipped) <= Cardinality(left)
        /\ Cardinality(Slipped) \in Nat /\ Cardinality(left) \in Nat
    BY <1>a, InvSets, RowSets DEF Inv, MissedInv
  <2>8. ASSUME NEW S \in SUBSET Slipped PROVE Cardinality(S) <= Cardinality(left)
    <3>1. Cardinality(S) <= Cardinality(Slipped) /\ Cardinality(S) \in Nat
      BY <2>7, RowSetsGrow, RowSets
    <3> QED BY <2>7, <3>1
  <2>9. MissedInv'
    <3>1. Slipped' \in SUBSET Slipped
      <4> SUFFICES ASSUME NEW r \in Slipped' PROVE r \in Slipped OBVIOUS
      <4>1. r \in Missed' /\ Rank(r) < Offset' BY <1>b DEF Slipped
      <4>2. Rank(r) < Offset + SizeServed BY <1>c, <1>d, <2>3, <4>1
      <4> QED BY <2>6, <4>1, <4>2
    <3>2. scan' = "done" => Missed' \in SUBSET Slipped
      <4> SUFFICES ASSUME scan' = "done", NEW r \in Missed' PROVE r \in Slipped OBVIOUS
      <4>1. r \in Listed BY <1>b DEF Missed
      <4>2. Rank(r) < Cardinality(Listed)
        BY <1>a, <4>1, InvSets, PositionInside, RankIsPosition DEF TypeOK
      <4>3. Cardinality(Listed) <= Offset + SizeServed
        BY <1>a, <1>c, <2>1, InvSets, RowSets DEF HasMore
      <4>4. Cardinality(Listed) \in Nat BY <1>a, InvSets, RowSets
      <4>5. Rank(r) < Offset + SizeServed BY <1>c, <1>d, <4>2, <4>3, <4>4
      <4> QED BY <2>6, <4>5
    <3> QED BY <1>b, <2>8, <3>1, <3>2 DEF MissedInv, MissedAtMostLeft
  <2>10. TwiceInv'
    <3> DEFINE T == twice \cup Repeatable
    <3>1. CASE page = 0
      <4>1. twice' = {} /\ seen' = Window /\ first = 0 BY <1>a, <2>1, <3>1 DEF HistoryInv
      <4>2. twice' \cup Repeatable' \in SUBSET Window BY <4>1 DEF Repeatable
      <4>3. Window \in SUBSET Rows BY <1>a, InvSets
      <4>4. /\ Cardinality(twice' \cup Repeatable') <= Cardinality(Window)
            /\ Cardinality(twice' \cup Repeatable') \in Nat /\ Cardinality(Window) \in Nat
        BY <4>2, <4>3, RowSetsGrow, RowSets
      <4>5. Cardinality(Window) <= SizeServed BY <1>a, WindowHolds
      <4>6. Cardinality(entered) \in Nat BY <1>a, InvSets, RowSets
      <4>7. first' = 0 /\ page' > 0 BY <1>b, <2>1, <3>1, <4>1
      <4>8. Cardinality(twice' \cup Repeatable') <= Cardinality(entered') + SizeServed'
        BY <1>b, <1>c, <4>4, <4>5, <4>6
      <4> QED BY <4>7, <4>8 DEF TwiceInv
    <3>2. CASE page # 0
      <4>1. seen \cap Window \in SUBSET Repeatable
        BY DEF Window, Repeatable
      <4>2. Repeatable' \in SUBSET Repeatable
        <5> SUFFICES ASSUME NEW r \in Repeatable' PROVE r \in Repeatable OBVIOUS
        <5>1. /\ r \in seen \cup Window /\ r \in Listed
              /\ Offset + SizeServed <= Rank(r)
          BY <1>b, <2>1, <2>2, <3>2 DEF Repeatable
        <5>2. r \notin Window BY <1>c, <1>d, <5>1 DEF Window
        <5>3. Offset <= Rank(r) BY <1>c, <1>d, <5>1
        <5> QED BY <5>1, <5>2, <5>3 DEF Repeatable
      <4>3. twice' \cup Repeatable' \in SUBSET T BY <2>1, <4>1, <4>2
      <4>4. /\ Cardinality(twice' \cup Repeatable') <= Cardinality(T)
            /\ Cardinality(twice' \cup Repeatable') \in Nat /\ Cardinality(T) \in Nat
        BY <1>a, <4>3, InvSets, RowSetsGrow, RowSets
      <4>5. page > 0 /\ page' > 0 BY <2>1, <2>4, <3>2
      <4>6. Cardinality(T) <= Cardinality(entered) + IF first = 0 THEN SizeServed ELSE 0
        BY <4>5 DEF Inv, TwiceInv
      <4>7. Cardinality(entered) \in Nat BY <1>a, InvSets, RowSets
      <4>8. Cardinality(twice' \cup Repeatable')
              <= Cardinality(entered) + IF first = 0 THEN SizeServed ELSE 0
        BY <1>c, <4>4, <4>6, <4>7
      <4> QED BY <1>b, <4>5, <4>8 DEF TwiceInv
    <3> QED BY <3>1, <3>2
  <2>11. RaiseInv'
    <3>1. scan' = "reading" => Offset' < Cardinality(Listed')
      <4>1. Cardinality(Listed) \in Nat BY <1>a, InvSets, RowSets
      <4> QED BY <1>b, <1>c, <2>1, <2>3, <4>1 DEF HasMore
    <3> QED BY <1>3, <3>1 DEF RaiseInv, RaisesOnlyOnEmpty
  <2> QED BY <1>1, <2>5, <2>9, <2>10, <2>11 DEF Inv
<1> QED BY <1>2, <1>3

-----------------------------------------------------------------------------
(* A row that enters or leaves moves every other one by a place at most.   *)
LEMMA EnterChanges ==
    ASSUME TypeOK, NEW x \in Rows, Enter(x)
    PROVE  /\ UNCHANGED <<kind, newest, size, first, start, left, page, seen, twice, scan>>
           /\ Offset' = Offset /\ SizeServed' = SizeServed
           /\ Listed' = Listed \cup {x} /\ x \notin Listed
           /\ \A r : Rank(r)' \in {Rank(r), Rank(r) + 1}
<1>1. UNCHANGED <<kind, newest, size, first, start, left, page, seen, twice, scan>>
  BY DEF Enter, requestVars, scanVars
<1>2. Offset' = Offset /\ SizeServed' = SizeServed BY <1>1 DEF Offset, PageServed, SizeServed
<1>3. Listed' = Listed \cup {x} /\ x \notin Listed BY DEF TypeOK, Enter, Listed
<1>4. ASSUME NEW r PROVE Rank(r)' \in {Rank(r), Rank(r) + 1}
  <2>1. Rank(r)' = Position(Listed \cup {x}, newest, r)
    BY <1>1, <1>3 DEF Rank, Ahead, Position, Before
  <2>2. Listed \in SUBSET Rows /\ newest \in BOOLEAN BY DEF Listed, TypeOK
  <2> QED BY <1>3, <2>1, <2>2, PositionEnter, RankIsPosition
<1> QED BY <1>1, <1>2, <1>3, <1>4

LEMMA LeaveChanges ==
    ASSUME TypeOK, NEW x \in Rows, Leave(x)
    PROVE  /\ UNCHANGED <<kind, newest, size, first, start, entered, page, seen, twice, scan>>
           /\ Offset' = Offset /\ SizeServed' = SizeServed
           /\ Listed' = Listed \ {x} /\ x \in Listed
           /\ \A r : Rank(r)' \in {Rank(r), Rank(r) - 1}
<1>1. UNCHANGED <<kind, newest, size, first, start, entered, page, seen, twice, scan>>
  BY DEF Leave, requestVars, scanVars
<1>2. Offset' = Offset /\ SizeServed' = SizeServed BY <1>1 DEF Offset, PageServed, SizeServed
<1>3. Listed' = Listed \ {x} /\ x \in Listed BY DEF TypeOK, Leave, Listed
<1>4. ASSUME NEW r PROVE Rank(r)' \in {Rank(r), Rank(r) - 1}
  <2>1. Rank(r)' = Position(Listed \ {x}, newest, r)
    BY <1>1, <1>3 DEF Rank, Ahead, Position, Before
  <2>2. Listed \in SUBSET Rows /\ newest \in BOOLEAN BY DEF Listed, TypeOK
  <2> QED BY <1>3, <2>1, <2>2, PositionLeave, RankIsPosition
<1> QED BY <1>1, <1>2, <1>3, <1>4

(* All the rows in one place are one row, or none.                         *)
LEMMA OneInPlace ==
    ASSUME TypeOK, NEW k, NEW d \in Rows
    PROVE  \E y \in Rows : \A r \in Listed : Rank(r) = k => r = y
<1>1. \A r, s \in Listed : Rank(r) = Rank(s) => r = s
  BY PositionsDiffer, RankIsPosition, InvSets DEF TypeOK
<1>2. CASE \E y \in Listed : Rank(y) = k BY <1>1, <1>2, InvSets
<1>3. CASE ~\E y \in Listed : Rank(y) = k BY <1>3
<1> QED BY <1>2, <1>3

LEMMA EnterStep == ASSUME Inv, NEW x \in Rows, Enter(x) PROVE Inv'
<1>a. TypeOK /\ HistoryInv BY DEF Inv
<1>b. /\ UNCHANGED <<kind, newest, size, first, start, left, page, seen, twice, scan>>
      /\ Offset' = Offset /\ SizeServed' = SizeServed
      /\ Listed' = Listed \cup {x} /\ x \notin Listed
      /\ \A r : Rank(r)' \in {Rank(r), Rank(r) + 1}
  BY <1>a, EnterChanges
<1>c. Offset \in Nat /\ SizeServed \in Nat \ {0} BY <1>a, OffsetType
<1>d. \A r : Rank(r) \in Nat BY <1>a, RankType
<1>e. /\ row[x] = "before" /\ row' = [row EXCEPT ![x] = "in"]
      /\ entered' = entered \cup {x}
  BY DEF Enter
<1>f. x \notin start \cup entered \cup seen BY <1>a, <1>e DEF HistoryInv
<1>1. TypeOK' BY <1>a, <1>b, <1>e DEF TypeOK
<1>2. HistoryInv'
  <2>1. \A r \in Rows : row'[r] = IF r = x THEN "in" ELSE row[r] BY <1>a, <1>e DEF TypeOK
  <2>2. start \cup entered \cup seen \subseteq Rows BY <1>a DEF TypeOK
  <2>3. \A r \in start' \cup entered' \cup seen' : row'[r] # "before"
    BY <1>a, <1>b, <1>e, <2>1, <2>2 DEF HistoryInv
  <2>4. \A r \in Rows : row'[r] = "after" <=> r \in left'
    BY <1>a, <1>b, <1>e, <2>1 DEF HistoryInv
  <2> QED BY <1>a, <1>b, <2>3, <2>4 DEF HistoryInv, Filtered
<1>3. MissedInv'
  <2>1. Missed' = Missed BY <1>b, <1>f DEF Missed
  <2>2. Slipped' \in SUBSET Slipped
    <3> SUFFICES ASSUME NEW r \in Slipped' PROVE r \in Slipped OBVIOUS
    <3>1. r \in Missed /\ Rank(r)' < Offset BY <1>b, <2>1 DEF Slipped
    <3>2. Rank(r) < Offset BY <1>b, <1>c, <1>d, <3>1
    <3> QED BY <3>1, <3>2 DEF Slipped
  <2>3. Slipped \in SUBSET Rows BY <1>a, InvSets
  <2>4. Cardinality(Slipped') <= Cardinality(Slipped) BY <2>2, <2>3, RowSetsGrow
  <2>5. /\ Cardinality(Slipped) \in Nat /\ Cardinality(Slipped') \in Nat
        /\ Cardinality(left) \in Nat
    BY <1>a, <2>2, <2>3, InvSets, RowSets
  <2> QED BY <1>b, <2>1, <2>4, <2>5 DEF Inv, MissedInv, MissedAtMostLeft
<1>4. TwiceInv'
  <2> DEFINE T == twice \cup Repeatable
             bonus == IF first = 0 /\ page > 0 THEN SizeServed ELSE 0
  <2>1. PICK y \in Rows : \A r \in Listed : Rank(r) = Offset - 1 => r = y
    BY <1>a, OneInPlace
  <2>2. Repeatable' \in SUBSET (Repeatable \cup {y})
    <3> SUFFICES ASSUME NEW r \in Repeatable' PROVE r \in Repeatable \cup {y} OBVIOUS
    <3>1. r \in seen /\ r \in Listed /\ Offset <= Rank(r)'
      BY <1>b, <1>f DEF Repeatable
    <3>2. Offset <= Rank(r) \/ Rank(r) = Offset - 1 BY <1>b, <1>c, <1>d, <3>1
    <3> QED BY <2>1, <3>1, <3>2 DEF Repeatable
  <2>3. twice' \cup Repeatable' \in SUBSET (T \cup {y}) BY <1>b, <2>2
  <2>4. T \in SUBSET Rows BY <1>a, InvSets
  <2>5. Cardinality(twice' \cup Repeatable') <= Cardinality(T) + 1 BY <2>3, <2>4, OneMore
  <2>6. Cardinality(entered') = Cardinality(entered) + 1
    BY <1>a, <1>e, <1>f, InvSets, RowAdded
  <2>7. Cardinality(T) <= Cardinality(entered) + bonus BY DEF Inv, TwiceInv
  <2>8. /\ Cardinality(T) \in Nat /\ Cardinality(entered) \in Nat
        /\ Cardinality(twice' \cup Repeatable') \in Nat
    <3>1. T \cup {y} \in SUBSET Rows BY <2>4
    <3>2. twice' \cup Repeatable' \in SUBSET Rows BY <2>3, <3>1
    <3> QED BY <1>a, <2>4, <3>2, InvSets, RowSets
  <2>9. bonus \in Nat BY <1>c
  <2>10. Cardinality(twice' \cup Repeatable') <= Cardinality(entered') + bonus
    <3> HIDE DEF T, bonus
    <3> QED BY <2>5, <2>6, <2>7, <2>8, <2>9
  <2>11. bonus = IF first' = 0 /\ page' > 0 THEN SizeServed' ELSE 0 BY <1>b
  <2> QED BY <2>10, <2>11 DEF TwiceInv
<1>5. RaiseInv'
  <2>1. Cardinality(Listed') = Cardinality(Listed) + 1 BY <1>a, <1>b, InvSets, RowAdded
  <2>2. Cardinality(Listed) \in Nat BY <1>a, InvSets, RowSets
  <2> QED BY <1>b, <1>c, <2>1, <2>2 DEF Inv, RaiseInv, RaisesOnlyOnEmpty, Filtered
<1> QED BY <1>1, <1>2, <1>3, <1>4, <1>5 DEF Inv

LEMMA LeaveStep == ASSUME Inv, NEW x \in Rows, Leave(x) PROVE Inv'
<1>a. TypeOK /\ HistoryInv BY DEF Inv
<1>b. /\ UNCHANGED <<kind, newest, size, first, start, entered, page, seen, twice, scan>>
      /\ Offset' = Offset /\ SizeServed' = SizeServed
      /\ Listed' = Listed \ {x} /\ x \in Listed
      /\ \A r : Rank(r)' \in {Rank(r), Rank(r) - 1}
  BY <1>a, LeaveChanges
<1>c. Offset \in Nat /\ SizeServed \in Nat \ {0} BY <1>a, OffsetType
<1>d. \A r : Rank(r) \in Nat BY <1>a, RankType
<1>e. /\ Filtered /\ row[x] = "in" /\ row' = [row EXCEPT ![x] = "after"]
      /\ left' = left \cup {x}
  BY DEF Leave
<1>f. x \notin left BY <1>a, <1>e DEF HistoryInv
<1>1. TypeOK' BY <1>a, <1>b, <1>e DEF TypeOK
<1>2. HistoryInv'
  <2>1. \A r \in Rows : row'[r] = IF r = x THEN "after" ELSE row[r] BY <1>a, <1>e DEF TypeOK
  <2>2. start \cup entered \cup seen \subseteq Rows BY <1>a DEF TypeOK
  <2>3. \A r \in start' \cup entered' \cup seen' : row'[r] # "before"
    BY <1>a, <1>b, <2>1, <2>2 DEF HistoryInv
  <2>4. \A r \in Rows : row'[r] = "after" <=> r \in left'
    BY <1>a, <1>e, <2>1 DEF HistoryInv
  <2>5. Filtered' BY <1>b, <1>e DEF Filtered
  <2> QED BY <1>a, <1>b, <2>3, <2>4, <2>5 DEF HistoryInv
<1>g. Cardinality(left') = Cardinality(left) + 1 /\ Cardinality(left) \in Nat
  BY <1>a, <1>e, <1>f, InvSets, RowAdded, RowSets
<1>3. MissedInv'
  <2>1. Missed' \in SUBSET Missed BY <1>b DEF Missed
  <2>2. PICK y \in Rows : \A r \in Listed : Rank(r) = Offset => r = y BY <1>a, OneInPlace
  <2>3. Slipped' \in SUBSET (Slipped \cup {y})
    <3> SUFFICES ASSUME NEW r \in Slipped' PROVE r \in Slipped \cup {y} OBVIOUS
    <3>1. r \in Missed /\ Rank(r)' < Offset BY <1>b, <2>1 DEF Slipped
    <3>2. Rank(r) < Offset \/ Rank(r) = Offset BY <1>b, <1>c, <1>d, <3>1
    <3>3. r \in Listed BY <3>1 DEF Missed
    <3> QED BY <2>2, <3>1, <3>2, <3>3 DEF Slipped
  <2>4. Slipped \in SUBSET Rows /\ Missed \in SUBSET Rows BY <1>a, InvSets
  <2>5. Cardinality(Slipped') <= Cardinality(Slipped) + 1 BY <2>3, <2>4, OneMore
  <2>6. Cardinality(Missed') <= Cardinality(Missed) BY <2>1, <2>4, RowSetsGrow
  <2>7. /\ Cardinality(Slipped) \in Nat /\ Cardinality(Slipped') \in Nat
        /\ Cardinality(Missed) \in Nat /\ Cardinality(Missed') \in Nat
    <3>1. Slipped' \in SUBSET Rows /\ Missed' \in SUBSET Rows BY <2>1, <2>3, <2>4
    <3> QED BY <2>4, <3>1, RowSets
  <2>8. scan' = "reading" => Cardinality(Slipped') <= Cardinality(left')
    BY <1>b, <1>g, <2>5, <2>7 DEF Inv, MissedInv
  <2>9. scan' = "done" => Cardinality(Missed') <= Cardinality(left')
    BY <1>b, <1>g, <2>6, <2>7 DEF Inv, MissedInv, MissedAtMostLeft
  <2> QED BY <2>8, <2>9 DEF MissedInv, MissedAtMostLeft
<1>4. TwiceInv'
  <2>1. Repeatable' \in SUBSET Repeatable
    <3> SUFFICES ASSUME NEW r \in Repeatable' PROVE r \in Repeatable OBVIOUS
    <3>1. r \in seen /\ r \in Listed /\ Offset <= Rank(r)' BY <1>b DEF Repeatable
    <3>2. Offset <= Rank(r) BY <1>b, <1>c, <1>d, <3>1
    <3> QED BY <3>1, <3>2 DEF Repeatable
  <2>2. twice' \cup Repeatable' \in SUBSET (twice \cup Repeatable) BY <1>b, <2>1
  <2>3. twice \cup Repeatable \in SUBSET Rows BY <1>a, InvSets
  <2>4. Cardinality(twice' \cup Repeatable') <= Cardinality(twice \cup Repeatable)
    BY <2>2, <2>3, RowSetsGrow
  <2>5. /\ Cardinality(twice' \cup Repeatable') \in Nat
        /\ Cardinality(twice \cup Repeatable) \in Nat /\ Cardinality(entered) \in Nat
    BY <1>a, <2>2, <2>3, InvSets, RowSets
  <2> DEFINE bonus == IF first = 0 /\ page > 0 THEN SizeServed ELSE 0
  <2>6. bonus \in Nat BY <1>c
  <2>7. Cardinality(twice \cup Repeatable) <= Cardinality(entered) + bonus
    BY DEF Inv, TwiceInv
  <2>8. Cardinality(twice' \cup Repeatable') <= Cardinality(entered) + bonus
    <3> HIDE DEF bonus
    <3> QED BY <2>4, <2>5, <2>6, <2>7
  <2> QED BY <1>b, <2>8 DEF TwiceInv
<1>5. RaiseInv' BY <1>b, <1>e DEF Inv, RaiseInv, RaisesOnlyOnEmpty, Filtered
<1> QED BY <1>1, <1>2, <1>3, <1>4, <1>5 DEF Inv

LEMMA StutterStep == Inv /\ UNCHANGED vars => Inv'
<1> SUFFICES ASSUME Inv, UNCHANGED vars PROVE Inv' OBVIOUS
<1> USE DEF vars, requestVars, rowVars, scanVars
<1>1. TypeOK' BY DEF Inv, TypeOK
<1>2. HistoryInv' BY DEF Inv, HistoryInv, Filtered
<1>3. Listed' = Listed /\ Offset' = Offset /\ SizeServed' = SizeServed
  BY DEF Listed, Offset, PageServed, SizeServed
<1>4. \A r : Rank(r)' = Rank(r) BY <1>3 DEF Rank, Ahead
<1>5. Missed' = Missed /\ Slipped' = Slipped BY <1>3, <1>4 DEF Missed, Slipped
<1>6. MissedInv' BY <1>5 DEF Inv, MissedInv, MissedAtMostLeft
<1>7. Repeatable' = Repeatable BY <1>3, <1>4 DEF Repeatable
<1>8. TwiceInv' BY <1>3, <1>7 DEF Inv, TwiceInv
<1>9. RaiseInv' BY <1>3 DEF Inv, RaiseInv, RaisesOnlyOnEmpty, Filtered
<1> QED BY <1>1, <1>2, <1>6, <1>8, <1>9 DEF Inv

(* Invariance: what slips ahead of the next page and what falls back       *)
(* behind it, for any collection and any page size.                        *)
THEOREM Invariance == Spec => []Inv
<1>1. Inv /\ [Next]_vars => Inv'
  BY ReadStep, EnterStep, LeaveStep, StutterStep DEF Next
<1> QED BY <1>1, InvInit, PTL DEF Spec

(* A finished scan has missed at most one row for each one that left, and  *)
(* so none where none left, however many came and in whichever order they  *)
(* are listed.                                                             *)
THEOREM MissedAreFew == Spec => []MissedAtMostLeft
BY Invariance, PTL DEF Inv, MissedInv

(* A scan reads at most one row twice for each one that entered, and one   *)
(* page more where the caller counts pages from 0.                         *)
THEOREM TwiceAreFew == Spec => []TwiceAtMostEntered
<1>1. Inv => TwiceAtMostEntered
  <2> SUFFICES ASSUME Inv PROVE TwiceAtMostEntered OBVIOUS
  <2> DEFINE T == twice \cup Repeatable
  <2>1. TypeOK BY DEF Inv
  <2>2. T \in SUBSET Rows /\ twice \in SUBSET T BY <2>1, InvSets
  <2>3. Cardinality(twice) <= Cardinality(T) BY <2>2, RowSetsGrow
  <2>4. twice \in SUBSET Rows BY <2>2
  <2>5. /\ Cardinality(twice) \in Nat /\ Cardinality(T) \in Nat
        /\ Cardinality(entered) \in Nat /\ SizeServed \in Nat
    BY <2>1, <2>2, <2>4, InvSets, RowSets, OffsetType
  <2>6. Cardinality(T) <= Cardinality(entered) + IF first = 0 /\ page > 0 THEN SizeServed ELSE 0
    BY DEF Inv, TwiceInv
  <2> HIDE DEF T
  <2> QED BY <2>3, <2>5, <2>6 DEF TwiceAtMostEntered
<1> QED BY <1>1, Invariance, PTL

(* A null page raises only where it is the first one of a collection that  *)
(* was empty when the scan began.                                          *)
THEOREM RaisesAreHarmless == Spec => []RaisesOnlyOnEmpty
BY Invariance, PTL DEF Inv, RaiseInv
=============================================================================
