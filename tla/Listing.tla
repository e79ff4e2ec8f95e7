------------------------------ MODULE Listing ------------------------------
(***************************************************************************)
(* Reading a whole collection page by page through the list methods of the *)
(* SDK (list_wallets, list_accounts, list_assets, transactions.list and    *)
(* x402.list_settlements) while rows come and go: the only way back to a   *)
(* row whose create() was answered by an error without an id.              *)
(*                                                                         *)
(* The gateway numbers pages from 1 and serves each one from the rows of   *)
(* the moment; the caller adds one to the page while has_more is set.      *)
(* Rows are numbered in the order they are created.  Only the settlements' *)
(* filter is on something that changes, their status.                      *)
(***************************************************************************)
EXTENDS Integers, FiniteSets

CONSTANTS
    Kinds,        \* the collections
    MaxRows,      \* bound: rows there will ever be
    PageSizes,    \* what callers ask for; zero leaves it to the gateway
    DefaultSize,  \* the gateway's page size
    MaxPages      \* bound: pages a scan reads

ASSUME SizeAssumption ==
    /\ MaxRows \in Nat /\ MaxPages \in Nat
    /\ PageSizes \subseteq Nat /\ DefaultSize \in Nat \ {0}

Rows == 1..MaxRows

VARIABLES
    kind,      \* the collection
    newest,    \* whether the gateway lists the newest row first
    size,      \* req.page_size
    page,      \* req.page of the next request
    first,     \* req.page of the first one
    row,       \* each row: "before", "in" or "after" its time in the filter
    start,     \* history: the rows there when the scan began
    entered,   \* history: the rows that came since
    left,      \* history: the rows that went since
    seen,      \* the rows the scan has read
    twice,     \* the rows it has read more than once
    scan       \* "reading", "done" or "raised"

requestVars == <<kind, newest, size, first>>
rowVars     == <<row, start, entered, left>>
scanVars    == <<page, seen, twice, scan>>
vars == <<requestVars, rowVars, scanVars>>

TypeOK ==
    /\ kind \in Kinds /\ newest \in BOOLEAN
    /\ size \in PageSizes /\ page \in Nat /\ first \in {0, 1}
    /\ row \in [Rows -> {"before", "in", "after"}]
    /\ start \in SUBSET Rows /\ entered \in SUBSET Rows /\ left \in SUBSET Rows
    /\ seen \in SUBSET Rows /\ twice \in SUBSET Rows
    /\ scan \in {"reading", "done", "raised"}

Filtered == kind = "settlements"

InOrder == \A r \in Rows : row[r] # "before" => \A s \in 1..r : row[s] # "before"

Init ==
    /\ kind \in Kinds /\ newest \in BOOLEAN
    /\ size \in PageSizes /\ first \in {0, 1} /\ page = first
    /\ row \in [Rows -> {"before", "in"}]
    /\ Filtered \/ InOrder
    /\ start = {r \in Rows : row[r] = "in"}
    /\ entered = {} /\ left = {} /\ seen = {} /\ twice = {}
    /\ scan = "reading"

-----------------------------------------------------------------------------
(* The gateway: the rows of one page.                                      *)
Listed == {r \in Rows : row[r] = "in"}

Ahead(r) == {s \in Listed : IF newest THEN s > r ELSE s < r}
Rank(r)  == Cardinality(Ahead(r))

NoPageParam(p) == 1        \* mutant: the page is not sent

(* _pagination_params sends only what is positive.                         *)
PageServed(p) == IF p > 0 THEN p ELSE 1
SizeServed    == IF size > 0 THEN size ELSE DefaultSize

Offset == (PageServed(page) - 1) * SizeServed
Window == {r \in Listed : Offset <= Rank(r) /\ Rank(r) < Offset + SizeServed}
HasMore == Offset + SizeServed < Cardinality(Listed)

-----------------------------------------------------------------------------
(* The SDK and the caller's loop.                                          *)
ThroughPaginated == {"wallets", "accounts", "assets"}

AllStrict(null) == ~null   \* mutant: no "or []" anywhere

(* Go writes an empty page as null.  transactions.list and                 *)
(* x402.list_settlements read it as empty; _paginated iterates over it.    *)
Readable(null) == null => kind \notin ThroughPaginated

DropsHasMore == FALSE      \* mutant: has_more read under another name

GoesOn == HasMore

Read(null) ==
    /\ scan = "reading"
    /\ page <= MaxPages
    /\ null => Window = {}
    /\ IF Readable(null)
       THEN /\ seen' = seen \cup Window
            /\ twice' = twice \cup (seen \cap Window)
            /\ page' = page + 1
            /\ scan' = IF GoesOn THEN "reading" ELSE "done"
       ELSE /\ scan' = "raised"
            /\ UNCHANGED <<page, seen, twice>>
    /\ UNCHANGED <<requestVars, rowVars>>

Enter(r) ==
    /\ row[r] = "before"
    /\ Filtered \/ \A s \in 1..(r - 1) : row[s] # "before"
    /\ row' = [row EXCEPT ![r] = "in"]
    /\ entered' = entered \cup {r}
    /\ UNCHANGED <<requestVars, start, left, scanVars>>

Leave(r) ==
    /\ Filtered
    /\ row[r] = "in"
    /\ row' = [row EXCEPT ![r] = "after"]
    /\ left' = left \cup {r}
    /\ UNCHANGED <<requestVars, start, entered, scanVars>>

Next == \/ \E null \in BOOLEAN : Read(null)
        \/ \E r \in Rows : Enter(r) \/ Leave(r)

(* The caller goes on reading.                                             *)
Spec == Init /\ [][Next]_vars /\ WF_vars(\E null \in BOOLEAN : Read(null))

-----------------------------------------------------------------------------
(* A scan that ended has read every row that was there from its start to   *)
(* its end, but for at most one row for each one that left meanwhile: a    *)
(* row that leaves moves those behind it towards pages already read.       *)
Missed == (start \cap Listed) \ seen
MissedAtMostLeft == scan = "done" => Cardinality(Missed) <= Cardinality(left)

(* A row is read twice only when another one came in, or when the caller   *)
(* counts pages from 0: page 0 is not sent, so pages 0 and 1 are the same. *)
TwiceAtMostEntered ==
    Cardinality(twice) <= Cardinality(entered) + IF first = 0 THEN SizeServed ELSE 0

(* The TypeError of a null page cuts no scan short: it needs a collection  *)
(* that is empty.                                                          *)
RaisesOnlyOnEmpty == scan = "raised" => seen = {} /\ start = {}

(* A scan ends, although rows keep coming: there is an end to them.        *)
ScanEnds == <>(scan # "reading")

-----------------------------------------------------------------------------
(* The inductive invariant.  What the histories say of the rows:           *)
HistoryInv ==
    /\ \A r \in Rows : row[r] = "after" <=> r \in left
    /\ \A r \in start \cup entered \cup seen : row[r] # "before"
    /\ ~Filtered => left = {}
    /\ page = 0 => first = 0 /\ seen = {} /\ twice = {}

(* A row that leaves lets one unread row slip ahead of the next page.      *)
Slipped == {r \in Missed : Rank(r) < Offset}
MissedInv == /\ scan = "reading" => Cardinality(Slipped) <= Cardinality(left)
             /\ MissedAtMostLeft

(* A row that enters pushes one that has been read back behind it; page 0  *)
(* leaves a whole page there.                                              *)
Repeatable == {r \in seen \cap Listed : Offset <= Rank(r)}
TwiceInv == Cardinality(twice \cup Repeatable)
              <= Cardinality(entered) + IF first = 0 /\ page > 0 THEN SizeServed ELSE 0

(* Where no row leaves, a scan goes on only to a page with rows.           *)
RaiseInv == /\ ~Filtered /\ scan = "reading" /\ Offset > 0 => Offset < Cardinality(Listed)
            /\ RaisesOnlyOnEmpty

Inv == TypeOK /\ HistoryInv /\ MissedInv /\ TwiceInv /\ RaiseInv
=============================================================================
