---------------------------- MODULE PagesProofs ----------------------------
(***************************************************************************)
(* Proofs about Pages for any number of writers and rows and any page      *)
(* sizes.  A cursor is the key of the last row shown, every row shown      *)
(* comes before it, and times and ids never change: so what the query      *)
(* finds is what the client has not been shown, whatever has been          *)
(* committed in between.                                                   *)
(***************************************************************************)
EXTENDS Pages, FiniteSetTheorems, TLAPS

Stored == {x \in Ids : row[x] # None}
OnWalk == pc \in {"ask", "answer"}

-----------------------------------------------------------------------------
(* The inductive invariant *)

\* Ids are drawn once: those in hand are of no row and of no other transaction.
Inserted(w) == tx[w] # None /\ tx[w].id # 0
TableOK ==
  /\ \A x \in Stored : x <= drawn
  /\ \A w \in Writers : Inserted(w) => tx[w].id <= drawn /\ tx[w].id \notin Stored
  /\ \A v, w \in Writers : v # w /\ Inserted(v) /\ Inserted(w) => tx[v].id # tx[w].id

PageOK ==
  /\ items \subseteq Stored /\ ids \subseteq Stored
  /\ pc # "answer" => ids = {} /\ ~more
  /\ more => ids # {}

\* The cursor is the key of the last row shown.
IsLast(x, s) == x \in s /\ \A y \in s \ {x} : Precedes(y, x)
CursorOK == OnWalk => \/ cursor = None /\ items = {}
                      \/ \E x \in Ids : IsLast(x, items) /\ cursor = Encode(x)

\* A row beyond everything shown or on its way.
Beyond(x) == \A y \in items \cup ids : Precedes(y, x)
OwedOK ==
  /\ OnWalk => /\ owed \subseteq Matching
               /\ \A x \in owed : x \in items \cup ids \/ (Walking /\ Beyond(x))
  /\ Complete

LeftOK == ~left => /\ OnWalk /\ cursor # None => Found # {}
                   /\ more => \E x \in Matching : Beyond(x)

IInv == TypeOK /\ TableOK /\ PageOK /\ CursorOK /\ InOrder /\ OwedOK /\ LeftOK
Walk == PageOK /\ CursorOK /\ InOrder /\ OwedOK /\ LeftOK

-----------------------------------------------------------------------------
(* The order of the rows *)

\* The rows of a listing are ordered.
LEMMA PrecedesIsTransitive ==
  ASSUME TypeOK, NEW x \in Stored, NEW y \in Stored, NEW z \in Stored,
         Precedes(x, y), Precedes(y, z)
  PROVE  Precedes(x, z)
<1>1. /\ x \in Int /\ y \in Int /\ z \in Int
      /\ row[x].at \in Int /\ row[y].at \in Int /\ row[z].at \in Int
  BY PagesAssumption DEF TypeOK, Stored, Ids, Row, Times
<1> QED BY <1>1 DEF Precedes

\* No two rows have the same place.
LEMMA PrecedesIsTotal ==
  ASSUME TypeOK, NEW x \in Stored, NEW y \in Stored, x # y
  PROVE  Precedes(x, y) \/ Precedes(y, x)
<1>1. x \in Int /\ y \in Int /\ row[x].at \in Int /\ row[y].at \in Int
  BY PagesAssumption DEF TypeOK, Stored, Ids, Row, Times
<1> QED BY <1>1 DEF Precedes

\* The rows a cursor lets through are those after the row it was made from.
LEMMA CursorIsItsRow ==
  ASSUME TypeOK, NEW x \in Stored, NEW y \in Stored, cursor = Encode(x)
  PROVE  After(y) <=> Precedes(x, y)
<1>1. /\ x \in Ids /\ x \in Int /\ y \in Int
      /\ row[x].at \in Times /\ row[x].at \in Int /\ row[y].at \in Int
  BY PagesAssumption DEF TypeOK, Stored, Ids, Row, Times
<1>2. listing \in {"orders", "products"}  BY PagesAssumption DEF TypeOK
<1>3. Encode(x) \in Cursor  BY <1>1, PagesAssumption DEF Encode, Cursor, Times
<1>4. cursor # None  BY <1>3, PagesAssumption
<1>5. cursor.id = x /\ (listing = "orders" => cursor.at = row[x].at)  BY DEF Encode
<1> QED BY <1>1, <1>2, <1>4, <1>5 DEF After, Precedes

\* So they are those after everything that was shown.
LEMMA AfterIsBeyondItems ==
  ASSUME TypeOK, PageOK, CursorOK, OnWalk, NEW x \in Stored
  PROVE  After(x) <=> \A y \in items : Precedes(y, x)
<1>1. CASE cursor = None /\ items = {}  BY <1>1 DEF After
<1>2. ASSUME NEW l \in Ids, IsLast(l, items), cursor = Encode(l)
      PROVE  After(x) <=> \A y \in items : Precedes(y, x)
  <2>1. l \in items /\ l \in Stored  BY <1>2 DEF IsLast, PageOK
  <2>2. After(x) <=> Precedes(l, x)  BY <2>1, <1>2, CursorIsItsRow
  <2>3. ASSUME Precedes(l, x), NEW y \in items PROVE Precedes(y, x)
    <3>1. y \in Stored  BY DEF PageOK
    <3>2. y = l \/ Precedes(y, l)  BY <1>2 DEF IsLast
    <3> QED BY <2>1, <2>3, <3>1, <3>2, PrecedesIsTransitive
  <2> QED BY <2>1, <2>2, <2>3
<1> QED BY <1>1, <1>2 DEF CursorOK

-----------------------------------------------------------------------------
(* Steps of the writers *)

\* Rows stay, with their times.
RowsKept ==
  /\ listing' = listing
  /\ \A x \in Stored : x \in Stored' /\ row'[x].at = row[x].at

\* The order of two rows that are stored does not change.
LEMMA OrderKept ==
  ASSUME RowsKept, NEW x \in Stored, NEW y \in Stored
  PROVE  Precedes(x, y)' <=> Precedes(x, y)
BY DEF RowsKept, Precedes

\* A write keeps the invariant of the walk, once the observer has seen it.
LEMMA WriteKeepsWalk ==
  ASSUME TypeOK, TypeOK', Walk, RowsKept, Observe,
         UNCHANGED <<pc, filter, cursor, ids, more, items>>
  PROVE  Walk'
<1> USE DEF Walk
<1>1. items \subseteq Stored /\ ids \subseteq Stored  BY DEF PageOK
<1>2. PageOK'  BY <1>1 DEF PageOK, RowsKept
<1>3. ASSUME NEW x \in Stored PROVE Encode(x)' = Encode(x)
  BY DEF Encode, RowsKept
<1>4. CursorOK'
  <2>1. SUFFICES ASSUME OnWalk, ~(cursor = None /\ items = {})
                 PROVE  \E x \in Ids : IsLast(x, items)' /\ cursor' = Encode(x)'
    BY DEF CursorOK, OnWalk
  <2>2. PICK x \in Ids : IsLast(x, items) /\ cursor = Encode(x)  BY <2>1 DEF CursorOK
  <2>3. x \in Stored /\ x \in items'  BY <1>1, <2>2 DEF IsLast
  <2>4. \A y \in items \ {x} : Precedes(y, x)'  BY <1>1, <2>2, <2>3, OrderKept DEF IsLast
  <2>5. IsLast(x, items)'  BY <2>3, <2>4 DEF IsLast
  <2> QED BY <2>2, <2>3, <2>5, <1>3
<1>5. InOrder'
  <2> SUFFICES ASSUME NEW x \in items, NEW y \in ids PROVE Precedes(x, y)'  BY DEF InOrder
  <2> QED BY <1>1, OrderKept DEF InOrder
<1>6. ASSUME NEW x \in Stored, Beyond(x) PROVE Beyond(x)'
  BY <1>1, <1>6, OrderKept DEF Beyond
<1>7. Matching \subseteq Stored  BY DEF Matching, Stored
<1>8. OwedOK'
  <2>1. Complete'
    <3> SUFFICES ASSUME pc = "done" PROVE owed' \subseteq items  BY DEF Complete
    <3>1. Ahead' = {}  BY DEF Ahead, Walking
    <3> QED BY <3>1 DEF Observe, OwedOK, Complete
  <2>2. ASSUME OnWalk PROVE owed' \subseteq Matching'
    BY DEF Observe, Ahead
  <2>3. ASSUME OnWalk, NEW x \in owed'
        PROVE  x \in items \cup ids \/ (Walking' /\ Beyond(x)')
    <3>1. CASE x \in Ahead'  BY <3>1 DEF Ahead, Beyond
    <3>2. CASE x \in owed /\ x \in Matching'
      <4>1. x \in Matching  BY <2>3, <3>2 DEF OwedOK
      <4>2. x \in items \cup ids \/ (Walking /\ Beyond(x))  BY <2>3, <3>2 DEF OwedOK
      <4> QED BY <4>1, <4>2, <1>6, <1>7 DEF Walking
    <3> QED BY <3>1, <3>2 DEF Observe
  <2> QED BY <2>1, <2>2, <2>3 DEF OwedOK, OnWalk
<1>9. LeftOK'
  <2> SUFFICES ASSUME ~left' PROVE /\ OnWalk /\ cursor # None => Found' # {}
                                   /\ more => \E x \in Matching' : Beyond(x)'
    BY DEF LeftOK, OnWalk
  <2>1. ~left /\ Matching \subseteq Matching'  BY DEF Observe
  <2>2. ASSUME OnWalk, cursor # None PROVE Found' # {}
    <3>1. PICK x \in Found : TRUE  BY <2>1, <2>2 DEF LeftOK
    <3>2. x \in Matching' /\ x \in Stored  BY <2>1, <1>7, <3>1 DEF Found
    <3>3. After(x)'  BY <3>1, <3>2 DEF Found, After, RowsKept
    <3> QED BY <3>2, <3>3 DEF Found
  <2>3. ASSUME more PROVE \E x \in Matching' : Beyond(x)'
    BY <2>1, <2>3, <1>6, <1>7 DEF LeftOK
  <2> QED BY <2>2, <2>3
<1> QED BY <1>2, <1>4, <1>5, <1>8, <1>9

\* A step that changes neither the rows nor the walk keeps its invariant.
LEMMA StillWalk ==
  ASSUME Walk, UNCHANGED <<listing, row, pc, filter, cursor, page, items, observer>>
  PROVE  Walk'
<1> USE DEF page, observer
<1>1. PageOK'  BY DEF Walk, PageOK, Stored
<1>2. CursorOK'  BY DEF Walk, CursorOK, OnWalk, IsLast, Precedes, Encode
<1>3. InOrder'  BY DEF Walk, InOrder, Precedes
<1>4. OwedOK'  BY DEF Walk, OwedOK, OnWalk, Matching, Walking, Beyond, Precedes, Complete
<1>5. LeftOK'  BY DEF Walk, LeftOK, OnWalk, Found, After, Matching, Beyond, Precedes
<1> QED BY <1>1, <1>2, <1>3, <1>4, <1>5 DEF Walk

-----------------------------------------------------------------------------
(* Types and the table *)

\* Every step keeps the types.
LEMMA TypesKept ==
  ASSUME TypeOK, PageOK, [Next]_vars
  PROVE  TypeOK'
<1> USE PagesAssumption DEF TypeOK
<1>1. ASSUME NEW w \in Writers, BeginTx(w) PROVE TypeOK'
  BY <1>1 DEF BeginTx, page, observer, Insertion
<1>2. ASSUME NEW w \in Writers, Insert(w) PROVE TypeOK'
  <2>1. drawn + 1 \in Ids /\ drawn' \in 0..MaxId  BY <1>2 DEF Insert, Ids
  <2>2. tx[w] \in Insertion  BY <1>2 DEF Insert
  <2>3. [tx[w] EXCEPT !.id = drawn + 1] \in Insertion  BY <2>1, <2>2 DEF Insertion
  <2>4. tx' \in [Writers -> Insertion \cup {None}]  BY <1>2, <2>3 DEF Insert
  <2> QED BY <1>2, <2>1, <2>4 DEF Insert, page, observer
<1>3. ASSUME NEW w \in Writers, Commit(w) PROVE TypeOK'
  <2>1. tx[w] \in Insertion /\ tx[w].id \in Ids /\ tx[w].at \in Times
    BY <1>3 DEF Commit, Insertion
  <2>2. [at |-> tx[w].at, status |-> IF listing = "orders" THEN "pending" ELSE "active"] \in Row
    BY <2>1 DEF Row, ProductStatuses
  <2>3. row' \in [Ids -> Row \cup {None}]  BY <1>3, <2>1, <2>2 DEF Commit
  <2>4. owed' \in SUBSET Ids /\ left' \in BOOLEAN  BY <1>3 DEF Commit, Observe, Ahead, Matching
  <2> QED BY <1>3, <2>3, <2>4 DEF Commit, page
<1>4. ASSUME NEW w \in Writers, Rollback(w) PROVE TypeOK'
  BY <1>4 DEF Rollback, page, observer
<1>5. ASSUME NEW x \in Ids, SetStatus(x) PROVE TypeOK'
  <2>1. PICK s \in Statuses : row' = [row EXCEPT ![x].status = s]  BY <1>5 DEF SetStatus
  <2>2. row[x] \in Row  BY <1>5 DEF SetStatus
  <2>3. s \in OrderStatuses \cup ProductStatuses  BY DEF Statuses
  <2>4. [row[x] EXCEPT !.status = s] \in Row  BY <2>2, <2>3 DEF Row
  <2>5. row' \in [Ids -> Row \cup {None}]  BY <2>1, <2>4
  <2>6. owed' \in SUBSET Ids /\ left' \in BOOLEAN  BY <1>5 DEF SetStatus, Observe, Ahead, Matching
  <2> QED BY <1>5, <2>5, <2>6 DEF SetStatus, page
<1>6. CASE Tick  BY <1>6 DEF Tick, page, observer, Times
<1>7. CASE StartWalk
  <2>1. filter' \in SUBSET (OrderStatuses \cup ProductStatuses)
    BY <1>7 DEF StartWalk, Filters, ProductStatuses
  <2> QED BY <1>7, <2>1 DEF StartWalk, table, page, Matching
<1>8. CASE ListPage
  <2>1. PICK limit \in Limits, p \in SUBSET Found :
          IsPage(p, PageSize(limit)) /\ ids' = p /\ more' = HasNext(limit)
    BY <1>8 DEF ListPage
  <2>2. ids' \in SUBSET Ids /\ more' \in BOOLEAN /\ left' \in BOOLEAN
    BY <1>8, <2>1 DEF ListPage, Found, Matching, HasNext
  <2>3. \E l \in Limits : Cardinality(ids') <= l  BY <2>1 DEF IsPage, PageSize
  <2> QED BY <1>8, <2>2, <2>3 DEF ListPage, table
<1>9. \E l \in Limits : Cardinality({}) <= l
  <2>1. PICK l \in Limits : TRUE  OBVIOUS
  <2>2. l \in Nat /\ Cardinality({}) = 0  BY <2>1, FS_EmptySet
  <2> QED BY <2>2
<1>10. CASE FetchDetails
  <2>1. ASSUME NEW x \in ids PROVE Encode(x) \in Cursor
    <3>1. x \in Ids /\ row[x] \in Row  BY DEF PageOK, Stored
    <3>2. row[x].at \in Times  BY <3>1 DEF Row
    <3> QED BY <3>1, <3>2 DEF Encode, Cursor
  <2>2. ids' \in SUBSET Ids /\ items' \in SUBSET Ids /\ more' \in BOOLEAN
    BY <1>10 DEF FetchDetails
  <2>3. cursor' \in Cursor \cup {None} /\ pc' \in {"ask", "done"}
    BY <1>10, <2>1 DEF FetchDetails
  <2>4. \E l \in Limits : Cardinality(ids') <= l  BY <1>9, <1>10 DEF FetchDetails
  <2> QED BY <1>10, <2>2, <2>3, <2>4 DEF FetchDetails, table, observer
<1>11. CASE Lost  BY <1>9, <1>11 DEF Lost, table, observer
<1>12. CASE UNCHANGED vars  BY <1>12 DEF vars
<1> QED BY <1>1, <1>2, <1>3, <1>4, <1>5, <1>6, <1>7, <1>8, <1>10, <1>11, <1>12 DEF Next
-----------------------------------------------------------------------------
(* The invariant *)

\* Steps of the walk do not touch the table's own facts, and writers keep them.
LEMMA TableKept ==
  ASSUME TypeOK, TableOK, [Next]_vars
  PROVE  TableOK'
<1>0. drawn \in Nat /\ \A w \in Writers : tx[w] # None => tx[w].id \in Nat
  BY PagesAssumption DEF TypeOK, Insertion, Ids
<1>1. ASSUME NEW w \in Writers, BeginTx(w) PROVE TableOK'
  <2>1. ASSUME NEW v \in Writers PROVE Inserted(v)' => v # w /\ Inserted(v) /\ tx'[v] = tx[v]
    BY <1>1 DEF BeginTx, Inserted, TypeOK
  <2>2. drawn' = drawn /\ Stored' = Stored  BY <1>1 DEF BeginTx, Stored
  <2> QED BY <2>1, <2>2 DEF TableOK
<1>2. ASSUME NEW w \in Writers, Insert(w) PROVE TableOK'
  <2>1. ASSUME NEW v \in Writers, v # w PROVE tx'[v] = tx[v]  BY <2>1, <1>2 DEF Insert, TypeOK
  <2>2. tx'[w].id = drawn + 1
    <3>1. tx[w] \in Insertion  BY <1>2 DEF Insert, TypeOK
    <3> QED BY <3>1, <1>2 DEF Insert, TypeOK, Insertion
  <2>3. drawn' = drawn + 1 /\ Stored' = Stored  BY <1>2 DEF Insert, Stored
  <2>4. \A x \in Stored : x \in Nat /\ x <= drawn  BY PagesAssumption DEF TableOK, Stored, Ids
  <2>5. \A x \in Stored' : x <= drawn'  BY <2>3, <2>4, <1>0
  <2>6. drawn + 1 \notin Stored  BY <2>4, <1>0
  <2>7. ASSUME NEW v \in Writers, Inserted(v)'
        PROVE  tx'[v].id <= drawn' /\ tx'[v].id \notin Stored'
    <3>1. CASE v = w  BY <3>1, <2>2, <2>3, <2>6, <1>0
    <3>2. CASE v # w
      <4>1. Inserted(v)  BY <3>2, <2>1, <2>7 DEF Inserted
      <4> QED BY <3>2, <4>1, <2>1, <2>3, <1>0 DEF TableOK, Inserted
    <3> QED BY <3>1, <3>2
  <2>8. ASSUME NEW v \in Writers, v # w, Inserted(v)' PROVE tx'[v].id # drawn + 1
    <3>1. Inserted(v)  BY <2>1, <2>8 DEF Inserted
    <3> QED BY <3>1, <2>1, <2>8, <1>0 DEF TableOK, Inserted
  <2>9. ASSUME NEW u \in Writers, NEW v \in Writers, u # v, Inserted(u)', Inserted(v)'
        PROVE  tx'[u].id # tx'[v].id
    <3>1. CASE u = w  BY <3>1, <2>2, <2>8, <2>9
    <3>2. CASE v = w  BY <3>2, <2>2, <2>8, <2>9
    <3>3. CASE u # w /\ v # w
      <4>1. Inserted(u) /\ Inserted(v)  BY <3>3, <2>1, <2>9 DEF Inserted
      <4> QED BY <3>3, <4>1, <2>1, <2>9 DEF TableOK
    <3> QED BY <3>1, <3>2, <3>3
  <2> QED BY <2>5, <2>7, <2>9 DEF TableOK
<1>3. ASSUME NEW w \in Writers, Commit(w) PROVE TableOK'
  <2>1. tx'[w] = None /\ \A v \in Writers : v # w => tx'[v] = tx[v]
    BY <1>3 DEF Commit, TypeOK
  <2>2. Inserted(w) /\ drawn' = drawn  BY <1>3 DEF Commit, Inserted
  <2>3. Stored' \subseteq Stored \cup {tx[w].id}  BY <1>3 DEF Commit, Stored, TypeOK
  <2>4. ASSUME NEW v \in Writers, Inserted(v)'
        PROVE  v # w /\ Inserted(v) /\ tx'[v] = tx[v] /\ tx[v].id # tx[w].id
    BY <2>1, <2>2, <2>4 DEF Inserted, TableOK
  <2>5. \A x \in Stored' : x <= drawn'  BY <2>2, <2>3 DEF TableOK
  <2>6. \A v \in Writers : Inserted(v)' => tx'[v].id <= drawn' /\ tx'[v].id \notin Stored'
    BY <2>2, <2>3, <2>4 DEF TableOK
  <2>7. \A u, v \in Writers : u # v /\ Inserted(u)' /\ Inserted(v)' => tx'[u].id # tx'[v].id
    BY <2>4 DEF TableOK
  <2> QED BY <2>5, <2>6, <2>7 DEF TableOK
<1>4. ASSUME NEW w \in Writers, Rollback(w) PROVE TableOK'
  <2>1. ASSUME NEW v \in Writers PROVE Inserted(v)' => Inserted(v) /\ tx'[v] = tx[v]
    BY <1>4 DEF Rollback, Inserted, TypeOK
  <2>2. drawn' = drawn /\ Stored' = Stored  BY <1>4 DEF Rollback, Stored
  <2> QED BY <2>1, <2>2 DEF TableOK
<1>5. ASSUME NEW x \in Ids, SetStatus(x) PROVE TableOK'
  <2>1. Stored' \subseteq Stored  BY <1>5 DEF SetStatus, Stored, TypeOK
  <2>2. tx' = tx /\ drawn' = drawn  BY <1>5 DEF SetStatus
  <2> QED BY <2>1, <2>2 DEF TableOK, Inserted
<1>6. CASE UNCHANGED <<drawn, tx, row>>
  BY <1>6 DEF TableOK, Inserted, Stored
<1> QED
  BY <1>1, <1>2, <1>3, <1>4, <1>5, <1>6
     DEF Next, vars, table, Tick, StartWalk, ListPage, FetchDetails, Lost

\* A new walk owes every row that matches.
LEMMA StartKeepsWalk ==
  ASSUME TypeOK, Walk, StartWalk
  PROVE  Walk'
<1> USE DEF StartWalk, table, page
<1>1. pc' = "ask" /\ cursor' = None /\ items' = {} /\ ids' = {} /\ ~more'
  BY DEF Walk, PageOK
<1>2. PageOK'  BY <1>1 DEF PageOK
<1>3. CursorOK'  BY <1>1 DEF CursorOK
<1>4. InOrder'  BY <1>1 DEF InOrder
<1>5. OwedOK'  BY <1>1 DEF OwedOK, Complete, Walking, Beyond
<1>6. LeftOK'  BY <1>1 DEF LeftOK
<1> QED BY <1>2, <1>3, <1>4, <1>5, <1>6 DEF Walk

\* The page found is what comes next; what is found and not in it comes after it.
LEMMA ListKeepsWalk ==
  ASSUME TypeOK, Walk, ListPage
  PROVE  Walk'
<1>1. PICK limit \in Limits, p \in SUBSET Found :
        IsPage(p, limit) /\ ids' = p /\ more' = HasNext(limit)
  BY DEF ListPage, PageSize
<1>2. /\ pc = "ask" /\ pc' = "answer" /\ left' = (left /\ ~more')
      /\ UNCHANGED <<listing, row, filter, cursor, items, owed>>
  BY DEF ListPage, table
<1>3. PageOK /\ CursorOK /\ OwedOK /\ LeftOK /\ OnWalk  BY <1>2 DEF Walk, OnWalk
<1>4. Found \subseteq Stored /\ Found \subseteq Ids /\ IsFiniteSet(Found)
  <2>1. Found \subseteq Ids /\ Found \subseteq Stored  BY DEF Found, Matching, Stored
  <2>2. IsFiniteSet(Ids)  BY PagesAssumption, FS_Interval DEF Ids
  <2> QED BY <2>1, <2>2, FS_Subset
<1>5. /\ limit \in Nat /\ limit > 0 /\ IsFiniteSet(p)
      /\ Cardinality(p) \in Nat /\ Cardinality(Found) \in Nat
      /\ Cardinality(p) <= Cardinality(Found)
      /\ Cardinality(Found) = Cardinality(p) => Found = p
  BY <1>1, <1>4, PagesAssumption, FS_Subset, FS_CardinalityType
<1>6. more' <=> p # Found
  <2>0. /\ Cardinality(p) <= limit
        /\ Cardinality(p) < limit => p = Found
        /\ more' <=> Cardinality(Found) > limit
    BY <1>1 DEF HasNext, IsPage
  <2> HIDE DEF Found
  <2>1. ASSUME more' PROVE p # Found  BY <1>5, <2>0, <2>1
  <2>2. ASSUME p # Found PROVE more'  BY <1>5, <2>0, <2>2
  <2> QED BY <2>1, <2>2
<1>7. more' => p # {}
  <2> SUFFICES ASSUME p = {} PROVE p = Found  BY <1>6
  <2>1. Cardinality(p) = 0  BY FS_EmptySet
  <2> QED BY <2>1, <1>1, <1>5 DEF IsPage
<1>8. ASSUME NEW x \in Found, NEW y \in items PROVE Precedes(y, x)
  BY <1>3, <1>4, AfterIsBeyondItems DEF Found
<1>9. ASSUME NEW x \in Found \ p PROVE Beyond(x)'
  <2> SUFFICES ASSUME NEW y \in items \cup p PROVE Precedes(y, x)'
    BY <1>1, <1>2 DEF Beyond
  <2>1. Precedes(y, x)  BY <1>1, <1>8 DEF IsPage
  <2> QED BY <2>1, <1>2 DEF Precedes
<1>10. PageOK'  BY <1>1, <1>2, <1>3, <1>4, <1>7 DEF PageOK, Stored
<1>11. CursorOK'  BY <1>2, <1>3 DEF CursorOK, OnWalk, IsLast, Precedes, Encode
<1>12. InOrder'
  <2> SUFFICES ASSUME NEW x \in items, NEW y \in p PROVE Precedes(x, y)'
    BY <1>1, <1>2 DEF InOrder
  <2>1. Precedes(x, y)  BY <1>8
  <2> QED BY <2>1, <1>2 DEF Precedes
<1>13. Matching' = Matching /\ Found' = Found  BY <1>2 DEF Matching, Found, After
<1>14. OwedOK'
  <2>1. owed' \subseteq Matching'  BY <1>2, <1>3, <1>13 DEF OwedOK
  <2>2. ASSUME NEW x \in owed PROVE x \in items \cup p \/ (more' /\ Beyond(x)')
    <3>1. CASE x \in items  BY <3>1
    <3>2. CASE x \notin items
      <4>1. x \in Matching /\ x \in Stored  BY <1>3 DEF OwedOK, Matching, Stored
      <4>2. Beyond(x)  BY <3>2, <1>2, <1>3 DEF OwedOK, PageOK
      <4>3. x \in Found  BY <4>1, <4>2, <1>3, AfterIsBeyondItems DEF Beyond, Found
      <4> QED BY <4>3, <1>6, <1>9
    <3> QED BY <3>1, <3>2
  <2> QED BY <1>1, <1>2, <2>1, <2>2 DEF OwedOK, OnWalk, Walking, Complete
<1>15. LeftOK'
  <2> SUFFICES ASSUME ~left' PROVE /\ cursor # None => Found # {}
                                   /\ more' => \E x \in Matching : Beyond(x)'
    BY <1>2, <1>13 DEF LeftOK
  <2>1. ASSUME cursor # None PROVE Found # {}
    <3>1. CASE more'  BY <3>1, <1>1, <1>7
    <3>2. CASE ~more'  BY <3>2, <2>1, <1>2, <1>3 DEF LeftOK
    <3> QED BY <3>1, <3>2
  <2>2. ASSUME more' PROVE \E x \in Matching : Beyond(x)'
    <3>1. PICK x \in Found \ p : TRUE  BY <1>1, <1>6, <2>2
    <3> QED BY <3>1, <1>9 DEF Found
  <2> QED BY <2>1, <2>2
<1> QED BY <1>10, <1>11, <1>12, <1>14, <1>15 DEF Walk

\* What is shown ends with the page, and the cursor with its last row.
LEMMA FetchKeepsWalk ==
  ASSUME TypeOK, TypeOK', Walk, FetchDetails
  PROVE  Walk'
<1> USE DEF Walk
<1>1. /\ pc = "answer" /\ items' = items \cup ids /\ ids' = {} /\ ~more'
      /\ UNCHANGED <<listing, row, filter, owed, left>>
  BY DEF FetchDetails, table, observer
<1>2. PageOK'  BY <1>1 DEF PageOK, Stored
<1>3. InOrder'  BY <1>1 DEF InOrder
<1>4. CASE ~more
  <2>1. cursor' = None /\ pc' = "done"  BY <1>4 DEF FetchDetails
  <2>2. CursorOK' /\ LeftOK'  BY <1>1, <2>1 DEF CursorOK, LeftOK, OnWalk
  <2>3. OwedOK'  BY <1>1, <1>4, <2>1 DEF OwedOK, OnWalk, Walking, Complete
  <2> QED BY <1>2, <1>3, <2>2, <2>3
<1>5. CASE more
  <2>1. PICK l \in ids : (\A y \in ids \ {l} : Precedes(y, l)) /\ cursor' = Encode(l)
    BY <1>5 DEF FetchDetails
  <2>2. pc' = "ask"  BY <1>5 DEF FetchDetails
  <2>3. IsLast(l, items)'
    <3> SUFFICES ASSUME NEW y \in items \cup ids, y # l PROVE Precedes(y, l)'
      BY <1>1, <2>1 DEF IsLast
    <3>1. Precedes(y, l)  BY <2>1 DEF InOrder
    <3> QED BY <3>1, <1>1 DEF Precedes
  <2>4. Encode(l)' = cursor'  BY <1>1, <2>1 DEF Encode
  <2>5. l \in Ids  BY DEF TypeOK
  <2>6. CursorOK'  BY <2>3, <2>4, <2>5 DEF CursorOK
  <2>7. Matching' = Matching  BY <1>1 DEF Matching
  <2>8. ASSUME NEW x \in Matching, Beyond(x) PROVE Beyond(x)' /\ x \in Found'
    <3>1. Beyond(x)'  BY <1>1, <2>8 DEF Beyond, Precedes
    <3>2. x \in Stored'  BY <2>7, <2>8 DEF Matching, Stored
    <3>3. After(x)'
      <4>1. /\ l \in Int /\ x \in Int /\ row[l].at \in Int /\ row[x].at \in Int
            /\ listing \in {"orders", "products"}
        BY <2>5, <2>8, PagesAssumption DEF TypeOK, PageOK, Stored, Matching, Ids, Row, Times
      <4>2. cursor'.id = l /\ (listing = "orders" => cursor'.at = row[l].at)
        BY <2>1 DEF Encode
      <4>3. Precedes(l, x)  BY <2>8 DEF Beyond
      <4> QED BY <1>1, <4>1, <4>2, <4>3 DEF After, Precedes
    <3> QED BY <3>1, <3>3, <2>7, <2>8 DEF Found
  <2>9. OwedOK'
    <3>1. owed' \subseteq Matching'  BY <1>1, <2>7 DEF OwedOK, OnWalk
    <3>2. ASSUME NEW x \in owed PROVE x \in items' \/ Beyond(x)'
      <4>1. x \in items \cup ids \/ Beyond(x)  BY <1>1 DEF OwedOK, OnWalk
      <4>2. x \in Matching  BY <1>1 DEF OwedOK, OnWalk
      <4> QED BY <4>1, <4>2, <1>1, <2>8
    <3> QED BY <1>1, <2>2, <3>1, <3>2 DEF OwedOK, Walking, Complete
  <2>10. LeftOK'
    <3> SUFFICES ASSUME ~left PROVE Found' # {}  BY <1>1 DEF LeftOK
    <3>1. PICK x \in Matching : Beyond(x)  BY <1>5 DEF LeftOK
    <3> QED BY <3>1, <2>8
  <2> QED BY <1>2, <1>3, <2>6, <2>9, <2>10
<1> QED BY <1>4, <1>5

\* A page that is lost is still ahead.
LEMMA LostKeepsWalk ==
  ASSUME TypeOK, Walk, Lost
  PROVE  Walk'
<1> USE DEF Walk
<1>1. /\ pc = "answer" /\ pc' = "ask" /\ ids' = {} /\ ~more'
      /\ UNCHANGED <<listing, row, filter, cursor, items, owed, left>>
  BY DEF Lost, table, observer
<1>2. PageOK'  BY <1>1 DEF PageOK, Stored
<1>3. CursorOK'  BY <1>1 DEF CursorOK, OnWalk, IsLast, Precedes, Encode
<1>4. InOrder'  BY <1>1 DEF InOrder
<1>5. Matching' = Matching /\ Found' = Found  BY <1>1 DEF Matching, Found, After
<1>6. ASSUME NEW x \in owed PROVE x \in items \/ Beyond(x)'
  <2>1. x \in items \cup ids \/ Beyond(x)  BY <1>1 DEF OwedOK, OnWalk
  <2>2. x \in items \/ \A y \in items : Precedes(y, x)  BY <2>1 DEF InOrder, Beyond
  <2> QED BY <2>2, <1>1 DEF Beyond, Precedes
<1>7. OwedOK'  BY <1>1, <1>5, <1>6 DEF OwedOK, OnWalk, Walking, Complete
<1>8. LeftOK'  BY <1>1, <1>5 DEF LeftOK, OnWalk
<1> QED BY <1>2, <1>3, <1>4, <1>7, <1>8

\* The inductive invariant holds: types, ids that are drawn once, the cursor as the key of the
\* last row shown, and what is owed as shown, on its way, or beyond it.
THEOREM Invariance == Spec => []IInv
<1>1. Init => IInv
  <2> SUFFICES ASSUME Init PROVE IInv  OBVIOUS
  <2>1. TypeOK
    <3>1. PICK l \in Limits : TRUE  BY PagesAssumption
    <3>2. Cardinality({}) <= l  BY <3>1, PagesAssumption, FS_EmptySet
    <3>3. \E limit \in Limits : Cardinality(ids) <= limit  BY <3>1, <3>2 DEF Init
    <3>4. clock \in Times /\ drawn \in 0..MaxId  BY PagesAssumption DEF Init, Times
    <3>5. row \in [Ids -> Row \cup {None}] /\ tx \in [Writers -> Insertion \cup {None}]
      BY DEF Init
    <3> QED BY <3>3, <3>4, <3>5 DEF Init, TypeOK
  <2>2. TableOK  BY DEF Init, TableOK, Stored, Inserted
  <2>3. Walk  BY DEF Init, Walk, PageOK, CursorOK, InOrder, OwedOK, LeftOK, OnWalk, Complete
  <2> QED BY <2>1, <2>2, <2>3 DEF IInv, Walk
<1>2. IInv /\ [Next]_vars => IInv'
  <2> SUFFICES ASSUME IInv, [Next]_vars PROVE IInv'  OBVIOUS
  <2>1. TypeOK /\ TableOK /\ Walk  BY DEF IInv, Walk
  <2>2. TypeOK'  BY <2>1, TypesKept DEF Walk
  <2>3. TableOK'  BY <2>1, TableKept
  <2>4. Walk'
    <3>1. CASE UNCHANGED <<listing, row, pc, filter, cursor, page, items, observer>>
      BY <3>1, <2>1, StillWalk
    <3>2. ASSUME NEW w \in Writers, Commit(w) PROVE Walk'
      <4>1. tx[w].id \notin Stored  BY <2>1, <3>2 DEF TableOK, Inserted, Commit
      <4>2. RowsKept  BY <4>1, <2>1, <3>2 DEF RowsKept, Commit, Stored, TypeOK, Row
      <4> QED BY <4>2, <2>1, <2>2, <3>2, WriteKeepsWalk DEF Commit, page
    <3>3. ASSUME NEW x \in Ids, SetStatus(x) PROVE Walk'
      <4>0. PICK s \in Statuses : row' = [row EXCEPT ![x].status = s]  BY <3>3 DEF SetStatus
      <4>1. RowsKept
        <5>1. row \in [Ids -> Row \cup {None}] /\ row[x] \in Row /\ listing' = listing
          BY <2>1, <3>3 DEF TypeOK, SetStatus
        <5>2. row'[x] = [row[x] EXCEPT !.status = s] /\ row'[x].at = row[x].at
          BY <4>0, <5>1 DEF Row
        <5>3. row'[x] \in Row  BY <5>1, <5>2, <4>0 DEF Row, Statuses
        <5>4. \A y \in Ids \ {x} : row'[y] = row[y]  BY <4>0, <5>1
        <5> QED BY <5>1, <5>2, <5>3, <5>4, PagesAssumption DEF RowsKept, Stored
      <4> QED BY <4>1, <2>1, <2>2, <3>3, WriteKeepsWalk DEF SetStatus, page
    <3>4. CASE StartWalk  BY <3>4, <2>1, StartKeepsWalk
    <3>5. CASE ListPage  BY <3>5, <2>1, ListKeepsWalk
    <3>6. CASE FetchDetails  BY <3>6, <2>1, <2>2, FetchKeepsWalk
    <3>7. CASE Lost  BY <3>7, <2>1, LostKeepsWalk
    <3> QED
      BY <3>1, <3>2, <3>3, <3>4, <3>5, <3>6, <3>7
         DEF Next, vars, page, observer, BeginTx, Insert, Rollback, Tick
  <2> QED BY <2>2, <2>3, <2>4 DEF IInv, Walk
<1> QED BY <1>1, <1>2, PTL DEF Spec

\* Every variable keeps its type, and no page is longer than asked for.
THEOREM TypeCorrect == Spec => []TypeOK
<1>1. IInv => TypeOK  BY DEF IInv
<1> QED BY <1>1, Invariance, PTL

\* Nothing is shown twice or out of order.
THEOREM PagesInOrder == Spec => []InOrder
<1>1. IInv => InOrder  BY DEF IInv
<1> QED BY <1>1, Invariance, PTL

\* A finished walk has shown all that stayed in its filter from when it was ahead.
THEOREM NothingMissed == Spec => []Complete
<1>1. IInv => Complete  BY DEF IInv, OwedOK
<1> QED BY <1>1, Invariance, PTL

\* A cursor that is not null leads to more rows unless some have left the filter.
THEOREM CursorsAreTrue == Spec => []MoreIsTrue
<1>1. IInv => MoreIsTrue  BY DEF IInv, LeftOK, MoreIsTrue, OnWalk
<1> QED BY <1>1, Invariance, PTL
=============================================================================
