------------------------------- MODULE Pages -------------------------------
(***************************************************************************)
(* The two listings that are read page by page: a tenant's orders, by time *)
(* of creation and id, and its products, the newest id first.  A client    *)
(* walks through one of them with the cursor each page carries, while      *)
(* transactions add rows and admins change statuses.  A row gets its time  *)
(* when its transaction begins, its id when it is inserted, and is seen    *)
(* when it is committed: three orders that need not agree.                 *)
(*                                                                         *)
(* Readers change nothing, so one client stands for any number.  `status`  *)
(* stands for every column the filters read (status, user, words).         *)
(***************************************************************************)
EXTENDS Integers, FiniteSets

CONSTANTS Listings,      \* the listings that are walked
          OrderStatuses, \* statuses of orders that occur
          Writers,       \* transactions that add rows, at the same time
          Limits,        \* page sizes a client asks for
          MaxId, MaxClock, \* bounds of the sequence and of the clock
          None

Ids   == 1..MaxId
Times == 1..MaxClock
ProductStatuses == {"active", "inactive"}
Row    == [at : Times, status : OrderStatuses \cup ProductStatuses]
Insertion == [at : Times, id : Ids \cup {0}]
Cursor == [at : Times \cup {0}, id : Ids]

ASSUME PagesAssumption ==
  /\ Listings \subseteq {"orders", "products"}
  /\ "pending" \in OrderStatuses
  /\ MaxId \in Nat /\ MaxClock \in Nat \ {0}
  /\ Limits \subseteq Nat \ {0} /\ Limits # {}
  /\ None \notin Row \cup Insertion \cup Cursor

VARIABLES
  listing, \* the listing that is walked
  clock,   \* the database's clock
  drawn,   \* ids drawn from the sequence
  tx,      \* each writer's transaction: its time and the id it has inserted
  row,     \* committed rows
  pc,      \* where the walk stands
  filter,  \* statuses the client asks for
  cursor,  \* the cursor of its next request
  ids,     \* the page that is on its way
  more,    \* whether rows were found behind it
  items,   \* what the client has been shown
  owed,    \* observer: rows the walk has had ahead of it, and that stayed in the filter
  left     \* observer: some row has left the filter since a page announced the next one

table    == <<listing, clock, drawn, tx, row>>
page     == <<ids, more>>
observer == <<owed, left>>
vars == <<listing, clock, drawn, tx, row, pc, filter, cursor, ids, more, items, owed, left>>

Init ==
  /\ listing \in Listings
  /\ clock = 1 /\ drawn = 0
  /\ tx = [w \in Writers |-> None]
  /\ row = [x \in Ids |-> None]
  /\ pc = "idle" /\ filter = {} /\ cursor = None
  /\ ids = {} /\ more = FALSE /\ items = {}
  /\ owed = {} /\ left = FALSE

-----------------------------------------------------------------------------
(* Rows and their order *)

Statuses == IF listing = "orders" THEN OrderStatuses ELSE ProductStatuses

\* Without a status filter deleted orders are left out, unless the client asks for all; the
\* public catalogue has active products, the admin's listing all of them.
Filters == IF listing = "orders"
           THEN {{s} : s \in OrderStatuses} \cup {OrderStatuses \ {"deleted"}, OrderStatuses}
           ELSE {{"active"}, ProductStatuses}

Matching == {x \in Ids : row[x] # None /\ row[x].status \in filter}

\* ORDER BY created_on, id_order; ORDER BY id_product DESC.
Precedes(x, y) ==
  IF listing = "orders"
  THEN row[x].at < row[y].at \/ (row[x].at = row[y].at /\ x < y)
  ELSE x > y

\* A cursor of orders carries the time and the id, one of products the id alone.
Encode(x) == [at |-> IF listing = "orders" THEN row[x].at ELSE 0, id |-> x]

AfterOrAt(x) ==
  \/ cursor = None
  \/ listing = "orders" /\ (row[x].at > cursor.at \/ (row[x].at = cursor.at /\ x >= cursor.id))
  \/ listing = "products" /\ x <= cursor.id
AfterTime(x) ==
  \/ cursor = None
  \/ listing = "orders" /\ row[x].at > cursor.at
  \/ listing = "products" /\ x < cursor.id
After(x) ==
  \/ cursor = None
  \/ listing = "orders" /\ (row[x].at > cursor.at \/ (row[x].at = cursor.at /\ x > cursor.id))
  \/ listing = "products" /\ x < cursor.id

Found == {x \in Matching : After(x)}

-----------------------------------------------------------------------------
(* Writers *)

\* What every write may change of what the walk owes: rows come and go, before its eyes or
\* behind its back.
Walking == pc = "ask" \/ (pc = "answer" /\ more)
Ahead   == {x \in Matching : Walking /\ \A y \in items \cup ids : Precedes(y, x)}
Observe ==
  /\ owed' = (owed \cap Matching') \cup Ahead'
  /\ left' = (left \/ ~(Matching \subseteq Matching'))

BeginTx(w) ==
  /\ tx[w] = None
  /\ tx' = [tx EXCEPT ![w] = [at |-> clock, id |-> 0]]
  /\ UNCHANGED <<listing, clock, drawn, row, pc, filter, cursor, page, items, observer>>

Insert(w) ==
  /\ tx[w] # None /\ tx[w].id = 0 /\ drawn < MaxId
  /\ drawn' = drawn + 1
  /\ tx' = [tx EXCEPT ![w].id = drawn + 1]
  /\ UNCHANGED <<listing, clock, row, pc, filter, cursor, page, items, observer>>

Commit(w) ==
  /\ tx[w] # None /\ tx[w].id # 0
  /\ row' = [row EXCEPT ![tx[w].id] =
       [at |-> tx[w].at, status |-> IF listing = "orders" THEN "pending" ELSE "active"]]
  /\ tx' = [tx EXCEPT ![w] = None]
  /\ UNCHANGED <<listing, clock, drawn, pc, filter, cursor, page, items>>
  /\ Observe

\* An id that was drawn is never drawn again.
Rollback(w) ==
  /\ tx[w] # None
  /\ tx' = [tx EXCEPT ![w] = None]
  /\ UNCHANGED <<listing, clock, drawn, row, pc, filter, cursor, page, items, observer>>

\* A row is never removed from its table, nor its time changed.
SetStatus(x) ==
  /\ row[x] # None
  /\ \E s \in Statuses : row' = [row EXCEPT ![x].status = s]
  /\ UNCHANGED <<listing, clock, drawn, tx, pc, filter, cursor, page, items>>
  /\ Observe

Tick ==
  /\ clock < MaxClock /\ clock' = clock + 1
  /\ UNCHANGED <<listing, drawn, tx, row, pc, filter, cursor, page, items, observer>>

-----------------------------------------------------------------------------
(* The walk *)

StartWalk ==
  /\ pc \in {"idle", "done"}
  /\ filter' \in Filters
  /\ pc' = "ask" /\ cursor' = None /\ items' = {}
  /\ UNCHANGED <<table, page>>
  /\ owed' = Matching' /\ left' = FALSE

\* The rows found are read in order, one more than the page holds.
UncutPage(limit) == limit + 1
PageSize(limit) == limit
HasNextAtLimit(limit) == Cardinality(Found) >= limit
HasNext(limit) == Cardinality(Found) > limit

IsPage(p, size) ==
  /\ Cardinality(p) <= size
  /\ Cardinality(p) < size => p = Found
  /\ \A x \in p, y \in Found \ p : Precedes(x, y)

\* One query reads a page of products, or the ids of a page of orders.
ListPage ==
  /\ pc = "ask"
  /\ \E limit \in Limits, p \in SUBSET Found :
       /\ IsPage(p, PageSize(limit))
       /\ ids' = p
       /\ more' = HasNext(limit)
  /\ left' = (left /\ ~more')
  /\ pc' = "answer"
  /\ UNCHANGED <<table, filter, cursor, items, owed>>

\* A page of orders is then read again by its ids, whatever the rows have become.  Its last row
\* makes the next cursor.
FetchDetails ==
  /\ pc = "answer"
  /\ items' = items \cup ids
  /\ IF more
     THEN /\ \E x \in ids : (\A y \in ids \ {x} : Precedes(y, x)) /\ cursor' = Encode(x)
          /\ pc' = "ask"
     ELSE cursor' = None /\ pc' = "done"
  /\ ids' = {} /\ more' = FALSE
  /\ UNCHANGED <<table, filter, observer>>

\* The second query fails, or the answer is lost: the client asks again with the cursor it has.
Lost ==
  /\ pc = "answer"
  /\ pc' = "ask" /\ ids' = {} /\ more' = FALSE
  /\ UNCHANGED <<table, filter, cursor, items, observer>>

Next ==
  \/ \E w \in Writers : BeginTx(w) \/ Insert(w) \/ Commit(w) \/ Rollback(w)
  \/ \E x \in Ids : SetStatus(x)
  \/ Tick \/ StartWalk \/ ListPage \/ FetchDetails \/ Lost

Spec == Init /\ [][Next]_vars

-----------------------------------------------------------------------------
(* Properties *)

\* Every variable keeps its type; no page is longer than the longest that can be asked for.
TypeOK ==
  /\ listing \in Listings
  /\ clock \in Times /\ drawn \in 0..MaxId
  /\ tx \in [Writers -> Insertion \cup {None}]
  /\ row \in [Ids -> Row \cup {None}]
  /\ pc \in {"idle", "ask", "answer", "done"}
  /\ filter \in SUBSET (OrderStatuses \cup ProductStatuses)
  /\ cursor \in Cursor \cup {None}
  /\ ids \in SUBSET Ids /\ more \in BOOLEAN /\ items \in SUBSET Ids
  /\ owed \in SUBSET Ids /\ left \in BOOLEAN
  /\ \E limit \in Limits : Cardinality(ids) <= limit

\* A page shows nothing the client has been shown, and nothing that comes before it, however the
\* table has changed between the two requests.
InOrder == \A x \in items, y \in ids : Precedes(x, y)

\* A walk that is over has shown every row that stayed in its filter from the time it was
\* first ahead of the walk, pages asked for twice and rows committed in between included.
Complete == pc = "done" => owed \subseteq items

\* A cursor announces more rows, and there are, unless rows have left the filter since.
MoreIsTrue == pc = "ask" /\ cursor # None /\ ~left => Found # {}
=============================================================================
