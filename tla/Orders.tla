------------------------------- MODULE Orders -------------------------------
(***************************************************************************)
(* The order flow of one tenant: CreateOrder, the PATCH of an order and    *)
(* the ghost-order worker, running concurrently over the products, orders  *)
(* and orders_history tables, together with the two admin operations that  *)
(* write a product's stock, status and track_inventory.                    *)
(*                                                                         *)
(* The database is PostgreSQL at READ COMMITTED.  product, order and       *)
(* history hold committed rows; what a transaction has written and not yet *)
(* committed is in delta, credit and claimed, visible to nobody else.  A   *)
(* row written or read FOR UPDATE by a transaction is locked by it until   *)
(* it ends, and a statement that needs a locked row waits: its action is   *)
(* not enabled.  One action is one statement, or several when nothing      *)
(* another process does could fall between them.                           *)
(*                                                                         *)
(* A definition followed by its real form under another name, such as      *)
(* TakesNoLock before Take, is a plausible mistake in that code: replacing *)
(* the real form by it must break a property (see the README).             *)
(***************************************************************************)
EXTENDS Integers, Sequences, FiniteSets, Functions

CONSTANTS Requests,     \* HTTP requests; each is handled once
          Workers,      \* ghost-order workers, one per replica of the API
          Products,     \* product rows of the tenant
          OrderIds,     \* order ids the sequence, a 32-bit serial, may hand out
          Baskets,      \* merged order payloads a customer may send
          NewStatuses,  \* statuses a PATCH may ask for
          InitProducts, \* product tables the system may start with
          StockLevels,  \* stock values an admin may write
          None

ProductStatus == {"active", "inactive", "deleted"}
Settable      == {"preparing", "ready", "delivered", "cancelled", "deleted"}
Status        == Settable \cup {"pending", "expired"}
Terminal      == {"cancelled", "expired"}

ProductRow == [status : ProductStatus, track : BOOLEAN, stock : Nat]
Item       == [product : Products, qty : Nat \ {0}]
Entry      == [status : Status, paid : BOOLEAN]
OrderRow   == [status : Status, paid : BOOLEAN, items : Baskets]

\* The request bodies the handlers accept.  A field the client left out is "keep".
CreateBody == [kind : {"create"}, items : Baskets]
PatchBody  == [kind : {"patch"}, order : OrderIds, status : NewStatuses \cup {"keep"},
               paid : {"paid", "unpaid", "keep"}, admin : BOOLEAN]
EditBody   == [kind : {"edit"}, product : Products, stock : StockLevels,
               track : {"on", "off", "keep"}, status : ProductStatus \cup {"keep"}]

Procs == Requests \cup Workers
Rows  == Products \cup OrderIds

\* mergeOrderItemsByProduct leaves one line per product, and the validator
\* refuses an empty order and a zero quantity.
IsBasket(b) == /\ b \in Seq(Item)
               /\ b # << >>
               /\ \A i, j \in DOMAIN b : b[i].product = b[j].product => i = j

ASSUME OrdersAssumption ==
  /\ Requests \cap Workers = {}
  /\ Products \cap OrderIds = {}
  /\ IsFiniteSet(OrderIds)
  /\ \A b \in Baskets : IsBasket(b)
  /\ NewStatuses \subseteq Settable
  /\ InitProducts \subseteq [Products -> ProductRow]
  /\ StockLevels \subseteq Nat
  /\ None \notin Procs \cup Rows \cup OrderRow \cup Entry \cup ProductRow
                 \cup CreateBody \cup PatchBody \cup EditBody

VARIABLES
  product,   \* products: committed rows
  order,     \* orders with their items: committed rows, None when absent
  history,   \* orders_history: the entries recorded for each order
  due,       \* orders whose expires_at has passed
  lock,      \* row -> the process whose transaction holds its lock
  pc,        \* where each handler or worker stands
  body,      \* the body of each request
  seen,      \* the row a handler read before its transaction
  walk,      \* the order whose items a transaction is visiting, and how many it has done
  delta,     \* stock change a transaction has staged, per product
  cutoff,    \* orders already due at the worker's time.Now()
  cand,      \* rows the worker's UPDATE has still to lock
  claimed,   \* rows it has locked and marked expired
  todo,      \* claimed orders whose items it has still to give back
  \* Observers: they record what was committed and guard nothing.
  credit,    \* units a transaction has staged for return, per order and product
  drawn,     \* units each order took from stock
  returned,  \* units given back on behalf of each order
  supplied,  \* units the admin has put in stock: the opening stock and every edit's change
  untracked, \* products whose inventory has at some time not been tracked
  expiries   \* how often a worker committed the expiry of each order

tables    == <<product, order, history>>
staged    == <<lock, walk, delta, credit>>
run       == <<cutoff, cand, claimed, todo>>
observers == <<drawn, returned, supplied, untracked, expiries>>
vars == <<product, order, history, due, lock, pc, body, seen, walk, delta,
          cutoff, cand, claimed, todo, credit, drawn, returned, supplied, untracked, expiries>>

NoUnits == [p \in Products |-> 0]
NoWalk  == [order |-> None, done |-> 0]
NoneYet == [o \in OrderIds |-> NoUnits]

Init ==
  /\ product \in InitProducts
  /\ order    = [o \in OrderIds |-> None]
  /\ history  = [o \in OrderIds |-> {}]
  /\ due      = {}
  /\ lock     = [x \in Rows |-> None]
  /\ pc       = [t \in Procs |-> IF t \in Workers THEN "idle" ELSE "new"]
  /\ body     = [r \in Requests |-> None]
  /\ seen     = [r \in Requests |-> None]
  /\ walk     = [t \in Procs |-> NoWalk]
  /\ delta    = [t \in Procs |-> NoUnits]
  /\ cutoff   = [w \in Workers |-> {}]
  /\ cand     = [w \in Workers |-> {}]
  /\ claimed  = [w \in Workers |-> {}]
  /\ todo     = [w \in Workers |-> {}]
  /\ credit   = [t \in Procs |-> NoneYet]
  /\ drawn    = NoneYet
  /\ returned = NoneYet
  /\ supplied = [p \in Products |-> product[p].stock]
  /\ untracked = {p \in Products : ~product[p].track}
  /\ expiries = [o \in OrderIds |-> 0]

-----------------------------------------------------------------------------
(* Transactions *)

Free(x)  == lock[x] = None
Mine(t, x) == lock[x] \in {None, t}

\* SELECT ... FOR UPDATE and UPDATE leave the row locked for the transaction.
TakesNoLock(t, x) == UNCHANGED lock
Take(t, x) == lock' = [lock EXCEPT ![x] = t]

Goto(t, l) == pc' = [pc EXCEPT ![t] = l]
Rest(t)  == IF t \in Workers THEN "idle" ELSE "done"

EndTxKeepingLocks(t) ==
  /\ lock'   = lock
  /\ walk'   = [walk EXCEPT ![t] = NoWalk]
  /\ delta'  = [delta EXCEPT ![t] = NoUnits]
  /\ credit' = [credit EXCEPT ![t] = NoneYet]
  /\ Goto(t, Rest(t))

\* COMMIT and ROLLBACK drop what was staged and release every row lock.
EndTx(t) ==
  /\ lock'   = [x \in Rows |-> IF lock[x] = t THEN None ELSE lock[x]]
  /\ walk'   = [walk EXCEPT ![t] = NoWalk]
  /\ delta'  = [delta EXCEPT ![t] = NoUnits]
  /\ credit' = [credit EXCEPT ![t] = NoneYet]
  /\ Goto(t, Rest(t))

EndRun(t) ==
  IF t \in Workers
  THEN /\ cutoff'  = [cutoff EXCEPT ![t] = {}]
       /\ cand'    = [cand EXCEPT ![t] = {}]
       /\ claimed' = [claimed EXCEPT ![t] = {}]
       /\ todo'    = [todo EXCEPT ![t] = {}]
  ELSE UNCHANGED run

Rollback(t) == EndTx(t) /\ EndRun(t) /\ UNCHANGED <<tables, due, body, seen, observers>>

\* A return that reaches active products only, as the decrement does.
StockAfterIfActive(t) ==
  [p \in Products |->
    [product[p] EXCEPT !.stock = IF product[p].status = "active" THEN @ + delta[t][p] ELSE @]]

\* The committed stock once t's staged change is applied.
StockAfter(t) == [p \in Products |-> [product[p] EXCEPT !.stock = @ + delta[t][p]]]

\* A statement fails, the client goes away, the connection or the process dies:
\* the deferred Rollback, or the server on a lost connection, ends the transaction.
Fail(t) == pc[t] \notin {"new", "idle", "done"} /\ Rollback(t)

-----------------------------------------------------------------------------
(* CreateOrder *)

ItemAt(r)    == body[r].items[walk[r].done + 1]
AllItems(r)  == walk[r].done = Len(body[r].items)

\* The unlocked read of GetProductsByIDs has found every product active; the
\* transaction begins.
BeginCreate(r) ==
  /\ pc[r] = "new"
  /\ \E b \in Baskets :
       /\ \A i \in DOMAIN b : product[b[i].product].status = "active"
       /\ body' = [body EXCEPT ![r] = [kind |-> "create", items |-> b]]
  /\ Goto(r, "reserve")
  /\ UNCHANGED <<tables, due, seen, staged, run, observers>>

PurchasableOnceRead(item) ==
  product[item.product].track => product[item.product].stock >= item.qty
PurchasableBeyondStock(item) == product[item.product].status = "active"

Purchasable(item) ==
  /\ product[item.product].status = "active"
  /\ product[item.product].track => product[item.product].stock >= item.qty

\* AssertProductActiveTx locks the row; DecrementProductStockTx follows under
\* the same lock when inventory is tracked.
ReserveItem(r) ==
  /\ pc[r] = "reserve" /\ ~AllItems(r)
  /\ LET item == ItemAt(r)
         p    == item.product
     IN /\ Free(p)
        /\ Purchasable(item)
        /\ Take(r, p)
        /\ delta' = IF product[p].track THEN [delta EXCEPT ![r][p] = @ - item.qty] ELSE delta
  /\ walk' = [walk EXCEPT ![r].done = @ + 1]
  /\ UNCHANGED <<tables, due, pc, body, seen, credit, run, observers>>

\* ErrProductNotPurchasable or ErrNotEnoughProductStock.
RejectItem(r) ==
  /\ pc[r] = "reserve" /\ ~AllItems(r)
  /\ Free(ItemAt(r).product)
  /\ ~Purchasable(ItemAt(r))
  /\ Rollback(r)

\* The order, its items and the history row are inserted and committed.  Until
\* the commit the new rows are invisible, so one action stands for all of it.
CommitCreate(r) ==
  /\ pc[r] = "reserve" /\ AllItems(r)
  /\ \E o \in OrderIds :
       /\ order[o] = None
       /\ order'   = [order EXCEPT ![o] =
                        [status |-> "pending", paid |-> FALSE, items |-> body[r].items]]
       /\ history' = [history EXCEPT ![o] = @ \cup {[status |-> "pending", paid |-> FALSE]}]
       /\ drawn'   = [drawn EXCEPT ![o] = [p \in Products |-> 0 - delta[r][p]]]
  /\ product' = StockAfter(r)
  /\ EndTx(r)
  /\ UNCHANGED <<due, body, seen, run, returned, supplied, untracked, expiries>>

-----------------------------------------------------------------------------
(* PATCH of an order *)

NewPaid(b, old) == IF b.paid = "keep" THEN old ELSE b.paid = "paid"

\* UpdateOrder: GetOrderByID finds the order.  A PATCH without a status goes
\* straight to the paid flag, whatever the order's status is.
BeginPatch(r) ==
  /\ pc[r] = "new"
  /\ \E b \in PatchBody :
       /\ order[b.order] # None
       /\ <<b.status, b.paid>> # <<"keep", "keep">>
       /\ body' = [body EXCEPT ![r] = b]
       /\ seen' = [seen EXCEPT ![r] = [status |-> order[b.order].status,
                                      paid   |-> NewPaid(b, order[b.order].paid)]]
       /\ Goto(r, IF b.status = "keep" THEN "set_paid" ELSE "validate")
  /\ UNCHANGED <<tables, due, staged, run, observers>>

\* The updater reads the order again, outside any transaction, and validates
\* the transition against what it read.  seen becomes the entry the history row
\* will hold.
ValidateTransition(r) ==
  /\ pc[r] = "validate"
  /\ LET b   == body[r]
         row == order[b.order]
     IN /\ IF row.status \in Terminal
           THEN Goto(r, "done") /\ UNCHANGED seen
           ELSE /\ seen' = [seen EXCEPT ![r] = [status |-> b.status,
                                               paid   |-> NewPaid(b, row.paid)]]
                /\ Goto(r, IF (b.admin /\ b.status = "cancelled") \/ b.paid # "keep"
                           THEN "begin_tx" ELSE "set_status")
  /\ UNCHANGED <<tables, due, body, staged, run, observers>>

Patched(b, row) == [row EXCEPT !.status = IF b.status = "keep" THEN @ ELSE b.status,
                               !.paid   = NewPaid(b, @)]

\* UpdateOrderStatus or UpdateOrderPaidStatus as a statement of its own: it
\* waits for the row and then writes it, whatever it has become meanwhile.
WriteOrder(r) ==
  /\ pc[r] \in {"set_status", "set_paid"}
  /\ LET o == body[r].order
     IN /\ Free(o)
        /\ order' = [order EXCEPT ![o] = Patched(body[r], @)]
  /\ Goto(r, "write_history")
  /\ UNCHANGED <<product, history, due, body, seen, staged, run, observers>>

\* The history row of an update outside a transaction is a second statement.
WriteHistory(r) ==
  /\ pc[r] = "write_history"
  /\ history' = [history EXCEPT ![body[r].order] = @ \cup {seen[r]}]
  /\ Goto(r, "done")
  /\ UNCHANGED <<product, order, due, body, seen, staged, run, observers>>

\* updateStatusInTx writes the order row first and holds it to the end; the
\* new values are in body and are not visible before the commit.
LockOrder(r) ==
  /\ pc[r] = "begin_tx"
  /\ LET o == body[r].order
     IN /\ Free(o)
        /\ Take(r, o)
        /\ walk' = [walk EXCEPT ![r] = [order |-> o, done |->
             IF body[r].admin /\ body[r].status = "cancelled" THEN 0
             ELSE Len(order[o].items)]]
  /\ Goto(r, "restore")
  /\ UNCHANGED <<tables, due, body, seen, delta, credit, run, observers>>

\* RevertProductStockTx, for admin cancel and for the worker alike: the next
\* item of the order being walked.  An untracked product is left as it is.
Restoring(t)  == pc[t] = "restore" /\ walk[t].order # None
Walked(t)     == walk[t].done = Len(order[walk[t].order].items)
NextReturn(t) == order[walk[t].order].items[walk[t].done + 1]

RestoreItem(t) ==
  /\ Restoring(t) /\ ~Walked(t)
  /\ LET item == NextReturn(t)
         p    == item.product
     IN IF product[p].track
        THEN /\ Mine(t, p)
             /\ Take(t, p)
             /\ delta'  = [delta EXCEPT ![t][p] = @ + item.qty]
             /\ credit' = [credit EXCEPT ![t][walk[t].order][p] = @ + item.qty]
        ELSE UNCHANGED <<lock, delta, credit>>
  /\ walk' = [walk EXCEPT ![t].done = @ + 1]
  /\ UNCHANGED <<tables, due, pc, body, seen, run, observers>>

Returned(t) == [o \in OrderIds |-> [p \in Products |-> returned[o][p] + credit[t][o][p]]]

CommitPatch(r) ==
  /\ r \in Requests
  /\ Restoring(r) /\ Walked(r)
  /\ LET o == body[r].order
     IN /\ order'   = [order EXCEPT ![o] = Patched(body[r], @)]
        /\ history' = [history EXCEPT ![o] = @ \cup {seen[r]}]
  /\ product'  = StockAfter(r)
  /\ returned' = Returned(r)
  /\ EndTx(r)
  /\ UNCHANGED <<due, body, seen, run, drawn, supplied, untracked, expiries>>

\* The insert into orders_history fails.  CreateOrder and updateStatusInTx log it
\* and go on to Commit, but PostgreSQL has aborted the transaction: Commit rolls
\* it back.
HistoryInsertFails(r) ==
  /\ \/ pc[r] = "reserve" /\ AllItems(r)
     \/ Restoring(r) /\ Walked(r)
  /\ Goto(r, "commit_aborted")
  /\ UNCHANGED <<tables, due, body, seen, staged, run, observers>>

CommitAborted(r) == pc[r] = "commit_aborted" /\ Rollback(r)

-----------------------------------------------------------------------------
(* CancelExpiredOrders *)

\* The clock passes an order's expires_at.
TimePasses ==
  /\ \E o \in OrderIds \ due : order[o] # None /\ due' = due \cup {o}
  /\ UNCHANGED <<tables, pc, body, seen, staged, run, observers>>

StartRunWithOldNow(w) ==
  /\ pc[w] = "idle"
  /\ Goto(w, "claim")
  /\ UNCHANGED <<tables, due, body, seen, staged, run, observers>>

\* now := time.Now(), ListActiveTenantIDs, BeginTx.
StartRun(w) ==
  /\ pc[w] = "idle"
  /\ cutoff' = [cutoff EXCEPT ![w] = due]
  /\ Goto(w, "claim")
  /\ UNCHANGED <<tables, due, body, seen, staged, cand, claimed, todo, observers>>

ClaimableWhenPaid(w, o) ==
  order[o] # None /\ order[o].status = "pending" /\ o \in cutoff[w]
ClaimableInAnyStatus(w, o) ==
  order[o] # None /\ ~order[o].paid /\ o \in cutoff[w]

Claimable(w, o) ==
  /\ order[o] # None
  /\ order[o].status = "pending" /\ ~order[o].paid
  /\ o \in cutoff[w]

\* The UPDATE ... RETURNING starts: the rows its snapshot matches.
ScanExpired(w) ==
  /\ pc[w] = "claim"
  /\ cand' = [cand EXCEPT ![w] = {o \in OrderIds : Claimable(w, o)}]
  /\ Goto(w, "lock_rows")
  /\ UNCHANGED <<tables, due, body, seen, staged, cutoff, claimed, todo, observers>>

\* It locks them one by one.  A row that was locked is evaluated again once it
\* is free, and skipped when it no longer matches.
ClaimRow(w) ==
  /\ pc[w] = "lock_rows"
  /\ \E o \in cand[w] :
       /\ Free(o)
       /\ cand' = [cand EXCEPT ![w] = @ \ {o}]
       /\ IF Claimable(w, o)
          THEN /\ Take(w, o)
               /\ claimed' = [claimed EXCEPT ![w] = @ \cup {o}]
               /\ todo'    = [todo EXCEPT ![w] = @ \cup {o}]
          ELSE UNCHANGED <<lock, claimed, todo>>
  /\ UNCHANGED <<tables, due, pc, body, seen, walk, delta, credit, cutoff, observers>>

RowsLocked(w) ==
  /\ pc[w] = "lock_rows" /\ cand[w] = {}
  /\ Goto(w, "restore")
  /\ UNCHANGED <<tables, due, body, seen, staged, run, observers>>

\* revertStockAndRecordHistoryTx for the next claimed order; its history row is
\* staged and appears with the commit.
NextClaimed(w) ==
  /\ pc[w] = "restore"
  /\ walk[w].order # None => Walked(w)
  /\ \E o \in todo[w] :
       /\ todo' = [todo EXCEPT ![w] = @ \ {o}]
       /\ walk' = [walk EXCEPT ![w] = [order |-> o, done |-> 0]]
  /\ UNCHANGED <<tables, due, pc, body, seen, lock, delta, credit, cutoff, cand,
                 claimed, observers>>

\* The history row of an expiry.
CancelledEntry(o) == [status |-> "cancelled", paid |-> order[o].paid]
ExpiryEntry(o)    == [status |-> "expired", paid |-> order[o].paid]

CommitRun(w) ==
  /\ w \in Workers
  /\ pc[w] = "restore" /\ todo[w] = {}
  /\ walk[w].order # None => Walked(w)
  /\ order'    = [o \in OrderIds |->
                   IF o \in claimed[w] THEN [order[o] EXCEPT !.status = "expired"] ELSE order[o]]
  /\ history'  = [o \in OrderIds |->
                   IF o \in claimed[w] THEN history[o] \cup {ExpiryEntry(o)} ELSE history[o]]
  /\ expiries' = [o \in OrderIds |-> IF o \in claimed[w] THEN expiries[o] + 1 ELSE expiries[o]]
  /\ product'  = StockAfter(w)
  /\ returned' = Returned(w)
  /\ EndTx(w) /\ EndRun(w)
  /\ UNCHANGED <<due, body, seen, drawn, supplied, untracked>>

-----------------------------------------------------------------------------
(* Admin edits of a product *)

\* UpdateProduct reads the product; fields the request omits keep the value read.
BeginEdit(r) ==
  /\ pc[r] = "new"
  /\ \E b \in EditBody :
       LET row == product[b.product]
       IN /\ body' = [body EXCEPT ![r] = b]
          /\ seen' = [seen EXCEPT ![r] =
               [status |-> IF b.status = "keep" THEN row.status ELSE b.status,
                track  |-> IF b.track = "keep" THEN row.track ELSE b.track = "on",
                stock  |-> b.stock]]
  /\ Goto(r, "edit")
  /\ UNCHANGED <<tables, due, staged, run, observers>>

\* One UPDATE writes stock, status and track_inventory as absolute values.
WriteEdit(r) ==
  /\ pc[r] = "edit"
  /\ LET p == body[r].product
     IN /\ Free(p)
        /\ product'  = [product EXCEPT ![p] = seen[r]]
        /\ supplied' = [supplied EXCEPT ![p] = @ + seen[r].stock - product[p].stock]
        /\ untracked' = IF seen[r].track THEN untracked ELSE untracked \cup {p}
  /\ Goto(r, "done")
  /\ UNCHANGED <<order, history, due, body, seen, staged, run, drawn, returned, expiries>>

\* UpdateProductStatus writes the status alone.
SetProductStatus(r) ==
  /\ pc[r] = "new"
  /\ \E p \in Products, s \in ProductStatus :
       Free(p) /\ product' = [product EXCEPT ![p].status = s]
  /\ Goto(r, "done")
  /\ UNCHANGED <<order, history, due, body, seen, staged, run, observers>>

-----------------------------------------------------------------------------
(* The specification *)

\* The rows a process's next statement needs; a claim waits when none of its is free.
Wants(t) ==
  CASE pc[t] = "reserve" /\ ~AllItems(t)               -> {ItemAt(t).product}
    [] pc[t] \in {"set_status", "set_paid", "begin_tx"} -> {body[t].order}
    [] pc[t] = "edit"                                   -> {body[t].product}
    [] Restoring(t) /\ ~Walked(t)                       ->
         {p \in {NextReturn(t).product} : product[p].track}
    [] pc[t] = "lock_rows"                              -> cand[t]
    [] OTHER                                            -> {}

\* A deadlock: everybody in S waits for the rest of S, and nobody in S could be left out.
WaitsIn(t, S) == Wants(t) # {} /\ \A x \in Wants(t) : lock[x] \in S \ {t}
Waiting(S) == S # {} /\ \A t \in S : WaitsIn(t, S)
Cycle(S) == Waiting(S) /\ \A T \in SUBSET S : Waiting(T) => T = S

\* PostgreSQL's deadlock detector rolls one of the transactions of a cycle back.
Deadlocked(t) ==
  WaitsIn(t, Procs) /\ \E S \in SUBSET {u \in Procs : WaitsIn(u, Procs)} : t \in S /\ Cycle(S)

DeadlockVictim(t) == Deadlocked(t) /\ Rollback(t)

\* What a request does once it has been received.
Handle(r) ==
  \/ ReserveItem(r) \/ RejectItem(r) \/ CommitCreate(r)
  \/ ValidateTransition(r) \/ WriteOrder(r) \/ WriteHistory(r)
  \/ LockOrder(r) \/ RestoreItem(r) \/ CommitPatch(r)
  \/ HistoryInsertFails(r) \/ CommitAborted(r)
  \/ WriteEdit(r)

Receive(r) == BeginCreate(r) \/ BeginPatch(r) \/ BeginEdit(r) \/ SetProductStatus(r)

\* A run that gives the items of an order back before it claims the next.
ClaimOneByOne(w) ==
  \/ StartRun(w) \/ ScanExpired(w) \/ ClaimRow(w) \/ RowsLocked(w)
  \/ NextClaimed(w) \/ RestoreItem(w) \/ CommitRun(w)
  \/ /\ \/ pc[w] = "lock_rows" /\ todo[w] # {} /\ Goto(w, "restore")
        \/ pc[w] = "restore" /\ todo[w] = {} /\ cand[w] # {} /\ Goto(w, "lock_rows")
     /\ UNCHANGED <<tables, due, body, seen, staged, run, observers>>

Work(w) ==
  \/ StartRun(w) \/ ScanExpired(w) \/ ClaimRow(w) \/ RowsLocked(w)
  \/ NextClaimed(w) \/ RestoreItem(w) \/ CommitRun(w)

Next ==
  \/ \E r \in Requests : Receive(r) \/ Handle(r)
  \/ \E w \in Workers : Work(w)
  \/ \E t \in Procs : Fail(t) \/ DeadlockVictim(t)
  \/ TimePasses

Spec == Init /\ [][Next]_vars

\* The API serves what it has received, and the ticker starts a run as long as
\* the process lives.  PostgreSQL grants a row lock in arrival order, so a
\* waiting statement gets its turn (strong fairness), and breaks every deadlock.
\* A worker's run may fail again and again, but the database recovers at last.
\* (Rolling back an empty run is the same step as committing it.)
RunFails(w) == Fail(w) /\ ~CommitRun(w) /\ ~Deadlocked(w)
Fairness ==
  /\ \A r \in Requests : SF_vars(Handle(r))
  /\ \A w \in Workers : SF_vars(Work(w)) /\ <>[][~RunFails(w)]_vars
  /\ WF_vars(\E t \in Procs : DeadlockVictim(t))

FairSpec == Spec /\ Fairness

-----------------------------------------------------------------------------
(* Correctness *)

PC == {"new", "reserve", "validate", "set_status", "set_paid", "write_history", "begin_tx",
       "restore", "commit_aborted", "edit", "done", "idle", "claim", "lock_rows"}

\* Types of the variables; a committed stock is never negative.
TypeOK ==
  /\ product  \in [Products -> ProductRow]
  /\ order    \in [OrderIds -> OrderRow \cup {None}]
  /\ history  \in [OrderIds -> SUBSET Entry]
  /\ due      \in SUBSET OrderIds
  /\ lock     \in [Rows -> Procs \cup {None}]
  /\ pc       \in [Procs -> PC]
  /\ body     \in [Requests -> CreateBody \cup PatchBody \cup EditBody \cup {None}]
  /\ seen     \in [Requests -> Entry \cup ProductRow \cup {None}]
  /\ walk     \in [Procs -> [order : OrderIds \cup {None}, done : Nat]]
  /\ delta    \in [Procs -> [Products -> Int]]
  /\ cutoff   \in [Workers -> SUBSET OrderIds]
  /\ cand     \in [Workers -> SUBSET OrderIds]
  /\ claimed  \in [Workers -> SUBSET OrderIds]
  /\ todo     \in [Workers -> SUBSET OrderIds]
  /\ credit   \in [Procs -> [OrderIds -> [Products -> Int]]]
  /\ drawn    \in [OrderIds -> [Products -> Int]]
  /\ returned \in [OrderIds -> [Products -> Int]]
  /\ supplied \in [Products -> Int]
  /\ untracked \in SUBSET Products
  /\ expiries \in [OrderIds -> Nat]

HasStatus(row, s) == row # None /\ row.status = s

\* Every unit is accounted for: what is in stock and what orders took is what
\* was supplied and what was given back, whatever rolled back in between and
\* whoever edited the product.
StockLedger ==
  \A p \in Products :
    product[p].stock + SumFunction([o \in OrderIds |-> drawn[o][p]])
      = supplied[p] + SumFunction([o \in OrderIds |-> returned[o][p]])

\* What CreateOrder checked under the row lock still holds when it commits: each
\* product reserved so far is active, locked, and has the units in stock.
Reserved(r, p) ==
  lock[p] = r /\ product[p].status = "active" /\ product[p].stock + delta[r][p] >= 0
ReservationsHold ==
  \A r \in Requests : pc[r] = "reserve" =>
    \A i \in 1..walk[r].done : Reserved(r, body[r].items[i].product)

\* Overlapping runs and several workers never expire the same order twice, not
\* even when PATCHes race with them: no order goes back to pending.
ExpiredOnce == \A o \in OrderIds : expiries[o] <= 1

\* An order becomes expired only from pending, unpaid and past its expires_at at
\* the moment of the commit: a payment that lands first always wins.
ExpiresOnlyUnpaidPending ==
  [][\A o \in OrderIds :
       (HasStatus(order'[o], "expired") /\ ~HasStatus(order[o], "expired"))
         => HasStatus(order[o], "pending") /\ ~order[o].paid /\ o \in due]_vars

\* Creation and expiry never happen without their history row: it is in the
\* same transaction.
AuditTrail ==
  \A o \in OrderIds : order[o] # None =>
    /\ [status |-> "pending", paid |-> FALSE] \in history[o]
    /\ HasStatus(order[o], "expired") => [status |-> "expired", paid |-> FALSE] \in history[o]

\* Every operation of the order flow takes effect at the single step that commits
\* it, exactly as OrderLedger says: no interleaving of statements, no lock wait
\* and no failure in between can be seen in the tables.
Ledger == INSTANCE OrderLedger
ImplementsLedger == Ledger!Spec

\* Order rows are locked before products, by a PATCH and by the worker alike: a
\* deadlock is among claims that wait for each other's orders or among transactions
\* that wait for each other's products, never a mixture.  A PATCH that is not giving
\* units back yet, and an edit of a product, are in none.
DeadlockKinds ==
  \A S \in SUBSET Procs : Cycle(S) =>
    \/ \A t \in S : pc[t] = "lock_rows"
    \/ \A t \in S : pc[t] \in {"reserve", "restore"}

\* Every request received is answered: no lock is left behind by a transaction
\* that ended, and no cycle of waits outlives the deadlock detector.
RequestsFinish == \A r \in Requests : pc[r] # "new" ~> pc[r] = "done"

\* The stock of an abandoned order does not stay reserved: once its expires_at
\* has passed, it is paid, it moves on, or the worker expires it.
Abandoned(o) == o \in due /\ HasStatus(order[o], "pending") /\ ~order[o].paid
AbandonedOrdersEnd == \A o \in OrderIds : Abandoned(o) ~> ~Abandoned(o)

-----------------------------------------------------------------------------
(* What the repository says and the code does not do; see the README. *)

\* internal/errors/errors.go:43, "order is already cancelled and cannot be
\* modified", and docs/openapi.yaml:336, "stock is decremented on order create and
\* reverted on admin cancel": an order that is cancelled or expired keeps that status,
\* and gives back no more than it took.
TerminalIsFinal ==
  [][\A o \in OrderIds : \A s \in Terminal : HasStatus(order[o], s) =>
       /\ HasStatus(order'[o], s)
       /\ \A p \in Products : returned'[o][p] <= drawn[o][p]]_vars

\* internal/services/orders/update_status.go:142, "History is best-effort; still
\* commit status/paid/stock", and create.go:225: a failed history insert does
\* not undo the order.
HistoryIsBestEffort == [][\A r \in Requests : CommitAborted(r) => order' # order]_vars

=============================================================================
