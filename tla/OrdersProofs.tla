---------------------------- MODULE OrdersProofs ----------------------------
(***************************************************************************)
(* The invariants of Orders hold for any number of requests, workers,      *)
(* products and orders, and any stock.                                     *)
(*                                                                         *)
(* IInv is the inductive invariant.  What carries it is the row locks: a   *)
(* transaction stages a stock change, patches an order or claims one only  *)
(* while it holds the row's lock, and nobody writes a row another          *)
(* transaction has locked.                                                 *)
(***************************************************************************)
EXTENDS Orders, TLAPS

-----------------------------------------------------------------------------
(* The inductive invariant *)

Patching == {"validate", "set_status", "set_paid", "begin_tx", "write_history", "restore"}
Staging  == {"reserve", "restore", "commit_aborted"}

\* The order being walked exists and the walk stays within its items; nothing is
\* staged outside a transaction; a staged stock change holds the product's lock
\* and leaves no negative stock.
ProcAt(t) ==
  /\ walk[t].order # None =>
       order[walk[t].order] # None /\ walk[t].done <= Len(order[walk[t].order].items)
  /\ pc[t] \notin Staging => walk[t] = NoWalk /\ delta[t] = NoUnits
  /\ \A p \in Products :
       delta[t][p] # 0 => lock[p] = t /\ product[p].stock + delta[t][p] >= 0

\* What a handler knows of its request at each of its places.
RequestAt(r) ==
  /\ pc[r] \notin {"idle", "claim", "lock_rows"}
  /\ pc[r] = "reserve" =>
       /\ body[r] \in CreateBody /\ walk[r].order = None /\ walk[r].done <= Len(body[r].items)
       /\ \A i \in 1..walk[r].done : Reserved(r, body[r].items[i].product)
  /\ pc[r] \in Patching => body[r] \in PatchBody /\ order[body[r].order] # None
  /\ pc[r] = "validate" => body[r].status # "keep"
  /\ pc[r] \in Patching \ {"validate"} => seen[r] \in Entry
  /\ pc[r] = "restore" => walk[r].order = body[r].order /\ lock[body[r].order] = r
  /\ pc[r] = "edit" => body[r] \in EditBody /\ seen[r] \in ProductRow

\* A claimed order is locked, due, and still pending and unpaid.
Claim(w, o) ==
  /\ lock[o] = w /\ o \in due
  /\ order[o] # None /\ order[o].status = "pending" /\ ~order[o].paid

\* A worker walks an order it has claimed.
WorkerAt(w) ==
  /\ pc[w] \in {"idle", "claim", "lock_rows", "restore"}
  /\ cutoff[w] \subseteq due
  /\ todo[w] \subseteq claimed[w]
  /\ walk[w].order # None => walk[w].order \in claimed[w]
  /\ \A o \in claimed[w] : Claim(w, o)

\* An order that is not there yet, or still pending, has not expired.
PendingNotExpired ==
  \A o \in OrderIds : order[o] = None \/ order[o].status = "pending" => expiries[o] = 0

Everyone ==
  /\ \A t \in Procs : ProcAt(t)
  /\ \A r \in Requests : RequestAt(r)
  /\ \A w \in Workers : WorkerAt(w)

Log  == PendingNotExpired /\ ExpiredOnce /\ AuditTrail
IInv == TypeOK /\ Everyone /\ Log

USE DEF Procs, Rows, Rest, Goto

\* A line of a basket names a product and a positive quantity.
LEMMA BasketLine ==
  ASSUME NEW b \in Baskets, NEW i \in 1..Len(b)
  PROVE  b[i] \in Item /\ b[i].product \in Products /\ b[i].qty \in Nat
<1>1. b \in Seq(Item)
  BY OrdersAssumption DEF IsBasket
<1>2. b[i] \in Item
  BY <1>1
<1> QED
  BY <1>2 DEF Item

\* A basket has a length.
LEMMA BasketLength == \A b \in Baskets : Len(b) \in Nat
<1> SUFFICES ASSUME NEW b \in Baskets PROVE Len(b) \in Nat
  OBVIOUS
<1>1. b \in Seq(Item)
  BY OrdersAssumption DEF IsBasket
<1> QED
  BY <1>1

\* Requests are not workers, and None is neither a process, a row nor a record.
LEMMA Distinct ==
  /\ Requests \cap Workers = {} /\ Products \cap OrderIds = {}
  /\ None \notin Procs /\ None \notin Rows /\ None \notin OrderRow
BY OrdersAssumption

\* The line a reservation is about.
LEMMA ReservedLine ==
  ASSUME TypeOK, Everyone, NEW r \in Requests, pc[r] = "reserve", NEW i \in 1..Len(body[r].items)
  PROVE  /\ body[r].items[i].product \in Products
         /\ body[r].items[i].qty \in Nat
<1>1. body[r] \in CreateBody
  BY DEF Everyone, RequestAt
<1>2. body[r].items \in Baskets
  BY <1>1 DEF CreateBody
<1> QED
  BY <1>2, BasketLine

\* A line a reservation has been made for is a line of the request.
LEMMA WalkedLine ==
  ASSUME TypeOK, Everyone, NEW r \in Requests, pc[r] = "reserve", NEW i \in 1..walk[r].done
  PROVE  i \in 1..Len(body[r].items)
<1>1. body[r] \in CreateBody /\ walk[r].done <= Len(body[r].items)
  BY DEF Everyone, RequestAt
<1>2. Len(body[r].items) \in Nat
  BY <1>1, BasketLength DEF CreateBody
<1>3. walk[r].done \in Nat
  BY DEF TypeOK
<1> QED
  BY <1>1, <1>2, <1>3

\* The empty values have their types.
LEMMA NothingTyped ==
  /\ NoUnits \in [Products -> Int]
  /\ NoWalk \in [order : OrderIds \cup {None}, done : Nat]
  /\ NoneYet \in [OrderIds -> [Products -> Int]]
BY DEF NoUnits, NoWalk, NoneYet

\* The invariant holds in the initial states.
LEMMA InitInv == Init => IInv
<1> SUFFICES ASSUME Init PROVE IInv
  OBVIOUS
<1>1. TypeOK
  <2>1. product \in [Products -> ProductRow]
    BY OrdersAssumption DEF Init
  <2>2. supplied \in [Products -> Int]
    BY <2>1 DEF Init, ProductRow
  <2> QED
    BY <2>1, <2>2, NothingTyped DEF Init, TypeOK, PC
<1>2. Everyone
  BY Distinct DEF Init, Everyone, ProcAt, RequestAt, WorkerAt, Patching, Staging, NoWalk, NoUnits
<1>3. Log
  BY DEF Init, Log, PendingNotExpired, ExpiredOnce, AuditTrail
<1> QED
  BY <1>1, <1>2, <1>3 DEF IInv

-----------------------------------------------------------------------------
(* What a step of one process leaves alone *)

\* A step of t that changes no other process's part, no row another process has
\* locked, and no order's existence or items; a product once untracked stays known.
StepOf(t) ==
  /\ \A u \in Procs \ {t} :
       pc'[u] = pc[u] /\ walk'[u] = walk[u] /\ delta'[u] = delta[u] /\ credit'[u] = credit[u]
  /\ untracked \subseteq untracked'
  /\ \A r \in Requests \ {t} : body'[r] = body[r] /\ seen'[r] = seen[r]
  /\ \A w \in Workers \ {t} : cutoff'[w] = cutoff[w] /\ claimed'[w] = claimed[w] /\ todo'[w] = todo[w]
  /\ due \subseteq due'
  /\ \A x \in Rows : lock[x] \notin {None, t} => lock'[x] = lock[x]
  /\ \A p \in Products : lock[p] \notin {None, t} => product'[p] = product[p]
  /\ \A o \in OrderIds : order[o] # None =>
       /\ order'[o] # None /\ order'[o].items = order[o].items
       /\ lock[o] \notin {None, t} => order'[o] = order[o]

\* Every other process keeps its part of the invariant: what it relies on it has
\* locked.
LEMMA OthersKept ==
  ASSUME IInv, NEW t \in Procs, StepOf(t)
  PROVE  /\ \A u \in Procs \ {t} : ProcAt(u)'
         /\ \A r \in Requests \ {t} : RequestAt(r)'
         /\ \A w \in Workers \ {t} : WorkerAt(w)'
<1>1. ASSUME NEW u \in Procs \ {t} PROVE ProcAt(u)'
  <2>1. ProcAt(u) /\ pc'[u] = pc[u] /\ walk'[u] = walk[u] /\ delta'[u] = delta[u]
    BY DEF IInv, Everyone, StepOf
  <2>2. walk[u].order \in OrderIds \cup {None}
    BY DEF IInv, TypeOK
  <2>3. walk[u].order # None => order'[walk[u].order] # None
                                /\ order'[walk[u].order].items = order[walk[u].order].items
    BY <2>1, <2>2 DEF ProcAt, StepOf
  <2>4. \A p \in Products : delta[u][p] # 0 => lock'[p] = lock[p] /\ product'[p] = product[p]
    BY <2>1, Distinct DEF ProcAt, StepOf
  <2> QED
    BY <2>1, <2>3, <2>4 DEF ProcAt
<1>2. ASSUME NEW r \in Requests \ {t} PROVE RequestAt(r)'
  <2>1. /\ RequestAt(r) /\ pc'[r] = pc[r] /\ walk'[r] = walk[r] /\ delta'[r] = delta[r]
        /\ body'[r] = body[r] /\ seen'[r] = seen[r]
    BY DEF IInv, Everyone, StepOf
  <2>2. body[r] \in PatchBody => body[r].order \in OrderIds
    BY DEF PatchBody
  <2>3. pc[r] \in Patching => order'[body[r].order] # None
    BY <2>1, <2>2 DEF RequestAt, StepOf
  <2>4. pc[r] = "restore" => lock'[body[r].order] = r
    BY <2>1, <2>2, Distinct DEF RequestAt, StepOf, Patching
  <2>5. ASSUME pc[r] = "reserve", NEW i \in 1..walk[r].done
        PROVE  Reserved(r, body[r].items[i].product)'
    <3> DEFINE p == body[r].items[i].product
    <3>1. p \in Products
      BY <2>1, <2>5, ReservedLine, WalkedLine DEF IInv
    <3>2. Reserved(r, p)
      BY <2>1, <2>5 DEF RequestAt
    <3> HIDE DEF p
    <3>3. lock'[p] = lock[p] /\ product'[p] = product[p]
      BY <3>1, <3>2, Distinct DEF StepOf, Reserved
    <3> QED
      BY <2>1, <3>2, <3>3 DEF Reserved, p
  <2> QED
    BY <2>1, <2>3, <2>4, <2>5 DEF RequestAt
<1>3. ASSUME NEW w \in Workers \ {t} PROVE WorkerAt(w)'
  <2>1. /\ WorkerAt(w) /\ pc'[w] = pc[w] /\ walk'[w] = walk[w]
        /\ cutoff'[w] = cutoff[w] /\ claimed'[w] = claimed[w] /\ todo'[w] = todo[w]
    BY DEF IInv, Everyone, StepOf
  <2>2. claimed[w] \subseteq OrderIds
    BY DEF IInv, TypeOK
  <2>3. \A o \in claimed[w] : Claim(w, o)'
    BY <2>1, <2>2, Distinct DEF WorkerAt, Claim, StepOf
  <2> QED
    BY <2>1, <2>3 DEF WorkerAt, StepOf
<1> QED
  BY <1>1, <1>2, <1>3

\* So a step of t has only t's own part to re-establish.
LEMMA OnlyTheActor ==
  ASSUME IInv, NEW t \in Procs, StepOf(t),
         ProcAt(t)', t \in Requests => RequestAt(t)', t \in Workers => WorkerAt(t)'
  PROVE  Everyone'
BY OthersKept DEF Everyone

\* The operation log changes with orders, history and expiries only.
LEMMA LogKept ==
  ASSUME Log, UNCHANGED <<order, history, expiries>>
  PROVE  Log'
BY DEF Log, PendingNotExpired, ExpiredOnce, AuditTrail

-----------------------------------------------------------------------------
(* The end of a transaction *)

\* The commit's stock change is one that was staged under the products' locks.
LEMMA StockAfterTyped ==
  ASSUME IInv, NEW t \in Procs
  PROVE  /\ StockAfter(t) \in [Products -> ProductRow]
         /\ \A p \in Products : lock[p] # t => StockAfter(t)[p] = product[p]
<1> SUFFICES ASSUME NEW p \in Products
             PROVE  /\ StockAfter(t)[p] \in ProductRow
                    /\ lock[p] # t => StockAfter(t)[p] = product[p]
  BY DEF StockAfter
<1>1. product[p] \in ProductRow /\ delta[t][p] \in Int
  BY DEF IInv, TypeOK
<1>2. product[p].stock + delta[t][p] \in Nat /\ (lock[p] # t => delta[t][p] = 0)
  BY <1>1 DEF IInv, Everyone, ProcAt, ProductRow
<1> QED
  BY <1>1, <1>2 DEF StockAfter, ProductRow

\* The end of a transaction releases its own locks and nothing else.  With it,
\* its staged stock may be applied and its own order rows rewritten.
LEMMA EndTxStep ==
  ASSUME IInv, NEW t \in Procs, EndTx(t), EndRun(t),
         UNCHANGED <<due, body, seen, untracked>>,
         product' = product \/ product' = StockAfter(t),
         \A o \in OrderIds : order[o] # None =>
           /\ order'[o] # None /\ order'[o].items = order[o].items
           /\ lock[o] # t => order'[o] = order[o]
  PROVE  /\ product' \in [Products -> ProductRow]
         /\ lock' \in [Rows -> Procs \cup {None}] /\ pc' \in [Procs -> PC]
         /\ walk' \in [Procs -> [order : OrderIds \cup {None}, done : Nat]]
         /\ delta' \in [Procs -> [Products -> Int]]
         /\ credit' \in [Procs -> [OrderIds -> [Products -> Int]]]
         /\ cutoff' \in [Workers -> SUBSET OrderIds] /\ cand' \in [Workers -> SUBSET OrderIds]
         /\ claimed' \in [Workers -> SUBSET OrderIds] /\ todo' \in [Workers -> SUBSET OrderIds]
         /\ Everyone' /\ StepOf(t)
<1> USE DEF EndTx
<1>1. product' \in [Products -> ProductRow]
  BY StockAfterTyped DEF IInv, TypeOK
<1>2. cutoff' \in [Workers -> SUBSET OrderIds] /\ cand' \in [Workers -> SUBSET OrderIds]
      /\ claimed' \in [Workers -> SUBSET OrderIds] /\ todo' \in [Workers -> SUBSET OrderIds]
  BY DEF IInv, TypeOK, EndRun, run
<1>3. lock' \in [Rows -> Procs \cup {None}] /\ pc' \in [Procs -> PC]
  BY DEF IInv, TypeOK, PC
<1>4. walk' \in [Procs -> [order : OrderIds \cup {None}, done : Nat]]
  BY NothingTyped DEF IInv, TypeOK
<1>5. delta' \in [Procs -> [Products -> Int]]
  BY NothingTyped DEF IInv, TypeOK
<1>6. credit' \in [Procs -> [OrderIds -> [Products -> Int]]]
  BY NothingTyped DEF IInv, TypeOK
<1>7. StepOf(t)
  <2>1. \A u \in Procs \ {t} :
          pc'[u] = pc[u] /\ walk'[u] = walk[u] /\ delta'[u] = delta[u] /\ credit'[u] = credit[u]
    BY DEF IInv, TypeOK
  <2>2. \A w \in Workers \ {t} : cutoff'[w] = cutoff[w] /\ claimed'[w] = claimed[w] /\ todo'[w] = todo[w]
    BY DEF IInv, TypeOK, EndRun, run
  <2>3. \A x \in Rows : lock[x] \notin {None, t} => lock'[x] = lock[x]
    OBVIOUS
  <2>4. \A p \in Products : lock[p] \notin {None, t} => product'[p] = product[p]
    BY StockAfterTyped
  <2> QED
    BY <2>1, <2>2, <2>3, <2>4 DEF StepOf
<1>8. ProcAt(t)'
  BY DEF IInv, TypeOK, ProcAt, Staging, NoWalk, NoUnits
<1>9. t \in Requests => RequestAt(t)'
  BY Distinct DEF IInv, TypeOK, RequestAt, Patching
<1>10. t \in Workers => WorkerAt(t)'
  BY DEF IInv, TypeOK, WorkerAt, EndRun, NoWalk
<1> QED
  BY <1>1, <1>2, <1>3, <1>4, <1>5, <1>6, <1>7, <1>8, <1>9, <1>10, OnlyTheActor

\* Nothing a transaction staged outlives its rollback.
LEMMA RollbackStep ==
  ASSUME IInv, NEW t \in Procs, Rollback(t)
  PROVE  IInv' /\ StepOf(t)
<1> USE DEF Rollback, tables, observers
<1>1. TypeOK' /\ Everyone' /\ StepOf(t)
  BY EndTxStep DEF IInv, TypeOK
<1>2. Log'
  BY LogKept DEF IInv
<1> QED
  BY <1>1, <1>2 DEF IInv

\* A walk goes on to its next item.
LEMMA WalkOn ==
  ASSUME TypeOK, NEW t \in Procs, walk' = [walk EXCEPT ![t].done = walk[t].done + 1]
  PROVE  /\ walk' \in [Procs -> [order : OrderIds \cup {None}, done : Nat]]
         /\ walk'[t].order = walk[t].order /\ walk'[t].done = walk[t].done + 1
<1> DEFINE w == [walk[t] EXCEPT !.done = walk[t].done + 1]
<1>1. walk[t] \in [order : OrderIds \cup {None}, done : Nat]
  BY DEF TypeOK
<1>2. w \in [order : OrderIds \cup {None}, done : Nat]
      /\ w.order = walk[t].order /\ w.done = walk[t].done + 1
  BY <1>1
<1>3. walk' = [walk EXCEPT ![t] = w]
  BY DEF TypeOK
<1> HIDE DEF w
<1> QED
  BY <1>2, <1>3 DEF TypeOK

-----------------------------------------------------------------------------
(* The actions of CreateOrder *)

LEMMA BeginCreateStep ==
  ASSUME IInv, NEW r \in Requests, BeginCreate(r)
  PROVE  IInv' /\ StepOf(r)
<1> USE DEF BeginCreate, tables, staged, run, observers
<1>1. PICK b \in Baskets : body' = [body EXCEPT ![r] = [kind |-> "create", items |-> b]]
  OBVIOUS
<1>2. body'[r] \in CreateBody /\ body'[r].items = b
  BY <1>1 DEF IInv, TypeOK, CreateBody
<1>3. TypeOK'
  BY <1>1, <1>2 DEF IInv, TypeOK, PC
<1>4. StepOf(r)
  BY <1>1 DEF IInv, TypeOK, StepOf
<1>5. ProcAt(r) /\ walk[r] = NoWalk
  BY DEF IInv, Everyone, ProcAt, Staging
<1>6. ProcAt(r)'
  BY <1>5 DEF ProcAt, Staging, IInv, TypeOK
<1>7. RequestAt(r)'
  BY <1>2, <1>5, BasketLength DEF RequestAt, Patching, NoWalk, IInv, TypeOK
<1>8. Log'
  BY LogKept DEF IInv
<1> QED
  BY <1>3, <1>4, <1>6, <1>7, <1>8, OnlyTheActor, Distinct DEF IInv

LEMMA ReserveItemStep ==
  ASSUME IInv, NEW r \in Requests, ReserveItem(r)
  PROVE  IInv' /\ StepOf(r)
<1> USE DEF tables, run, observers
<1> DEFINE n    == walk[r].done + 1
           item == body[r].items[n]
           p    == item.product
<1>1. pc[r] = "reserve" /\ walk[r].done # Len(body[r].items)
      /\ UNCHANGED <<tables, due, pc, body, seen, credit, run, observers>>
      /\ walk' = [walk EXCEPT ![r].done = n]
  BY DEF ReserveItem, AllItems
<1>2. RequestAt(r) /\ ProcAt(r)
  BY DEF IInv, Everyone
<1>3. n \in 1..Len(body[r].items) /\ walk[r].done \in Nat
  BY <1>1, <1>2, BasketLength DEF RequestAt, CreateBody, IInv, TypeOK
<1>4. p \in Products /\ item.qty \in Nat
  BY <1>1, <1>3, ReservedLine DEF IInv
<1>5. /\ lock[p] = None /\ lock' = [lock EXCEPT ![p] = r]
      /\ product[p].status = "active" /\ (product[p].track => product[p].stock >= item.qty)
      /\ delta' = IF product[p].track THEN [delta EXCEPT ![r][p] = @ - item.qty] ELSE delta
  BY DEF ReserveItem, ItemAt, Free, Take, Purchasable
<1> HIDE DEF item, p
<1>6. delta[r][p] = 0 /\ product[p].stock \in Nat
  BY <1>2, <1>4, <1>5, Distinct DEF ProcAt, IInv, TypeOK, ProductRow
<1>7. delta'[r][p] \in Int /\ product[p].stock + delta'[r][p] >= 0
  BY <1>4, <1>5, <1>6 DEF IInv, TypeOK
<1>8. \A q \in Products \ {p} : delta'[r][q] = delta[r][q] /\ lock'[q] = lock[q]
  BY <1>4, <1>5 DEF IInv, TypeOK
<1>9. TypeOK'
  <2>1. delta' \in [Procs -> [Products -> Int]]
    BY <1>4, <1>5, <1>7 DEF IInv, TypeOK
  <2>2. lock' \in [Rows -> Procs \cup {None}]
    BY <1>4, <1>5 DEF IInv, TypeOK
  <2>3. walk' \in [Procs -> [order : OrderIds \cup {None}, done : Nat]]
    BY <1>1, <1>3, WalkOn DEF IInv
  <2> QED
    BY <1>1, <2>1, <2>2, <2>3 DEF IInv, TypeOK
<1>10. StepOf(r)
  BY <1>1, <1>4, <1>5 DEF IInv, TypeOK, StepOf
<1>11. walk'[r].order = walk[r].order /\ walk'[r].done = n
  BY <1>1, <1>3, WalkOn DEF IInv
<1>12. lock'[p] = r
  BY <1>4, <1>5 DEF IInv, TypeOK
<1>13. ProcAt(r)'
  <2>1. pc[r] \in Staging
    BY <1>1 DEF Staging
  <2>2. \A q \in Products : delta'[r][q] # 0 => lock'[q] = r /\ product[q].stock + delta'[r][q] >= 0
    BY <1>1, <1>2, <1>7, <1>8, <1>12 DEF ProcAt
  <2> QED
    BY <1>1, <1>2, <1>11, <2>1, <2>2 DEF ProcAt, RequestAt
<1>14. RequestAt(r)'
  <2>1. \A i \in 1..n : Reserved(r, body[r].items[i].product)'
    <3> SUFFICES ASSUME NEW i \in 1..n PROVE Reserved(r, body[r].items[i].product)'
      OBVIOUS
    <3>1. CASE i = n
      BY <3>1, <1>1, <1>5, <1>7, <1>12 DEF Reserved, p, item
    <3>2. CASE i # n
      <4>1. i \in 1..walk[r].done
        BY <3>2, <1>3
      <4>2. Reserved(r, body[r].items[i].product)
        BY <4>1, <1>1, <1>2 DEF RequestAt
      <4>3. body[r].items[i].product \in Products
        BY <4>1, <1>1, WalkedLine, ReservedLine DEF IInv
      <4>4. body[r].items[i].product # p
        BY <4>2, <1>5, Distinct DEF Reserved
      <4> QED
        BY <4>2, <4>3, <4>4, <1>1, <1>8 DEF Reserved
    <3> QED
      BY <3>1, <3>2
  <2> QED
    BY <1>1, <1>2, <1>3, <1>11, <2>1 DEF RequestAt, Patching
<1>15. Log'
  BY <1>1, LogKept DEF IInv
<1> QED
  BY <1>9, <1>10, <1>13, <1>14, <1>15, OnlyTheActor, Distinct DEF IInv

LEMMA CommitCreateStep ==
  ASSUME IInv, NEW r \in Requests, CommitCreate(r)
  PROVE  IInv' /\ StepOf(r)
<1> DEFINE new == [status |-> "pending", paid |-> FALSE, items |-> body[r].items]
<1>1. PICK o \in OrderIds :
        /\ order[o] = None
        /\ order'   = [order EXCEPT ![o] = new]
        /\ history' = [history EXCEPT ![o] = @ \cup {[status |-> "pending", paid |-> FALSE]}]
        /\ drawn'   = [drawn EXCEPT ![o] = [p \in Products |-> 0 - delta[r][p]]]
  BY DEF CommitCreate
<1>2. /\ pc[r] = "reserve" /\ product' = StockAfter(r) /\ EndTx(r)
      /\ UNCHANGED <<due, body, seen, run, returned, supplied, untracked, expiries>>
  BY DEF CommitCreate
<1>3. new \in OrderRow /\ new.status = "pending" /\ [status |-> "pending", paid |-> FALSE] \in Entry
  <2>1. body[r].items \in Baskets
    BY <1>2 DEF IInv, Everyone, RequestAt, CreateBody
  <2> QED
    BY <2>1 DEF OrderRow, Entry, Status
<1> HIDE DEF new
<1>4. new # None
  BY <1>3, Distinct
<1>5. TypeOK' /\ Everyone' /\ StepOf(r)
  <2>1. EndRun(r)
    BY <1>2, Distinct DEF EndRun
  <2>2. \A x \in OrderIds : order[x] # None => order'[x] = order[x]
    BY <1>1 DEF IInv, TypeOK
  <2>3. order' \in [OrderIds -> OrderRow \cup {None}] /\ history' \in [OrderIds -> SUBSET Entry]
    BY <1>1, <1>3 DEF IInv, TypeOK
  <2>4. drawn' \in [OrderIds -> [Products -> Int]]
    <3>1. [p \in Products |-> 0 - delta[r][p]] \in [Products -> Int]
      BY DEF IInv, TypeOK
    <3> QED
      BY <1>1, <3>1 DEF IInv, TypeOK
  <2> QED
    BY <1>2, <2>1, <2>2, <2>3, <2>4, EndTxStep DEF IInv, TypeOK, run
<1>6. Log'
  <2>1. /\ \A x \in OrderIds \ {o} : order'[x] = order[x] /\ history'[x] = history[x]
        /\ order'[o] = new /\ [status |-> "pending", paid |-> FALSE] \in history'[o]
    BY <1>1 DEF IInv, TypeOK
  <2>2. PendingNotExpired' /\ ExpiredOnce'
    BY <1>1, <1>2, <2>1 DEF IInv, Log, PendingNotExpired, ExpiredOnce
  <2>3. AuditTrail'
    BY <1>3, <2>1 DEF IInv, Log, AuditTrail, HasStatus
  <2> QED
    BY <2>2, <2>3 DEF Log
<1> QED
  BY <1>5, <1>6 DEF IInv

-----------------------------------------------------------------------------
(* The actions of a PATCH *)

LEMMA BeginPatchStep ==
  ASSUME IInv, NEW r \in Requests, BeginPatch(r)
  PROVE  IInv' /\ StepOf(r)
<1> USE DEF tables, staged, run, observers
<1>1. PICK b \in PatchBody :
        /\ order[b.order] # None
        /\ body' = [body EXCEPT ![r] = b]
        /\ seen' = [seen EXCEPT ![r] = [status |-> order[b.order].status,
                                      paid   |-> NewPaid(b, order[b.order].paid)]]
        /\ pc' = [pc EXCEPT ![r] = IF b.status = "keep" THEN "set_paid" ELSE "validate"]
  BY DEF BeginPatch
<1>2. pc[r] = "new" /\ UNCHANGED <<tables, due, staged, run, observers>>
  BY DEF BeginPatch
<1> DEFINE s == [status |-> order[b.order].status, paid |-> NewPaid(b, order[b.order].paid)]
<1>3. s \in Entry
  <2>1. b.order \in OrderIds
    BY DEF PatchBody
  <2>2. order[b.order] \in OrderRow
    BY <1>1, <2>1 DEF IInv, TypeOK
  <2> QED
    BY <2>2 DEF OrderRow, Entry, NewPaid
<1>4. seen' = [seen EXCEPT ![r] = s]
  BY <1>1
<1> HIDE DEF s
<1>5. TypeOK'
  <2>1. body' \in [Requests -> CreateBody \cup PatchBody \cup EditBody \cup {None}]
    BY <1>1 DEF IInv, TypeOK
  <2>2. seen' \in [Requests -> Entry \cup ProductRow \cup {None}]
    BY <1>3, <1>4 DEF IInv, TypeOK
  <2>3. pc' \in [Procs -> PC]
    BY <1>1 DEF IInv, TypeOK, PC
  <2> QED
    BY <1>2, <2>1, <2>2, <2>3 DEF IInv, TypeOK
<1>6. StepOf(r)
  BY <1>1, <1>2, <1>4 DEF IInv, TypeOK, StepOf
<1>7. ProcAt(r) /\ walk[r] = NoWalk /\ delta[r] = NoUnits
  BY <1>2 DEF IInv, Everyone, ProcAt, Staging
<1>8. ProcAt(r)'
  BY <1>2, <1>7 DEF ProcAt
<1>9. RequestAt(r)'
  BY <1>1, <1>2, <1>3, <1>4 DEF RequestAt, Patching, IInv, TypeOK
<1>10. Log'
  BY <1>2, LogKept DEF IInv
<1> QED
  BY <1>5, <1>6, <1>8, <1>9, <1>10, OnlyTheActor, Distinct DEF IInv

LEMMA ValidateTransitionStep ==
  ASSUME IInv, NEW r \in Requests, ValidateTransition(r)
  PROVE  IInv' /\ StepOf(r)
<1> USE DEF tables, staged, run, observers
<1> DEFINE b == body[r]
           s == [status |-> b.status, paid |-> NewPaid(b, order[b.order].paid)]
<1>1. /\ pc[r] = "validate" /\ UNCHANGED <<tables, due, body, staged, run, observers>>
      /\ \/ pc' = [pc EXCEPT ![r] = "done"] /\ seen' = seen
         \/ /\ seen' = [seen EXCEPT ![r] = s]
            /\ pc' = [pc EXCEPT ![r] = "begin_tx"] \/ pc' = [pc EXCEPT ![r] = "set_status"]
  BY DEF ValidateTransition
<1>2. b \in PatchBody /\ b.status # "keep" /\ order[b.order] # None
  BY <1>1 DEF IInv, Everyone, RequestAt, Patching
<1>3. s \in Entry
  <2>1. b.status \in Status
    BY <1>2, OrdersAssumption DEF PatchBody, Status
  <2>2. order[b.order] \in OrderRow
    BY <1>2 DEF PatchBody, IInv, TypeOK
  <2> QED
    BY <2>1, <2>2 DEF OrderRow, Entry, NewPaid
<1> HIDE DEF s
<1>4. TypeOK'
  <2>1. seen' \in [Requests -> Entry \cup ProductRow \cup {None}]
    BY <1>1, <1>3 DEF IInv, TypeOK
  <2>2. PICK l \in PC : pc' = [pc EXCEPT ![r] = l]
    BY <1>1 DEF PC
  <2>3. pc' \in [Procs -> PC]
    BY <2>2 DEF IInv, TypeOK
  <2> QED
    BY <1>1, <2>1, <2>3 DEF IInv, TypeOK
<1>5. StepOf(r)
  BY <1>1 DEF IInv, TypeOK, StepOf
<1>6. ProcAt(r) /\ walk[r] = NoWalk /\ delta[r] = NoUnits
  BY <1>1 DEF IInv, Everyone, ProcAt, Staging
<1>7. ProcAt(r)'
  BY <1>1, <1>6 DEF ProcAt
<1>8. RequestAt(r)'
  BY <1>1, <1>2, <1>3 DEF RequestAt, Patching, IInv, TypeOK
<1>9. Log'
  BY <1>1, LogKept DEF IInv
<1> QED
  BY <1>4, <1>5, <1>7, <1>8, <1>9, OnlyTheActor, Distinct DEF IInv

\* A status a PATCH writes is one a client may set.
LEMMA PatchedRow ==
  ASSUME NEW b \in PatchBody, NEW row \in OrderRow
  PROVE  /\ Patched(b, row) \in OrderRow /\ Patched(b, row).items = row.items
         /\ Patched(b, row).status \in Settable \cup {row.status}
<1>1. NewPaid(b, row.paid) \in BOOLEAN
  BY DEF NewPaid, OrderRow
<1>2. b.status # "keep" => b.status \in Settable
  BY OrdersAssumption DEF PatchBody
<1> QED
  BY <1>1, <1>2 DEF Patched, OrderRow, Status

\* Writing a PATCH to its order and recording an entry keeps the log.
LEMMA PatchLogged ==
  ASSUME IInv, NEW o \in OrderIds, NEW b \in PatchBody, NEW e \in Entry, order[o] # None,
         order' = [order EXCEPT ![o] = Patched(b, @)],
         history' = history \/ history' = [history EXCEPT ![o] = @ \cup {e}],
         UNCHANGED expiries
  PROVE  /\ order' \in [OrderIds -> OrderRow \cup {None}]
         /\ history' \in [OrderIds -> SUBSET Entry]
         /\ \A x \in OrderIds : order[x] # None =>
              order'[x] # None /\ order'[x].items = order[x].items
         /\ \A x \in OrderIds \ {o} : order'[x] = order[x]
         /\ Log'
<1> DEFINE new == Patched(b, order[o])
<1>1. /\ new \in OrderRow /\ new.items = order[o].items
      /\ new.status \in Settable \cup {order[o].status}
  BY PatchedRow DEF IInv, TypeOK
<1>2. order' = [order EXCEPT ![o] = new]
  OBVIOUS
<1> HIDE DEF new
<1>3. new # None
  BY <1>1, Distinct
<1>4. order' \in [OrderIds -> OrderRow \cup {None}]
  BY <1>1, <1>2 DEF IInv, TypeOK
<1>5. order'[o] = new /\ \A x \in OrderIds \ {o} : order'[x] = order[x]
  BY <1>2 DEF IInv, TypeOK
<1>6. /\ history' \in [OrderIds -> SUBSET Entry]
      /\ \A x \in OrderIds : history[x] \subseteq history'[x]
  <2>1. CASE history' = history
    BY <2>1 DEF IInv, TypeOK
  <2>2. CASE history' = [history EXCEPT ![o] = history[o] \cup {e}]
    BY <2>2 DEF IInv, TypeOK
  <2> QED
    BY <2>1, <2>2
<1>7. new.status = "pending" => order[o].status = "pending"
  BY <1>1 DEF Settable
<1>8. new.status = "expired" => order[o].status = "expired"
  BY <1>1 DEF Settable
<1>9. PendingNotExpired' /\ ExpiredOnce'
  BY <1>3, <1>5, <1>7 DEF IInv, Log, PendingNotExpired, ExpiredOnce
<1>10. AuditTrail'
  BY <1>3, <1>5, <1>6, <1>8 DEF IInv, Log, AuditTrail, HasStatus
<1> QED
  BY <1>1, <1>3, <1>4, <1>5, <1>6, <1>9, <1>10 DEF Log

LEMMA WriteOrderStep ==
  ASSUME IInv, NEW r \in Requests, WriteOrder(r)
  PROVE  IInv' /\ StepOf(r)
<1> USE DEF staged, run, observers
<1> DEFINE o == body[r].order
<1>1. /\ pc[r] \in {"set_status", "set_paid"} /\ lock[o] = None
      /\ order' = [order EXCEPT ![o] = Patched(body[r], @)]
      /\ pc' = [pc EXCEPT ![r] = "write_history"]
      /\ UNCHANGED <<product, history, due, body, seen, staged, run, observers>>
  BY DEF WriteOrder, Free
<1>2. body[r] \in PatchBody /\ order[o] # None /\ seen[r] \in Entry
  BY <1>1 DEF IInv, Everyone, RequestAt, Patching
<1>3. o \in OrderIds
  BY <1>2 DEF PatchBody
<1>4. /\ order' \in [OrderIds -> OrderRow \cup {None}]
      /\ \A x \in OrderIds : order[x] # None =>
           order'[x] # None /\ order'[x].items = order[x].items
      /\ \A x \in OrderIds \ {o} : order'[x] = order[x]
      /\ Log'
  BY <1>1, <1>2, <1>3, PatchLogged
<1> HIDE DEF o
<1>5. TypeOK'
  BY <1>1, <1>4 DEF IInv, TypeOK, PC
<1>6. StepOf(r)
  BY <1>1, <1>4 DEF IInv, TypeOK, StepOf
<1>7. ProcAt(r) /\ walk[r] = NoWalk /\ delta[r] = NoUnits
  BY <1>1 DEF IInv, Everyone, ProcAt, Staging
<1>8. ProcAt(r)'
  BY <1>1, <1>7 DEF ProcAt, NoWalk
<1>9. RequestAt(r)'
  BY <1>1, <1>2, <1>3, <1>4 DEF RequestAt, Patching, IInv, TypeOK, o
<1> QED
  BY <1>4, <1>5, <1>6, <1>8, <1>9, OnlyTheActor, Distinct DEF IInv

\* One more entry in an order's history keeps the log.
LEMMA WriteHistoryStep ==
  ASSUME IInv, NEW r \in Requests, WriteHistory(r)
  PROVE  IInv' /\ StepOf(r)
<1> USE DEF staged, run, observers
<1> DEFINE o == body[r].order
<1>1. /\ pc[r] = "write_history"
      /\ history' = [history EXCEPT ![o] = @ \cup {seen[r]}]
      /\ pc' = [pc EXCEPT ![r] = "done"]
      /\ UNCHANGED <<product, order, due, body, seen, staged, run, observers>>
  BY DEF WriteHistory
<1>2. body[r] \in PatchBody /\ seen[r] \in Entry
  BY <1>1 DEF IInv, Everyone, RequestAt, Patching
<1>3. o \in OrderIds
  BY <1>2 DEF PatchBody
<1> HIDE DEF o
<1>4. TypeOK'
  <2>1. history' \in [OrderIds -> SUBSET Entry]
    BY <1>1, <1>2, <1>3 DEF IInv, TypeOK
  <2> QED
    BY <1>1, <2>1 DEF IInv, TypeOK, PC
<1>5. StepOf(r)
  BY <1>1 DEF IInv, TypeOK, StepOf
<1>6. ProcAt(r) /\ walk[r] = NoWalk /\ delta[r] = NoUnits
  BY <1>1 DEF IInv, Everyone, ProcAt, Staging
<1>7. ProcAt(r)'
  BY <1>1, <1>6 DEF ProcAt
<1>8. RequestAt(r)'
  BY <1>1 DEF RequestAt, Patching, IInv, TypeOK
<1>9. Log'
  <2>1. \A x \in OrderIds : history[x] \subseteq history'[x]
    BY <1>1 DEF IInv, TypeOK
  <2> QED
    BY <1>1, <2>1 DEF IInv, Log, PendingNotExpired, ExpiredOnce, AuditTrail
<1> QED
  BY <1>4, <1>5, <1>7, <1>8, <1>9, OnlyTheActor, Distinct DEF IInv

LEMMA LockOrderStep ==
  ASSUME IInv, NEW r \in Requests, LockOrder(r)
  PROVE  IInv' /\ StepOf(r)
<1> USE DEF tables, run, observers
<1> DEFINE o == body[r].order
           n == IF body[r].admin /\ body[r].status = "cancelled" THEN 0 ELSE Len(order[o].items)
           k == [order |-> o, done |-> n]
<1>1. /\ pc[r] = "begin_tx" /\ lock[o] = None /\ lock' = [lock EXCEPT ![o] = r]
      /\ walk' = [walk EXCEPT ![r] = k]
      /\ pc' = [pc EXCEPT ![r] = "restore"]
      /\ UNCHANGED <<tables, due, body, seen, delta, credit, run, observers>>
  BY DEF LockOrder, Free, Take
<1>2. body[r] \in PatchBody /\ order[o] # None /\ seen[r] \in Entry
  BY <1>1 DEF IInv, Everyone, RequestAt, Patching
<1>3. o \in OrderIds
  BY <1>2 DEF PatchBody
<1>4. n \in Nat /\ n <= Len(order[o].items)
  <2>1. order[o].items \in Baskets
    BY <1>2, <1>3 DEF IInv, TypeOK, OrderRow
  <2> QED
    BY <2>1, BasketLength
<1> HIDE DEF n
<1>5. k \in [order : OrderIds \cup {None}, done : Nat] /\ k.order = o /\ k.done = n
  BY <1>3, <1>4
<1> HIDE DEF o, k
<1>6. TypeOK'
  <2>1. walk' \in [Procs -> [order : OrderIds \cup {None}, done : Nat]]
    BY <1>1, <1>5 DEF IInv, TypeOK
  <2>2. lock' \in [Rows -> Procs \cup {None}]
    BY <1>1, <1>3 DEF IInv, TypeOK
  <2> QED
    BY <1>1, <2>1, <2>2 DEF IInv, TypeOK, PC
<1>7. StepOf(r)
  BY <1>1 DEF IInv, TypeOK, StepOf
<1>8. delta[r] = NoUnits
  BY <1>1 DEF IInv, Everyone, ProcAt, Staging
<1>9. walk'[r] = k /\ pc'[r] = "restore" /\ lock'[o] = r
  BY <1>1, <1>3 DEF IInv, TypeOK
<1>10. ProcAt(r)'
  BY <1>1, <1>2, <1>4, <1>5, <1>8, <1>9 DEF ProcAt, Staging, NoUnits
<1>11. RequestAt(r)'
  BY <1>1, <1>2, <1>5, <1>9 DEF RequestAt, Patching, o
<1>12. Log'
  BY <1>1, LogKept DEF IInv
<1> QED
  BY <1>6, <1>7, <1>10, <1>11, <1>12, OnlyTheActor, Distinct DEF IInv

LEMMA CommitPatchStep ==
  ASSUME IInv, NEW r \in Requests, CommitPatch(r)
  PROVE  IInv' /\ StepOf(r)
<1> DEFINE o == body[r].order
<1>1. /\ pc[r] = "restore" /\ EndTx(r) /\ product' = StockAfter(r) /\ returned' = Returned(r)
      /\ order' = [order EXCEPT ![o] = Patched(body[r], @)]
      /\ history' = [history EXCEPT ![o] = @ \cup {seen[r]}]
      /\ UNCHANGED <<due, body, seen, run, drawn, supplied, untracked, expiries>>
  BY DEF CommitPatch, Restoring
<1>2. body[r] \in PatchBody /\ order[o] # None /\ seen[r] \in Entry /\ lock[o] = r
  BY <1>1 DEF IInv, Everyone, RequestAt, Patching
<1>3. o \in OrderIds
  BY <1>2 DEF PatchBody
<1>4. /\ order' \in [OrderIds -> OrderRow \cup {None}]
      /\ history' \in [OrderIds -> SUBSET Entry]
      /\ \A x \in OrderIds : order[x] # None =>
           order'[x] # None /\ order'[x].items = order[x].items
      /\ \A x \in OrderIds \ {o} : order'[x] = order[x]
      /\ Log'
  BY <1>1, <1>2, <1>3, PatchLogged
<1> HIDE DEF o
<1>5. EndRun(r)
  BY <1>1, Distinct DEF EndRun
<1>6. returned' \in [OrderIds -> [Products -> Int]]
  BY <1>1 DEF Returned, IInv, TypeOK
<1>7. TypeOK' /\ Everyone' /\ StepOf(r)
  BY <1>1, <1>2, <1>4, <1>5, <1>6, EndTxStep DEF IInv, TypeOK
<1> QED
  BY <1>4, <1>7 DEF IInv

\* A request about to commit may find its transaction aborted.
LEMMA HistoryInsertFailsStep ==
  ASSUME IInv, NEW r \in Requests, HistoryInsertFails(r)
  PROVE  IInv' /\ StepOf(r)
<1> USE DEF tables, staged, run, observers
<1>1. /\ pc[r] \in {"reserve", "restore"} /\ pc' = [pc EXCEPT ![r] = "commit_aborted"]
      /\ UNCHANGED <<tables, due, body, seen, staged, run, observers>>
  BY DEF HistoryInsertFails, Restoring
<1>2. TypeOK'
  BY <1>1 DEF IInv, TypeOK, PC
<1>3. StepOf(r)
  BY <1>1 DEF IInv, TypeOK, StepOf
<1>4. ProcAt(r)'
  BY <1>1 DEF IInv, TypeOK, Everyone, ProcAt, Staging
<1>5. RequestAt(r)'
  BY <1>1 DEF RequestAt, Patching, IInv, TypeOK
<1>6. Log'
  BY <1>1, LogKept DEF IInv
<1> QED
  BY <1>2, <1>3, <1>4, <1>5, <1>6, OnlyTheActor, Distinct DEF IInv

-----------------------------------------------------------------------------
(* Giving an order's items back, in a PATCH or in a worker's run *)

LEMMA RestoreItemStep ==
  ASSUME IInv, NEW t \in Procs, RestoreItem(t)
  PROVE  IInv' /\ StepOf(t)
<1> USE DEF tables, run, observers
<1> DEFINE o    == walk[t].order
           n    == walk[t].done + 1
           item == order[o].items[n]
           p    == item.product
<1>1. /\ pc[t] = "restore" /\ o # None /\ walk[t].done # Len(order[o].items)
      /\ walk' = [walk EXCEPT ![t].done = n]
      /\ UNCHANGED <<tables, due, pc, body, seen, run, observers>>
  BY DEF RestoreItem, Restoring, Walked
<1>2. \/ UNCHANGED <<lock, delta, credit>>
      \/ /\ lock[p] \in {None, t} /\ lock' = [lock EXCEPT ![p] = t]
         /\ delta'  = [delta EXCEPT ![t][p] = @ + item.qty]
         /\ credit' = [credit EXCEPT ![t][o][p] = @ + item.qty]
  BY DEF RestoreItem, NextReturn, Mine, Take
<1>3. ProcAt(t)
  BY DEF IInv, Everyone
<1>4. o \in OrderIds /\ order[o] # None /\ walk[t].done \in Nat /\ walk[t].done <= Len(order[o].items)
  BY <1>1, <1>3 DEF ProcAt, IInv, TypeOK
<1>5. order[o].items \in Baskets
  BY <1>4 DEF IInv, TypeOK, OrderRow
<1>6. n \in 1..Len(order[o].items)
  BY <1>1, <1>4, <1>5, BasketLength
<1>7. p \in Products /\ item.qty \in Nat
  BY <1>5, <1>6, BasketLine
<1> HIDE DEF item, p
<1>8. /\ walk' \in [Procs -> [order : OrderIds \cup {None}, done : Nat]]
      /\ walk'[t].order = o /\ walk'[t].done = n
  BY <1>1, WalkOn DEF IInv
<1>9. /\ lock' \in [Rows -> Procs \cup {None}]
      /\ \A x \in Rows : lock[x] \notin {None, t} => lock'[x] = lock[x]
      /\ \A x \in OrderIds : lock'[x] = lock[x]
  <2>1. CASE lock' = lock
    BY <2>1 DEF IInv, TypeOK
  <2>2. CASE lock[p] \in {None, t} /\ lock' = [lock EXCEPT ![p] = t]
    <3>1. p \in Rows /\ p \notin OrderIds /\ OrderIds \subseteq Rows
      BY <1>7, Distinct
    <3>2. lock \in [Rows -> Procs \cup {None}]
      BY DEF IInv, TypeOK
    <3> QED
      BY <2>2, <3>1, <3>2
  <2> QED
    BY <1>2, <2>1, <2>2
<1>10. /\ delta' \in [Procs -> [Products -> Int]]
       /\ \A u \in Procs \ {t} : delta'[u] = delta[u]
  <2>1. CASE delta' = delta
    BY <2>1 DEF IInv, TypeOK
  <2>2. CASE delta' = [delta EXCEPT ![t][p] = delta[t][p] + item.qty]
    <3> DEFINE d == [delta[t] EXCEPT ![p] = delta[t][p] + item.qty]
    <3>1. d \in [Products -> Int]
      BY <1>7 DEF IInv, TypeOK
    <3>2. delta' = [delta EXCEPT ![t] = d]
      BY <2>2
    <3> HIDE DEF d
    <3> QED
      BY <3>1, <3>2 DEF IInv, TypeOK
  <2> QED
    BY <1>2, <2>1, <2>2
<1>11. /\ credit' \in [Procs -> [OrderIds -> [Products -> Int]]]
       /\ \A u \in Procs \ {t} : credit'[u] = credit[u]
  <2>1. CASE credit' = credit
    BY <2>1 DEF IInv, TypeOK
  <2>2. CASE credit' = [credit EXCEPT ![t][o][p] = credit[t][o][p] + item.qty]
    <3> DEFINE c == [credit[t][o] EXCEPT ![p] = credit[t][o][p] + item.qty]
    <3>1. c \in [Products -> Int]
      BY <1>4, <1>7 DEF IInv, TypeOK
    <3>2. credit' = [credit EXCEPT ![t][o] = c]
      BY <2>2
    <3> HIDE DEF c
    <3> QED
      BY <3>1, <3>2, <1>4 DEF IInv, TypeOK
  <2> QED
    BY <1>2, <2>1, <2>2
<1>12. \A q \in Products :
         delta'[t][q] # 0 => lock'[q] = t /\ product[q].stock + delta'[t][q] >= 0
  <2> SUFFICES ASSUME NEW q \in Products, delta'[t][q] # 0
               PROVE  lock'[q] = t /\ product[q].stock + delta'[t][q] >= 0
    OBVIOUS
  <2>1. product[q].stock \in Nat /\ delta[t][q] \in Int
    BY DEF IInv, TypeOK, ProductRow
  <2>2. product[q].stock + delta[t][q] >= 0 /\ (delta[t][q] # 0 => lock[q] = t)
    BY <1>3, <2>1 DEF ProcAt
  <2>3. CASE UNCHANGED <<lock, delta>>
    BY <2>2, <2>3
  <2>4. CASE lock' = [lock EXCEPT ![p] = t] /\ delta' = [delta EXCEPT ![t][p] = @ + item.qty]
    <3>1. CASE q = p
      BY <1>7, <2>1, <2>2, <2>4, <3>1 DEF IInv, TypeOK
    <3>2. CASE q # p
      BY <1>7, <2>2, <2>4, <3>2 DEF IInv, TypeOK
    <3> QED
      BY <3>1, <3>2
  <2> QED
    BY <1>2, <2>3, <2>4
<1>13. TypeOK'
  BY <1>1, <1>8, <1>9, <1>10, <1>11 DEF IInv, TypeOK
<1>14. StepOf(t)
  BY <1>1, <1>9, <1>10, <1>11 DEF IInv, TypeOK, StepOf
<1>15. ProcAt(t)'
  <2>1. n <= Len(order[o].items)
    BY <1>6
  <2> QED
    BY <1>1, <1>4, <1>8, <1>12, <2>1 DEF ProcAt, Staging
<1>16. t \in Requests => RequestAt(t)'
  <2> SUFFICES ASSUME t \in Requests PROVE RequestAt(t)'
    OBVIOUS
  <2>1. RequestAt(t) /\ body[t] \in PatchBody
    BY <1>1 DEF IInv, Everyone, RequestAt, Patching
  <2>2. lock'[body[t].order] = lock[body[t].order]
    BY <2>1, <1>9 DEF PatchBody
  <2> QED
    BY <1>1, <1>8, <2>1, <2>2 DEF RequestAt, Patching
<1>17. t \in Workers => WorkerAt(t)'
  <2> SUFFICES ASSUME t \in Workers PROVE WorkerAt(t)'
    OBVIOUS
  <2>1. WorkerAt(t) /\ claimed[t] \subseteq OrderIds
    BY DEF IInv, Everyone, TypeOK
  <2> QED
    BY <1>1, <1>8, <1>9, <2>1 DEF WorkerAt, Claim
<1>18. Log'
  BY <1>1, LogKept DEF IInv
<1> QED
  BY <1>13, <1>14, <1>15, <1>16, <1>17, <1>18, OnlyTheActor DEF IInv

-----------------------------------------------------------------------------
(* The admin's edits *)

LEMMA BeginEditStep ==
  ASSUME IInv, NEW r \in Requests, BeginEdit(r)
  PROVE  IInv' /\ StepOf(r)
<1> USE DEF tables, staged, run, observers
<1>1. PICK b \in EditBody :
        /\ body' = [body EXCEPT ![r] = b]
        /\ seen' = [seen EXCEPT ![r] =
             [status |-> IF b.status = "keep" THEN product[b.product].status ELSE b.status,
              track  |-> IF b.track = "keep" THEN product[b.product].track ELSE b.track = "on",
              stock  |-> b.stock]]
  BY DEF BeginEdit
<1>2. /\ pc[r] = "new" /\ pc' = [pc EXCEPT ![r] = "edit"]
      /\ UNCHANGED <<tables, due, staged, run, observers>>
  BY DEF BeginEdit
<1> DEFINE s == [status |-> IF b.status = "keep" THEN product[b.product].status ELSE b.status,
                 track  |-> IF b.track = "keep" THEN product[b.product].track ELSE b.track = "on",
                 stock  |-> b.stock]
<1>3. s \in ProductRow
  <2>1. b.product \in Products /\ b.stock \in Nat /\ b.status \in ProductStatus \cup {"keep"}
    BY OrdersAssumption DEF EditBody
  <2>2. product[b.product] \in ProductRow
    BY <2>1 DEF IInv, TypeOK
  <2> QED
    BY <2>1, <2>2 DEF ProductRow
<1>4. seen' = [seen EXCEPT ![r] = s]
  BY <1>1
<1> HIDE DEF s
<1>5. TypeOK'
  <2>1. body' \in [Requests -> CreateBody \cup PatchBody \cup EditBody \cup {None}]
    BY <1>1 DEF IInv, TypeOK
  <2>2. seen' \in [Requests -> Entry \cup ProductRow \cup {None}]
    BY <1>3, <1>4 DEF IInv, TypeOK
  <2> QED
    BY <1>2, <2>1, <2>2 DEF IInv, TypeOK, PC
<1>6. StepOf(r)
  BY <1>1, <1>2, <1>4 DEF IInv, TypeOK, StepOf
<1>7. ProcAt(r) /\ walk[r] = NoWalk /\ delta[r] = NoUnits
  BY <1>2 DEF IInv, Everyone, ProcAt, Staging
<1>8. ProcAt(r)'
  BY <1>2, <1>7 DEF ProcAt
<1>9. RequestAt(r)'
  BY <1>1, <1>2, <1>3, <1>4 DEF RequestAt, Patching, IInv, TypeOK
<1>10. Log'
  BY <1>2, LogKept DEF IInv
<1> QED
  BY <1>5, <1>6, <1>8, <1>9, <1>10, OnlyTheActor, Distinct DEF IInv

\* An edit writes a row nobody has locked.
LEMMA WriteEditStep ==
  ASSUME IInv, NEW r \in Requests, WriteEdit(r)
  PROVE  IInv' /\ StepOf(r)
<1> USE DEF staged, run
<1> DEFINE p == body[r].product
<1>1. /\ pc[r] = "edit" /\ lock[p] = None
      /\ product' = [product EXCEPT ![p] = seen[r]]
      /\ supplied' = [supplied EXCEPT ![p] = @ + seen[r].stock - product[p].stock]
      /\ untracked' = IF seen[r].track THEN untracked ELSE untracked \cup {p}
      /\ pc' = [pc EXCEPT ![r] = "done"]
      /\ UNCHANGED <<order, history, due, body, seen, staged, run, drawn, returned, expiries>>
  BY DEF WriteEdit, Free
<1>2. body[r] \in EditBody /\ seen[r] \in ProductRow
  BY <1>1 DEF IInv, Everyone, RequestAt
<1>3. p \in Products
  BY <1>2 DEF EditBody
<1> HIDE DEF p
<1>4. TypeOK'
  <2>1. product' \in [Products -> ProductRow]
    BY <1>1, <1>2, <1>3 DEF IInv, TypeOK
  <2>2. seen[r].stock \in Int /\ product[p].stock \in Int
    BY <1>2, <1>3 DEF IInv, TypeOK, ProductRow
  <2>3. supplied' \in [Products -> Int]
    BY <1>1, <1>3, <2>2 DEF IInv, TypeOK
  <2>4. untracked' \in SUBSET Products
    BY <1>1, <1>3 DEF IInv, TypeOK
  <2> QED
    BY <1>1, <2>1, <2>3, <2>4 DEF IInv, TypeOK, PC
<1>5. StepOf(r)
  BY <1>1 DEF IInv, TypeOK, StepOf
<1>6. ProcAt(r) /\ walk[r] = NoWalk /\ delta[r] = NoUnits
  BY <1>1 DEF IInv, Everyone, ProcAt, Staging
<1>7. ProcAt(r)'
  BY <1>1, <1>6 DEF ProcAt, NoUnits, NoWalk
<1>8. RequestAt(r)'
  BY <1>1 DEF RequestAt, Patching, IInv, TypeOK
<1>9. Log'
  BY <1>1, LogKept DEF IInv
<1> QED
  BY <1>4, <1>5, <1>7, <1>8, <1>9, OnlyTheActor, Distinct DEF IInv

LEMMA SetProductStatusStep ==
  ASSUME IInv, NEW r \in Requests, SetProductStatus(r)
  PROVE  IInv' /\ StepOf(r)
<1> USE DEF staged, run, observers
<1>1. PICK p \in Products, s \in ProductStatus :
        lock[p] = None /\ product' = [product EXCEPT ![p].status = s]
  BY DEF SetProductStatus, Free
<1>2. /\ pc[r] = "new" /\ pc' = [pc EXCEPT ![r] = "done"]
      /\ UNCHANGED <<order, history, due, body, seen, staged, run, observers>>
  BY DEF SetProductStatus
<1>3. product' \in [Products -> ProductRow]
  <2> DEFINE row == [product[p] EXCEPT !.status = s]
  <2>1. row \in ProductRow
    <3>1. product[p] \in ProductRow
      BY DEF IInv, TypeOK
    <3> QED
      BY <3>1 DEF ProductRow
  <2>2. product' = [product EXCEPT ![p] = row]
    BY <1>1
  <2> HIDE DEF row
  <2> QED
    BY <2>1, <2>2 DEF IInv, TypeOK
<1>4. TypeOK'
  BY <1>2, <1>3 DEF IInv, TypeOK, PC
<1>5. StepOf(r)
  BY <1>1, <1>2 DEF IInv, TypeOK, StepOf
<1>6. ProcAt(r) /\ walk[r] = NoWalk /\ delta[r] = NoUnits
  BY <1>2 DEF IInv, Everyone, ProcAt, Staging
<1>7. ProcAt(r)'
  BY <1>2, <1>6 DEF ProcAt, NoUnits, NoWalk
<1>8. RequestAt(r)'
  BY <1>2 DEF RequestAt, Patching, IInv, TypeOK
<1>9. Log'
  BY <1>2, LogKept DEF IInv
<1> QED
  BY <1>4, <1>5, <1>7, <1>8, <1>9, OnlyTheActor, Distinct DEF IInv

-----------------------------------------------------------------------------
(* The actions of the ghost-order worker *)

LEMMA StartRunStep ==
  ASSUME IInv, NEW w \in Workers, StartRun(w)
  PROVE  IInv' /\ StepOf(w)
<1> USE DEF tables, staged, observers
<1>1. /\ pc[w] = "idle" /\ pc' = [pc EXCEPT ![w] = "claim"]
      /\ cutoff' = [cutoff EXCEPT ![w] = due]
      /\ UNCHANGED <<tables, due, body, seen, staged, cand, claimed, todo, observers>>
  BY DEF StartRun
<1>2. TypeOK'
  BY <1>1 DEF IInv, TypeOK, PC
<1>3. StepOf(w)
  BY <1>1 DEF IInv, TypeOK, StepOf
<1>4. ProcAt(w)'
  BY <1>1 DEF IInv, TypeOK, Everyone, ProcAt, Staging
<1>5. WorkerAt(w)'
  BY <1>1 DEF IInv, TypeOK, Everyone, WorkerAt, Claim
<1>6. Log'
  BY <1>1, LogKept DEF IInv
<1> QED
  BY <1>2, <1>3, <1>4, <1>5, <1>6, OnlyTheActor, Distinct DEF IInv

LEMMA ScanExpiredStep ==
  ASSUME IInv, NEW w \in Workers, ScanExpired(w)
  PROVE  IInv' /\ StepOf(w)
<1> USE DEF tables, staged, observers
<1>1. /\ pc[w] = "claim" /\ pc' = [pc EXCEPT ![w] = "lock_rows"]
      /\ cand' = [cand EXCEPT ![w] = {o \in OrderIds : Claimable(w, o)}]
      /\ UNCHANGED <<tables, due, body, seen, staged, cutoff, claimed, todo, observers>>
  BY DEF ScanExpired
<1>2. TypeOK'
  BY <1>1 DEF IInv, TypeOK, PC
<1>3. StepOf(w)
  BY <1>1 DEF IInv, TypeOK, StepOf
<1>4. ProcAt(w)'
  BY <1>1 DEF IInv, TypeOK, Everyone, ProcAt, Staging
<1>5. WorkerAt(w)'
  BY <1>1 DEF IInv, TypeOK, Everyone, WorkerAt, Claim
<1>6. Log'
  BY <1>1, LogKept DEF IInv
<1> QED
  BY <1>2, <1>3, <1>4, <1>5, <1>6, OnlyTheActor, Distinct DEF IInv

\* A row is claimed only when it still matches once its lock is free.
LEMMA ClaimRowStep ==
  ASSUME IInv, NEW w \in Workers, ClaimRow(w)
  PROVE  IInv' /\ StepOf(w)
<1> USE DEF tables, observers
<1>1. PICK o \in cand[w] :
        /\ lock[o] = None
        /\ cand' = [cand EXCEPT ![w] = @ \ {o}]
        /\ \/ UNCHANGED <<lock, claimed, todo>>
           \/ /\ Claimable(w, o)
              /\ lock' = [lock EXCEPT ![o] = w]
              /\ claimed' = [claimed EXCEPT ![w] = @ \cup {o}]
              /\ todo' = [todo EXCEPT ![w] = @ \cup {o}]
  BY DEF ClaimRow, Free, Take
<1>2. /\ pc[w] = "lock_rows"
      /\ UNCHANGED <<tables, due, pc, body, seen, walk, delta, credit, cutoff, observers>>
  BY DEF ClaimRow
<1>3. o \in OrderIds
  BY DEF IInv, TypeOK
<1>4. ProcAt(w) /\ walk[w] = NoWalk /\ delta[w] = NoUnits /\ WorkerAt(w)
  BY <1>2 DEF IInv, Everyone, ProcAt, Staging
<1>5. cand' \in [Workers -> SUBSET OrderIds]
  BY <1>1 DEF IInv, TypeOK
<1>6. CASE UNCHANGED <<lock, claimed, todo>>
  <2>1. TypeOK'
    BY <1>2, <1>5, <1>6 DEF IInv, TypeOK
  <2>2. StepOf(w)
    BY <1>2, <1>6 DEF StepOf
  <2>3. ProcAt(w)' /\ WorkerAt(w)'
    BY <1>2, <1>4, <1>6 DEF ProcAt, WorkerAt, Claim
  <2>4. Log'
    BY <1>2, LogKept DEF IInv
  <2> QED
    BY <2>1, <2>2, <2>3, <2>4, OnlyTheActor, Distinct DEF IInv
<1>7. CASE /\ Claimable(w, o)
           /\ lock' = [lock EXCEPT ![o] = w]
           /\ claimed' = [claimed EXCEPT ![w] = @ \cup {o}]
           /\ todo' = [todo EXCEPT ![w] = @ \cup {o}]
  <2>1. TypeOK'
    <3>1. claimed' \in [Workers -> SUBSET OrderIds] /\ todo' \in [Workers -> SUBSET OrderIds]
      BY <1>3, <1>7 DEF IInv, TypeOK
    <3>2. lock' \in [Rows -> Procs \cup {None}]
      BY <1>3, <1>7 DEF IInv, TypeOK
    <3> QED
      BY <1>2, <1>5, <3>1, <3>2 DEF IInv, TypeOK
  <2>2. StepOf(w)
    BY <1>1, <1>2, <1>7 DEF IInv, TypeOK, StepOf
  <2>3. ProcAt(w)'
    BY <1>2, <1>4 DEF ProcAt, NoUnits, NoWalk
  <2>4. WorkerAt(w)'
    <3>1. claimed'[w] = claimed[w] \cup {o} /\ todo'[w] = todo[w] \cup {o}
      BY <1>7 DEF IInv, TypeOK
    <3>2. /\ lock'[o] = w
          /\ \A x \in claimed[w] : lock'[x] = lock[x]
      BY <1>1, <1>3, <1>4, <1>7, Distinct DEF IInv, TypeOK, WorkerAt, Claim
    <3>3. Claim(w, o)'
      BY <1>2, <1>4, <1>7, <3>2 DEF Claimable, Claim, WorkerAt
    <3>4. \A x \in claimed[w] : Claim(w, x)'
      BY <1>2, <1>4, <3>2 DEF Claim, WorkerAt
    <3> QED
      BY <1>2, <1>4, <3>1, <3>3, <3>4 DEF WorkerAt
  <2>5. Log'
    BY <1>2, LogKept DEF IInv
  <2> QED
    BY <2>1, <2>2, <2>3, <2>4, <2>5, OnlyTheActor, Distinct DEF IInv
<1> QED
  BY <1>1, <1>6, <1>7

LEMMA RowsLockedStep ==
  ASSUME IInv, NEW w \in Workers, RowsLocked(w)
  PROVE  IInv' /\ StepOf(w)
<1> USE DEF tables, staged, run, observers
<1>1. /\ pc[w] = "lock_rows" /\ pc' = [pc EXCEPT ![w] = "restore"]
      /\ UNCHANGED <<tables, due, body, seen, staged, run, observers>>
  BY DEF RowsLocked
<1>2. TypeOK'
  BY <1>1 DEF IInv, TypeOK, PC
<1>3. StepOf(w)
  BY <1>1 DEF IInv, TypeOK, StepOf
<1>4. ProcAt(w)'
  BY <1>1 DEF IInv, TypeOK, Everyone, ProcAt, Staging
<1>5. WorkerAt(w)'
  BY <1>1 DEF IInv, TypeOK, Everyone, WorkerAt, Claim
<1>6. Log'
  BY <1>1, LogKept DEF IInv
<1> QED
  BY <1>2, <1>3, <1>4, <1>5, <1>6, OnlyTheActor, Distinct DEF IInv

LEMMA NextClaimedStep ==
  ASSUME IInv, NEW w \in Workers, NextClaimed(w)
  PROVE  IInv' /\ StepOf(w)
<1> USE DEF tables, observers
<1>1. PICK o \in todo[w] : /\ todo' = [todo EXCEPT ![w] = @ \ {o}]
                          /\ walk' = [walk EXCEPT ![w] = [order |-> o, done |-> 0]]
  BY DEF NextClaimed
<1>2. /\ pc[w] = "restore"
      /\ UNCHANGED <<tables, due, pc, body, seen, lock, delta, credit, cutoff, cand, claimed, observers>>
  BY DEF NextClaimed
<1>3. ProcAt(w) /\ WorkerAt(w) /\ o \in OrderIds /\ o \in claimed[w]
  BY DEF IInv, TypeOK, Everyone, WorkerAt
<1>4. order[o] # None /\ Len(order[o].items) \in Nat
  <2>1. order[o] # None
    BY <1>3 DEF WorkerAt, Claim
  <2>2. order[o].items \in Baskets
    BY <1>3, <2>1 DEF IInv, TypeOK, OrderRow
  <2> QED
    BY <2>1, <2>2, BasketLength
<1>5. TypeOK'
  <2>1. walk' \in [Procs -> [order : OrderIds \cup {None}, done : Nat]]
    BY <1>1, <1>3 DEF IInv, TypeOK
  <2>2. todo' \in [Workers -> SUBSET OrderIds]
    BY <1>1 DEF IInv, TypeOK
  <2> QED
    BY <1>2, <2>1, <2>2 DEF IInv, TypeOK
<1>6. StepOf(w)
  BY <1>1, <1>2 DEF IInv, TypeOK, StepOf
<1>7. walk'[w] = [order |-> o, done |-> 0] /\ todo'[w] = todo[w] \ {o}
  BY <1>1 DEF IInv, TypeOK
<1>8. ProcAt(w)'
  BY <1>2, <1>3, <1>4, <1>7 DEF ProcAt, Staging
<1>9. WorkerAt(w)'
  BY <1>2, <1>3, <1>7 DEF WorkerAt, Claim
<1>10. Log'
  BY <1>2, LogKept DEF IInv
<1> QED
  BY <1>5, <1>6, <1>8, <1>9, <1>10, OnlyTheActor, Distinct DEF IInv

\* A claimed order is pending when its expiry is committed, so it expires once.
LEMMA CommitRunStep ==
  ASSUME IInv, NEW w \in Workers, CommitRun(w)
  PROVE  IInv' /\ StepOf(w)
<1> DEFINE expired(o) == [order[o] EXCEPT !.status = "expired"]
<1>1. /\ EndTx(w) /\ EndRun(w) /\ product' = StockAfter(w) /\ returned' = Returned(w)
      /\ order' = [o \in OrderIds |-> IF o \in claimed[w] THEN expired(o) ELSE order[o]]
      /\ history' = [o \in OrderIds |->
           IF o \in claimed[w] THEN history[o] \cup {ExpiryEntry(o)} ELSE history[o]]
      /\ expiries' = [o \in OrderIds |-> IF o \in claimed[w] THEN expiries[o] + 1 ELSE expiries[o]]
      /\ UNCHANGED <<due, body, seen, drawn, supplied, untracked>>
  BY DEF CommitRun
<1>2. ASSUME NEW o \in OrderIds, o \in claimed[w]
      PROVE  /\ expired(o) \in OrderRow /\ expired(o).items = order[o].items
             /\ expired(o).status = "expired" /\ ExpiryEntry(o) = [status |-> "expired", paid |-> FALSE]
             /\ lock[o] = w /\ order[o] # None /\ expiries[o] = 0
  <2>1. Claim(w, o)
    BY <1>2 DEF IInv, Everyone, WorkerAt
  <2>2. order[o] \in OrderRow
    BY <2>1 DEF Claim, IInv, TypeOK
  <2>3. expired(o) \in OrderRow /\ expired(o).items = order[o].items /\ expired(o).status = "expired"
    BY <2>2 DEF OrderRow, Status
  <2>4. order[o].paid = FALSE
    BY <2>1, <2>2 DEF Claim, OrderRow
  <2> QED
    BY <2>1, <2>3, <2>4 DEF Claim, ExpiryEntry, IInv, Log, PendingNotExpired
<1> HIDE DEF expired
<1>3. [status |-> "expired", paid |-> FALSE] \in Entry
  BY DEF Entry, Status
<1>4. ASSUME NEW o \in OrderIds PROVE
        /\ order'[o] = (IF o \in claimed[w] THEN expired(o) ELSE order[o])
        /\ history'[o] = (IF o \in claimed[w] THEN history[o] \cup {ExpiryEntry(o)} ELSE history[o])
        /\ expiries'[o] = (IF o \in claimed[w] THEN expiries[o] + 1 ELSE expiries[o])
  BY <1>1
<1>5. TypeOK' /\ Everyone' /\ StepOf(w)
  <2>1. order' \in [OrderIds -> OrderRow \cup {None}]
    BY <1>1, <1>2 DEF IInv, TypeOK
  <2>2. history' \in [OrderIds -> SUBSET Entry]
    BY <1>1, <1>2, <1>3 DEF IInv, TypeOK
  <2>3. expiries' \in [OrderIds -> Nat]
    BY <1>1 DEF IInv, TypeOK
  <2>4. returned' \in [OrderIds -> [Products -> Int]]
    BY <1>1 DEF Returned, IInv, TypeOK
  <2>5. \A o \in OrderIds : order[o] # None =>
          /\ order'[o] # None /\ order'[o].items = order[o].items
          /\ lock[o] # w => order'[o] = order[o]
    BY <1>2, <1>4, Distinct
  <2> QED
    BY <1>1, <2>1, <2>2, <2>3, <2>4, <2>5, EndTxStep DEF IInv, TypeOK
<1>6. Log'
  <2>1. ASSUME NEW o \in OrderIds
        PROVE  /\ order'[o] = None \/ order'[o].status = "pending" => expiries'[o] = 0
               /\ expiries'[o] <= 1
    <3>1. CASE o \in claimed[w]
      <4>1. order'[o] # None /\ order'[o].status = "expired" /\ expiries'[o] = 1
        <5>1. order'[o] = expired(o) /\ expiries'[o] = expiries[o] + 1
          BY <1>4, <3>1
        <5>2. expired(o) \in OrderRow /\ expired(o).status = "expired" /\ expiries[o] = 0
          BY <1>2, <3>1
        <5> QED
          BY <5>1, <5>2, Distinct
      <4> QED
        BY <4>1
    <3>2. CASE o \notin claimed[w]
      BY <1>4, <3>2 DEF IInv, Log, PendingNotExpired, ExpiredOnce
    <3> QED
      BY <3>1, <3>2
  <2>2. AuditTrail'
    BY <1>2, <1>4 DEF IInv, Log, AuditTrail, HasStatus
  <2> QED
    BY <2>1, <2>2 DEF Log, PendingNotExpired, ExpiredOnce
<1> QED
  BY <1>5, <1>6 DEF IInv

\* Time only makes more orders due.
LEMMA TimePassesStep ==
  ASSUME IInv, TimePasses
  PROVE  IInv'
<1> USE DEF tables, staged, run, observers
<1>1. /\ due \subseteq due' /\ due' \in SUBSET OrderIds
      /\ UNCHANGED <<tables, pc, body, seen, staged, run, observers>>
  BY DEF TimePasses, IInv, TypeOK
<1>2. TypeOK'
  BY <1>1 DEF IInv, TypeOK
<1>3. Everyone'
  BY <1>1 DEF IInv, Everyone, ProcAt, RequestAt, Reserved, WorkerAt, Claim
<1>4. Log'
  BY <1>1, LogKept DEF IInv
<1> QED
  BY <1>2, <1>3, <1>4 DEF IInv

-----------------------------------------------------------------------------
(* The theorems *)

LEMMA StepInv == IInv /\ [Next]_vars => IInv'
<1> SUFFICES ASSUME IInv, [Next]_vars PROVE IInv'
  OBVIOUS
<1>1. ASSUME NEW r \in Requests, Receive(r) PROVE IInv'
  BY <1>1, BeginCreateStep, BeginPatchStep, BeginEditStep, SetProductStatusStep DEF Receive
<1>2. ASSUME NEW r \in Requests, Handle(r) PROVE IInv'
  <2>1. RejectItem(r) \/ CommitAborted(r) => Rollback(r)
    BY DEF RejectItem, CommitAborted
  <2> QED
    BY <1>2, <2>1, RollbackStep, ReserveItemStep, CommitCreateStep, ValidateTransitionStep,
       WriteOrderStep, WriteHistoryStep, LockOrderStep, RestoreItemStep, CommitPatchStep,
       HistoryInsertFailsStep, WriteEditStep DEF Handle
<1>3. ASSUME NEW w \in Workers, Work(w) PROVE IInv'
  BY <1>3, StartRunStep, ScanExpiredStep, ClaimRowStep, RowsLockedStep, NextClaimedStep,
     RestoreItemStep, CommitRunStep DEF Work
<1>4. ASSUME NEW t \in Procs, Fail(t) \/ DeadlockVictim(t) PROVE IInv'
  BY <1>4, RollbackStep DEF Fail, DeadlockVictim
<1>5. CASE UNCHANGED vars
  <2>1. TypeOK' /\ Log'
    BY <1>5, LogKept DEF IInv, TypeOK, vars
  <2>2. Everyone'
    BY <1>5 DEF IInv, Everyone, ProcAt, RequestAt, Reserved, WorkerAt, Claim, vars
  <2> QED
    BY <2>1, <2>2 DEF IInv
<1> QED
  BY <1>1, <1>2, <1>3, <1>4, <1>5, TimePassesStep DEF Next

\* The inductive invariant holds in every reachable state.
THEOREM Invariance == Spec => []IInv
BY InitInv, StepInv, PTL DEF Spec

\* Committed rows, locks and staged changes keep their types; no committed stock
\* is ever negative, whatever orders, cancellations, expiries and edits interleave.
THEOREM TypesHold == Spec => []TypeOK
<1>1. IInv => TypeOK
  BY DEF IInv
<1> QED
  BY <1>1, Invariance, PTL

\* What CreateOrder checked under its row locks holds until it commits.
THEOREM NoOversell == Spec => []ReservationsHold
<1>1. IInv => ReservationsHold
  BY DEF IInv, Everyone, RequestAt, ReservationsHold
<1> QED
  BY <1>1, Invariance, PTL

\* However many workers and runs overlap, an order expires at most once.
THEOREM AtMostOneExpiry == Spec => []ExpiredOnce
<1>1. IInv => ExpiredOnce
  BY DEF IInv, Log
<1> QED
  BY <1>1, Invariance, PTL

\* Creation and expiry of an order are always in its history.
THEOREM HistoryComplete == Spec => []AuditTrail
<1>1. IInv => AuditTrail
  BY DEF IInv, Log
<1> QED
  BY <1>1, Invariance, PTL

-----------------------------------------------------------------------------
(* An action property *)

\* An order that becomes expired by this step was pending, unpaid and due.
ExpiresRightly ==
  \A o \in OrderIds :
    (HasStatus(order'[o], "expired") /\ ~HasStatus(order[o], "expired"))
      => HasStatus(order[o], "pending") /\ ~order[o].paid /\ o \in due

\* A PATCH cannot make an order expired.
LEMMA PatchDoesNotExpire ==
  ASSUME IInv, NEW r \in Requests, WriteOrder(r) \/ CommitPatch(r)
  PROVE  ExpiresRightly
<1> DEFINE o == body[r].order
<1>1. order' = [order EXCEPT ![o] = Patched(body[r], @)] /\ pc[r] \in Patching \ {"validate"}
  BY DEF WriteOrder, CommitPatch, Restoring, Patching
<1>2. body[r] \in PatchBody /\ order[o] # None /\ o \in OrderIds
  BY <1>1 DEF IInv, Everyone, RequestAt, Patching, PatchBody
<1>3. order[o] \in OrderRow
  BY <1>2 DEF IInv, TypeOK
<1>4. order'[o] = Patched(body[r], order[o]) /\ \A x \in OrderIds \ {o} : order'[x] = order[x]
  BY <1>1, <1>2 DEF IInv, TypeOK
<1>5. Patched(body[r], order[o]).status = "expired" => order[o].status = "expired"
  BY <1>2, <1>3, PatchedRow DEF Settable
<1> QED
  BY <1>2, <1>4, <1>5 DEF ExpiresRightly, HasStatus

\* The worker's run expires the orders it claimed, and only those.
LEMMA RunExpiresRightly ==
  ASSUME IInv, NEW w \in Workers, CommitRun(w)
  PROVE  ExpiresRightly
<1>1. \A o \in OrderIds : o \notin claimed[w] => order'[o] = order[o]
  BY DEF CommitRun
<1>2. \A o \in claimed[w] : Claim(w, o)
  BY DEF IInv, Everyone, WorkerAt
<1> QED
  BY <1>1, <1>2 DEF ExpiresRightly, HasStatus, Claim

\* A new order is pending.
LEMMA CreateDoesNotExpire ==
  ASSUME IInv, NEW r \in Requests, CommitCreate(r)
  PROVE  ExpiresRightly
<1>1. PICK o \in OrderIds :
        order' = [order EXCEPT ![o] =
                   [status |-> "pending", paid |-> FALSE, items |-> body[r].items]]
  BY DEF CommitCreate
<1>2. order'[o].status = "pending" /\ \A x \in OrderIds \ {o} : order'[x] = order[x]
  BY <1>1 DEF IInv, TypeOK
<1> QED
  BY <1>2 DEF ExpiresRightly, HasStatus

\* Every other step leaves the orders as they are.
LEMMA StepExpiresRightly == IInv /\ [Next]_vars => ExpiresRightly
<1> SUFFICES ASSUME IInv, [Next]_vars PROVE ExpiresRightly
  OBVIOUS
<1>1. order' = order => ExpiresRightly
  BY DEF ExpiresRightly
<1>2. ASSUME NEW t \in Procs, Rollback(t) PROVE order' = order
  BY <1>2 DEF Rollback, tables
<1>3. ASSUME NEW r \in Requests, Receive(r) PROVE order' = order
  BY <1>3 DEF Receive, BeginCreate, BeginPatch, BeginEdit, SetProductStatus, tables
<1>4. ASSUME NEW t \in Procs, RestoreItem(t) PROVE order' = order
  BY <1>4 DEF RestoreItem, tables
<1>5. ASSUME NEW r \in Requests, Handle(r) PROVE ExpiresRightly
  <2>1. ReserveItem(r) \/ ValidateTransition(r) \/ HistoryInsertFails(r) => order' = order
    BY DEF ReserveItem, ValidateTransition, HistoryInsertFails, tables
  <2>2. WriteHistory(r) \/ LockOrder(r) \/ WriteEdit(r) => order' = order
    BY DEF WriteHistory, LockOrder, WriteEdit, tables
  <2>3. RejectItem(r) \/ CommitAborted(r) => order' = order
    BY <1>2 DEF RejectItem, CommitAborted
  <2> QED
    BY <1>1, <1>4, <1>5, <2>1, <2>2, <2>3, PatchDoesNotExpire, CreateDoesNotExpire DEF Handle
<1>6. ASSUME NEW w \in Workers, Work(w) PROVE ExpiresRightly
  <2>1. StartRun(w) \/ ScanExpired(w) \/ ClaimRow(w) \/ RowsLocked(w) \/ NextClaimed(w)
          => order' = order
    BY DEF StartRun, ScanExpired, ClaimRow, RowsLocked, NextClaimed, tables
  <2> QED
    BY <1>1, <1>4, <1>6, <2>1, RunExpiresRightly DEF Work
<1>7. ASSUME NEW t \in Procs, Fail(t) \/ DeadlockVictim(t) PROVE order' = order
  BY <1>2, <1>7 DEF Fail, DeadlockVictim
<1>8. TimePasses \/ UNCHANGED vars => order' = order
  BY DEF TimePasses, tables, vars
<1> QED
  BY <1>1, <1>3, <1>5, <1>6, <1>7, <1>8 DEF Next

\* An order expires only from pending, unpaid and past its expires_at: a payment
\* or a transition that commits before the claim takes the row always wins.
THEOREM OnlyUnpaidPendingExpire == Spec => ExpiresOnlyUnpaidPending
<1>1. IInv /\ [Next]_vars => [ExpiresRightly]_vars
  BY StepExpiresRightly
<1>2. Spec => [][ExpiresRightly]_vars
  BY <1>1, Invariance, PTL DEF Spec
<1> QED
  BY <1>2 DEF ExpiresRightly, ExpiresOnlyUnpaidPending

-----------------------------------------------------------------------------
(* Locks and deadlocks *)

\* Where a process may hold a row's lock: an order's from the claim or the PATCH's
\* first statement, a product's from the first reservation or return, and either no
\* longer than its transaction.
Holds(t, x) ==
  /\ x \in Products => pc[t] \in {"reserve", "restore", "commit_aborted"}
  /\ x \in OrderIds => pc[t] \in {"lock_rows", "restore", "commit_aborted"}
LocksHeld == \A x \in Rows : lock[x] # None => Holds(lock[x], x)

\* A step of t that takes no lock but for itself leaves the other locks' holders
\* where they are.
LEMMA LocksStep ==
  ASSUME IInv, LocksHeld, NEW t \in Procs, StepOf(t),
         \A x \in Rows : lock'[x] \in {lock[x], None, t},
         \A x \in Rows : lock'[x] = t => Holds(t, x)'
  PROVE  LocksHeld'
<1> SUFFICES ASSUME NEW x \in Rows, NEW u, u = lock'[x], u # None PROVE Holds(u, x)'
  BY DEF LocksHeld, Holds
<1>1. CASE u = t
  BY <1>1
<1>2. CASE u # t
  <2>1. lock[x] = u /\ u \in Procs \ {t}
    BY <1>2 DEF IInv, TypeOK
  <2>2. Holds(u, x) /\ pc'[u] = pc[u]
    BY <2>1 DEF LocksHeld, StepOf
  <2> QED
    BY <2>2 DEF Holds
<1> QED
  BY <1>1, <1>2

\* The end of a transaction leaves it no lock.
LEMMA EndTxLocks ==
  ASSUME IInv, LocksHeld, NEW t \in Procs, StepOf(t), EndTx(t)
  PROVE  LocksHeld'
<1>1. \A x \in Rows : lock'[x] \in {lock[x], None} /\ lock'[x] # t
  BY Distinct DEF EndTx, IInv, TypeOK
<1> QED
  BY <1>1, LocksStep

\* A process that takes no lock keeps the right to those it has.
LEMMA SameLocks ==
  ASSUME IInv, LocksHeld, NEW t \in Procs, StepOf(t), UNCHANGED lock,
         \/ pc'[t] = pc[t]
         \/ pc[t] \notin {"reserve", "restore", "commit_aborted", "lock_rows"}
         \/ pc[t] \in {"reserve", "restore"} /\ pc'[t] = "commit_aborted"
         \/ pc[t] = "lock_rows" /\ pc'[t] = "restore"
  PROVE  LocksHeld'
<1>1. ASSUME NEW x \in Rows, lock'[x] = t PROVE Holds(t, x)'
  <2>1. Holds(t, x)
    BY <1>1, Distinct DEF LocksHeld
  <2> QED
    BY <2>1, Distinct DEF Holds
<1> QED
  BY <1>1, LocksStep

\* A process takes one more lock.
LEMMA TakeLocks ==
  ASSUME IInv, LocksHeld, NEW t \in Procs, StepOf(t), NEW y \in Rows, Take(t, y), Holds(t, y)',
         \/ pc'[t] = pc[t]
         \/ pc[t] \notin {"reserve", "restore", "commit_aborted", "lock_rows"}
  PROVE  LocksHeld'
<1>1. \A x \in Rows : lock'[x] = IF x = y THEN t ELSE lock[x]
  BY DEF Take, IInv, TypeOK
<1>2. ASSUME NEW x \in Rows, lock'[x] = t PROVE Holds(t, x)'
  <2>1. CASE x = y
    BY <2>1
  <2>2. CASE x # y
    <3>1. Holds(t, x)
      BY <1>1, <1>2, <2>2, Distinct DEF LocksHeld
    <3> QED
      BY <3>1, Distinct DEF Holds
  <2> QED
    BY <2>1, <2>2
<1> QED
  BY <1>1, <1>2, LocksStep

\* A creation takes its lines' products.
LEMMA ReserveItemLocks ==
  ASSUME IInv, LocksHeld, NEW r \in Requests, ReserveItem(r)
  PROVE  LocksHeld'
<1>1. PICK p : p = ItemAt(r).product
  OBVIOUS
<1>2. pc[r] = "reserve" /\ pc' = pc /\ Take(r, p)
  BY <1>1 DEF ReserveItem
<1>3. p \in Products
  <2>1. body[r] \in CreateBody /\ walk[r].done # Len(body[r].items) /\ walk[r].done \in Nat
        /\ walk[r].done <= Len(body[r].items)
    BY <1>2 DEF ReserveItem, AllItems, IInv, TypeOK, Everyone, RequestAt
  <2>2. Len(body[r].items) \in Nat
    BY <2>1, BasketLength DEF CreateBody
  <2>3. walk[r].done + 1 \in 1..Len(body[r].items)
    BY <2>1, <2>2
  <2> QED
    BY <1>1, <1>2, <2>3, ReservedLine DEF ItemAt, IInv
<1>4. Holds(r, p)'
  BY <1>2, <1>3, Distinct DEF Holds
<1>5. StepOf(r)
  BY ReserveItemStep
<1> QED
  BY <1>2, <1>3, <1>4, <1>5, TakeLocks

\* A PATCH takes its order when its transaction begins.
LEMMA LockOrderLocks ==
  ASSUME IInv, LocksHeld, NEW r \in Requests, LockOrder(r)
  PROVE  LocksHeld'
<1>1. PICK o : o = body[r].order
  OBVIOUS
<1>2. pc[r] = "begin_tx" /\ pc'[r] = "restore" /\ Take(r, o)
  BY <1>1 DEF LockOrder, IInv, TypeOK
<1>3. o \in OrderIds
  BY <1>1, <1>2 DEF IInv, Everyone, RequestAt, Patching, PatchBody
<1>4. Holds(r, o)'
  BY <1>2, <1>3, Distinct DEF Holds
<1>5. StepOf(r)
  BY LockOrderStep
<1> QED
  BY <1>2, <1>3, <1>4, <1>5, TakeLocks

\* The next line a transaction gives back names a product.
LEMMA ReturnedLine ==
  ASSUME IInv, NEW t \in Procs, Restoring(t), ~Walked(t)
  PROVE  NextReturn(t).product \in Products
<1>1. PICK o : o = walk[t].order
  OBVIOUS
<1>2. o \in OrderIds /\ order[o] # None /\ walk[t].done \in Nat
      /\ walk[t].done <= Len(order[o].items) /\ walk[t].done # Len(order[o].items)
  BY <1>1 DEF Restoring, Walked, IInv, TypeOK, Everyone, ProcAt
<1>3. order[o].items \in Baskets
  BY <1>2 DEF IInv, TypeOK, OrderRow
<1>4. walk[t].done + 1 \in 1..Len(order[o].items)
  BY <1>2, <1>3, BasketLength
<1> QED
  BY <1>1, <1>3, <1>4, BasketLine DEF NextReturn

\* A return takes the products of its lines.
LEMMA RestoreItemLocks ==
  ASSUME IInv, LocksHeld, NEW t \in Procs, RestoreItem(t)
  PROVE  LocksHeld'
<1>1. pc[t] = "restore" /\ pc' = pc /\ StepOf(t)
  BY RestoreItemStep DEF RestoreItem, Restoring
<1>2. CASE UNCHANGED lock
  BY <1>1, <1>2, SameLocks
<1>3. CASE ~UNCHANGED lock
  <2>1. PICK p : p = NextReturn(t).product
    OBVIOUS
  <2>2. p \in Products /\ Take(t, p)
    BY <1>3, <2>1, ReturnedLine DEF RestoreItem
  <2>3. Holds(t, p)'
    BY <1>1, <2>2, Distinct DEF Holds
  <2> QED
    BY <1>1, <2>2, <2>3, TakeLocks
<1> QED
  BY <1>2, <1>3

\* A claim takes an order.
LEMMA ClaimRowLocks ==
  ASSUME IInv, LocksHeld, NEW w \in Workers, ClaimRow(w)
  PROVE  LocksHeld'
<1>1. pc[w] = "lock_rows" /\ pc' = pc /\ StepOf(w)
  BY ClaimRowStep DEF ClaimRow
<1>2. CASE UNCHANGED lock
  BY <1>1, <1>2, SameLocks
<1>3. CASE ~UNCHANGED lock
  <2>1. PICK o \in cand[w] : Take(w, o)
    BY <1>3 DEF ClaimRow
  <2>2. o \in OrderIds
    BY DEF IInv, TypeOK
  <2>3. Holds(w, o)'
    BY <1>1, <2>2, Distinct DEF Holds
  <2> QED
    BY <1>1, <2>1, <2>2, <2>3, TakeLocks
<1> QED
  BY <1>2, <1>3

\* Every step keeps the locks with transactions.
LEMMA StepLocks == IInv /\ LocksHeld /\ [Next]_vars => LocksHeld'
<1> SUFFICES ASSUME IInv, LocksHeld, [Next]_vars PROVE LocksHeld'
  OBVIOUS
<1> USE DEF staged
<1>1. ASSUME NEW t \in Procs, Rollback(t) PROVE LocksHeld'
  BY <1>1, RollbackStep, EndTxLocks DEF Rollback
<1>2. ASSUME NEW r \in Requests, Receive(r) PROVE LocksHeld'
  <2>1. StepOf(r)
    BY <1>2, BeginCreateStep, BeginPatchStep, BeginEditStep, SetProductStatusStep DEF Receive
  <2>2. pc[r] = "new" /\ UNCHANGED lock
    BY <1>2 DEF Receive, BeginCreate, BeginPatch, BeginEdit, SetProductStatus
  <2> QED
    BY <2>1, <2>2, SameLocks
<1>3. ASSUME NEW r \in Requests, Handle(r) PROVE LocksHeld'
  <2>1. CASE ValidateTransition(r) \/ WriteOrder(r) \/ WriteHistory(r) \/ WriteEdit(r)
    <3>1. StepOf(r)
      BY <2>1, ValidateTransitionStep, WriteOrderStep, WriteHistoryStep, WriteEditStep
    <3>2. pc[r] \in {"validate", "set_status", "set_paid", "write_history", "edit"} /\ UNCHANGED lock
      BY <2>1 DEF ValidateTransition, WriteOrder, WriteHistory, WriteEdit
    <3> QED
      BY <3>1, <3>2, SameLocks
  <2>2. CASE HistoryInsertFails(r)
    <3>1. StepOf(r) /\ UNCHANGED lock /\ pc[r] \in {"reserve", "restore"} /\ pc'[r] = "commit_aborted"
      BY <2>2, HistoryInsertFailsStep DEF HistoryInsertFails, Restoring, IInv, TypeOK
    <3> QED
      BY <3>1, SameLocks
  <2>3. CASE CommitCreate(r) \/ CommitPatch(r)
    <3>1. StepOf(r) /\ EndTx(r)
      BY <2>3, CommitCreateStep, CommitPatchStep DEF CommitCreate, CommitPatch
    <3> QED
      BY <3>1, EndTxLocks
  <2>4. CASE RejectItem(r) \/ CommitAborted(r)
    BY <1>1, <2>4 DEF RejectItem, CommitAborted
  <2>5. CASE ReserveItem(r) \/ LockOrder(r) \/ RestoreItem(r)
    BY <2>5, ReserveItemLocks, LockOrderLocks, RestoreItemLocks
  <2> QED
    BY <1>3, <2>1, <2>2, <2>3, <2>4, <2>5 DEF Handle
<1>4. ASSUME NEW w \in Workers, Work(w) PROVE LocksHeld'
  <2>1. CASE StartRun(w) \/ ScanExpired(w) \/ NextClaimed(w) \/ RowsLocked(w)
    <3>1. StepOf(w)
      BY <2>1, StartRunStep, ScanExpiredStep, NextClaimedStep, RowsLockedStep
    <3>2. /\ UNCHANGED lock
          /\ \/ pc[w] \in {"idle", "claim"}
             \/ pc'[w] = pc[w]
             \/ pc[w] = "lock_rows" /\ pc'[w] = "restore"
      BY <2>1 DEF StartRun, ScanExpired, NextClaimed, RowsLocked, IInv, TypeOK
    <3> QED
      BY <3>1, <3>2, SameLocks
  <2>2. CASE CommitRun(w)
    <3>1. StepOf(w) /\ EndTx(w)
      BY <2>2, CommitRunStep DEF CommitRun
    <3> QED
      BY <3>1, EndTxLocks
  <2> QED
    BY <1>4, <2>1, <2>2, ClaimRowLocks, RestoreItemLocks DEF Work
<1>5. ASSUME NEW t \in Procs, Fail(t) \/ DeadlockVictim(t) PROVE LocksHeld'
  BY <1>1, <1>5 DEF Fail, DeadlockVictim
<1>6. TimePasses \/ UNCHANGED vars => LocksHeld'
  BY DEF TimePasses, vars, LocksHeld, Holds
<1> QED
  BY <1>2, <1>3, <1>4, <1>5, <1>6 DEF Next

\* No lock is left behind: an order's row is locked only by a claim or a transaction
\* in progress, a product's only by one that reserves or returns, or was aborted and
\* is about to roll back.
THEOREM NoLockLeftBehind == Spec => []LocksHeld
<1>1. Init => LocksHeld
  BY DEF Init, LocksHeld
<1> QED
  BY <1>1, StepLocks, Invariance, PTL DEF Spec

\* Who waits, and for what.
LEMMA WaitsFor ==
  ASSUME IInv, NEW t \in Procs, NEW x \in Wants(t)
  PROVE  /\ pc[t] \in {"reserve", "restore"} => x \in Products
         /\ pc[t] = "lock_rows" => x \in OrderIds
         /\ pc[t] \in {"reserve", "restore", "lock_rows", "set_status", "set_paid", "begin_tx", "edit"}
         /\ x \in Rows
<1>1. CASE pc[t] = "reserve"
  <2>1. t \in Requests
    BY <1>1 DEF IInv, Everyone, WorkerAt
  <2>2. ~AllItems(t) /\ x = ItemAt(t).product
    BY <1>1 DEF Wants, Restoring
  <2>3. body[t] \in CreateBody /\ walk[t].done # Len(body[t].items) /\ walk[t].done \in Nat
        /\ walk[t].done <= Len(body[t].items)
    BY <1>1, <2>1, <2>2 DEF AllItems, IInv, TypeOK, Everyone, RequestAt
  <2>4. walk[t].done + 1 \in 1..Len(body[t].items)
    BY <2>3, BasketLength DEF CreateBody
  <2>5. x \in Products
    BY <1>1, <2>1, <2>2, <2>4, ReservedLine DEF ItemAt, IInv
  <2> QED
    BY <1>1, <2>5
<1>2. CASE pc[t] = "restore"
  <2>1. Restoring(t) /\ ~Walked(t) /\ x = NextReturn(t).product
    BY <1>2 DEF Wants
  <2> QED
    BY <1>2, <2>1, ReturnedLine
<1>3. CASE pc[t] = "lock_rows"
  <2>1. t \in Workers
    BY <1>3 DEF IInv, Everyone, RequestAt
  <2>2. x \in cand[t]
    BY <1>3 DEF Wants, Restoring
  <2> QED
    BY <1>3, <2>1, <2>2 DEF IInv, TypeOK
<1>4. CASE pc[t] \notin {"reserve", "restore", "lock_rows"}
  <2>1. \/ pc[t] \in {"set_status", "set_paid", "begin_tx"} /\ x = body[t].order
        \/ pc[t] = "edit" /\ x = body[t].product
    BY <1>4 DEF Wants, Restoring
  <2>2. t \in Requests
    BY <2>1 DEF IInv, Everyone, WorkerAt
  <2>3. RequestAt(t)
    BY <2>2 DEF IInv, Everyone
  <2> QED
    BY <1>4, <2>1, <2>3 DEF RequestAt, Patching, PatchBody, EditBody
<1> QED
  BY <1>1, <1>2, <1>3, <1>4

\* A process others wait for, and that waits itself, is in a transaction; it is
\* past its claims if it is a product they wait for.
LEMMA WaitedFor ==
  ASSUME IInv, LocksHeld, NEW u \in Procs, Wants(u) # {}, NEW x \in Rows, lock[x] = u
  PROVE  /\ pc[u] \in {"reserve", "restore", "lock_rows"}
         /\ x \in Products => pc[u] \in {"reserve", "restore"}
<1>1. Holds(u, x)
  BY Distinct DEF LocksHeld
<1>2. PICK y \in Wants(u) : TRUE
  OBVIOUS
<1>3. pc[u] # "commit_aborted"
  BY <1>2, WaitsFor
<1> QED
  BY <1>1, <1>3, Distinct DEF Holds

\* So a cycle lies on one side: whoever waits for a product waits for transactions
\* that wait for products.
LEMMA CyclesSplit == IInv /\ LocksHeld => DeadlockKinds
<1> SUFFICES ASSUME IInv, LocksHeld, NEW S \in SUBSET Procs, Cycle(S)
             PROVE  \/ \A t \in S : pc[t] = "lock_rows"
                    \/ \A t \in S : pc[t] \in {"reserve", "restore"}
  BY DEF DeadlockKinds
<1>1. S # {} /\ \A t \in S : Wants(t) # {} /\ \A x \in Wants(t) : lock[x] \in S \ {t}
  BY DEF Cycle, Waiting, WaitsIn
<1>2. \A T \in SUBSET S : Waiting(T) => T = S
  BY DEF Cycle
<1>3. ASSUME NEW t \in S, NEW x \in Wants(t)
      PROVE  /\ lock[x] \in S \ {t}
             /\ pc[lock[x]] \in {"reserve", "restore", "lock_rows"}
             /\ x \in Products => pc[lock[x]] \in {"reserve", "restore"}
  <2>1. lock[x] \in S \ {t} /\ x \in Rows
    BY <1>1, WaitsFor
  <2>2. lock[x] \in Procs /\ Wants(lock[x]) # {}
    BY <1>1, <2>1
  <2> QED
    BY <2>1, <2>2, WaitedFor
<1> DEFINE P == {t \in S : pc[t] \in {"reserve", "restore"}}
           L == {t \in S : pc[t] = "lock_rows"}
<1>4. CASE P # {}
  <2>1. ASSUME NEW t \in P, NEW x \in Wants(t) PROVE lock[x] \in P \ {t}
    <3>1. t \in S /\ x \in Products
      BY <2>1, WaitsFor
    <3> QED
      BY <1>3, <3>1
  <2>2. Waiting(P)
    BY <1>1, <1>4, <2>1 DEF Waiting, WaitsIn
  <2>3. P = S
    BY <1>2, <2>2
  <2> QED
    BY <2>3
<1>5. CASE P = {}
  <2>1. ASSUME NEW t \in S, NEW x \in Wants(t) PROVE lock[x] \in L \ {t}
    BY <1>3, <1>5
  <2>2. L # {}
    BY <1>1, <2>1
  <2>3. Waiting(L)
    BY <1>1, <2>1, <2>2 DEF Waiting, WaitsIn
  <2>4. L = S
    BY <1>2, <2>3
  <2> QED
    BY <2>4
<1> QED
  BY <1>4, <1>5

\* Deadlocks are among claims or among transactions that move stock, never mixed: a
\* PATCH that gives nothing back and an edit of a product are never rolled back for one.
THEOREM DeadlocksAreOfOneKind == Spec => []DeadlockKinds
BY CyclesSplit, NoLockLeftBehind, Invariance, PTL

=============================================================================
