---------------------------- MODULE OrderLedger -----------------------------
(***************************************************************************)
(* What the order flow promises its callers: every operation takes effect  *)
(* at once.  An order is placed only while all its products are on sale    *)
(* and in stock; a batch of unpaid pending orders expires together with    *)
(* the return of all its units; a cancellation by an admin and the return  *)
(* of its units are one step.  There are no transactions, locks or         *)
(* requests in progress here: Orders implements this.                      *)
(***************************************************************************)
EXTENDS Integers, Sequences, Functions

CONSTANTS Products, OrderIds, Baskets, NewStatuses, StockLevels, InitProducts, None

VARIABLES product,    \* product rows
          order,      \* order rows, None when absent
          untracked   \* products whose inventory has at some time not been tracked

vars == <<product, order, untracked>>

Init ==
  /\ product \in InitProducts
  /\ order = [o \in OrderIds |-> None]
  /\ untracked = {p \in Products : ~product[p].track}

\* Units of product p in an order's items; a product has at most one line.
Units(items, p) ==
  SumFunction([i \in DOMAIN items |-> IF items[i].product = p THEN items[i].qty ELSE 0])

AddStock(change) == [p \in Products |-> [product[p] EXCEPT !.stock = @ + change[p]]]

\* An order is placed: all of it or nothing, never beyond the stock.
Place(o, items) ==
  /\ order[o] = None
  /\ \A i \in DOMAIN items :
       /\ product[items[i].product].status = "active"
       /\ product[items[i].product].track => product[items[i].product].stock >= items[i].qty
  /\ order' = [order EXCEPT ![o] = [status |-> "pending", paid |-> FALSE, items |-> items]]
  /\ product' = AddStock([p \in Products |-> IF product[p].track THEN -Units(items, p) ELSE 0])
  /\ UNCHANGED untracked

\* The units of the orders S go back into stock.  An untracked product gets none,
\* and one that is tracked again may have been passed over while it was not.
GiveBack(S) ==
  \E passed \in SUBSET (S \X untracked) :
    /\ \A o \in S, p \in untracked : ~product[p].track => <<o, p>> \in passed
    /\ product' = AddStock([p \in Products |->
         SumFunction([o \in {x \in S : <<x, p>> \notin passed} |-> Units(order[o].items, p)])])
    /\ UNCHANGED untracked

\* A PATCH that gives nothing back changes the status, the paid flag or both.
Revise(o) ==
  /\ order[o] # None
  /\ \E s \in NewStatuses \cup {order[o].status}, paid \in BOOLEAN :
       order' = [order EXCEPT ![o].status = s, ![o].paid = paid]
  /\ UNCHANGED <<product, untracked>>

\* An admin's cancellation and the return of the units are one step.
Cancel(o) ==
  /\ order[o] # None
  /\ \E paid \in BOOLEAN :
       order' = [order EXCEPT ![o].status = "cancelled", ![o].paid = paid]
  /\ GiveBack({o})

\* So are the expiry of a batch of orders and the return of all their units.
Expire(S) ==
  /\ \A o \in S : order[o] # None /\ order[o].status = "pending" /\ ~order[o].paid
  /\ order' = [o \in OrderIds |->
               IF o \in S THEN [order[o] EXCEPT !.status = "expired"] ELSE order[o]]
  /\ GiveBack(S)

\* An admin rewrites a product row.
Edit(p) ==
  /\ \E s \in {"active", "inactive", "deleted"}, track \in BOOLEAN,
        stock \in StockLevels \cup {product[p].stock} :
       /\ product' = [product EXCEPT ![p] = [status |-> s, track |-> track, stock |-> stock]]
       /\ untracked' = IF track THEN untracked ELSE untracked \cup {p}
  /\ UNCHANGED order

Next ==
  \/ \E o \in OrderIds, items \in Baskets : Place(o, items)
  \/ \E o \in OrderIds : Revise(o) \/ Cancel(o)
  \/ \E S \in SUBSET OrderIds : S # {} /\ Expire(S)
  \/ \E p \in Products : Edit(p)

Spec == Init /\ [][Next]_vars

=============================================================================
