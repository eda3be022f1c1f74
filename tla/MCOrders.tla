------------------------------ MODULE MCOrders ------------------------------
(* Constants of the TLC runs of Orders. *)
EXTENDS Orders, TLC

CONSTANTS p1, p2

Some(p, n) == [product |-> p, qty |-> n]
OneOf(p) == Some(p, 1)
Tracked(s) == [status |-> "active", track |-> TRUE, stock |-> s]

\* Two products with stock for a small and a large order but not for two large ones, or
\* for any two, one of them perhaps untracked; baskets that lock them in either order.
TwoProducts == {(p1 :> Tracked(3)) @@ (p2 :> Tracked(2))}
SmallOrLarge == {<<OneOf(p1)>>, <<OneOf(p2), Some(p1, 2)>>}
MixedStock  == {(p1 :> Tracked(2)) @@ (p2 :> Tracked(2)),
                (p1 :> Tracked(2)) @@ (p2 :> [status |-> "active", track |-> FALSE, stock |-> 0])}
CrossedBaskets == {<<OneOf(p1)>>, <<OneOf(p1), OneOf(p2)>>, <<OneOf(p2), OneOf(p1)>>}

\* One product that two orders may share.
OneProduct == {p1 :> Tracked(3)}
SameProduct == {<<OneOf(p1)>>, <<Some(p1, 2)>>}

Symmetry == Permutations(Requests) \cup Permutations(Workers) \cup Permutations(OrderIds)
=============================================================================
