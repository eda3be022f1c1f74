---------------------------- MODULE MCSubscriptions ----------------------------
(* Constants of the TLC runs of Subscriptions. *)
EXTENDS Subscriptions, TLC

CONSTANTS n1, n2

AllKinds    == PublicKinds \cup {"legacy_login", "subscription", "update"}

\* A period long over when it is granted, and one that ends later.
SomeEnds    == {-3, 3}
NoLength    == {0}
NoEnd       == {}
Unstated    == {}

Tenant(status, end) == [status |-> status, end |-> end]
All(row) == [n \in Tenants |-> row]

\* A new tenant has no end; the others are in their period, or canceled by the superadmin.
AnyStart == {All(Tenant("active", None)), All(Tenant("active", 2)), All(Tenant("canceled", 1))}

\* Tenants in different phases side by side.
Neighbours ==
  {[n \in Tenants |-> IF n = n1 THEN Tenant("active", 1) ELSE Tenant("pending", e)] : e \in {1, 5}}
  \cup {[n \in Tenants |-> IF n = n1 THEN Tenant("canceled", None) ELSE Tenant("active", None)]}
=============================================================================
