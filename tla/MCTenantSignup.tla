---------------------------- MODULE MCTenantSignup ----------------------------
(* Constants of the TLC runs of TenantSignup. *)
EXTENDS TenantSignup, TLC

CONSTANTS shop, shop2, shop3, shop22

\* "shop" is asked for, and so is "shop-2", which the second attempt at "shop" tries.
Asked == {shop, shop2}
Candidates == (shop :> <<shop, shop2, shop3>>) @@ (shop2 :> <<shop2, shop22, shop3>>)
=============================================================================
