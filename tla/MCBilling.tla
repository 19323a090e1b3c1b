----------------------------- MODULE MCBilling ------------------------------
(* A product with a tier of its own. *)
EXTENDS Billing

CONSTANTS pro, slug

Tiers == [p \in {pro} |-> slug]
=============================================================================
