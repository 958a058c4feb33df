----------------------------- MODULE MCBilling ------------------------------
(* Instances of Billing for TLC. *)
EXTENDS Billing, TLC

Same == Permutations(Orders) \union Permutations(Flushes)
=============================================================================
