------------------------------ MODULE MCBilling ------------------------------
(* Small instances of Billing. *)
EXTENDS Billing

CONSTANTS s1, s2, p1, p2
=============================================================================
