------------------------------- MODULE MCBilling -------------------------------
(* Billing on small instances. *)
EXTENDS Billing, TLC
=============================================================================
