------------------------- MODULE MCRecurringInvoices -------------------------
(* RecurringInvoices on small instances. *)
EXTENDS RecurringInvoices

CONSTANTS t1, s1, s2, u1
=============================================================================
