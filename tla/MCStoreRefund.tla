---------------------------- MODULE MCStoreRefund ----------------------------
(* StoreRefund on small instances. *)
EXTENDS StoreRefund, TLC

CONSTANTS p1, p2, k1, k2, w1, w2

OnePayment == p1 :> 2
TwoPayments == p1 :> 2 @@ p2 :> 1
=============================================================================
