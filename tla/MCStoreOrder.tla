---------------------------- MODULE MCStoreOrder ----------------------------
(***************************************************************************)
(* The requests that may be symmetric in the runs of StoreOrder.           *)
(***************************************************************************)
EXTENDS StoreOrder, TLC

Symmetric == Permutations(Links) \cup Permutations(Tabs) \cup Permutations(Staff)
=============================================================================
