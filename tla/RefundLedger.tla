---------------------------- MODULE RefundLedger ----------------------------
(***************************************************************************)
(* What refunding an order promises, whatever happens on the way: each     *)
(* request claims an amount of one payment that fits into what is left of  *)
(* it, a claim that was refused may be taken up again, and what is paid    *)
(* out of a payment is paid once and never more than was captured of it.   *)
(* Module StoreRefund implements it.                                       *)
(***************************************************************************)
EXTENDS Units

CONSTANTS
    Keys,       \* the idempotency keys of requests
    Payments,   \* the online payments of the order
    Captured,   \* what was captured of each
    NoPayment

VARIABLES
    claim,      \* what each request has claimed
    paidOut     \* what left the order in all

vars == <<claim, paidOut>>

Claim == [state: {"none", "open", "closed", "paid"}, payment: Payments \cup {NoPayment},
          amount: Nat]

\* What the claims in one of the states come to for payment p.
ClaimedIn(states, p) ==
    TotalOf([k \in Keys |-> IF claim[k].state \in states /\ claim[k].payment = p
                            THEN claim[k].amount ELSE 0])

Fits(states, p, amount) == ClaimedIn(states, p) + amount <= Captured[p]

Init ==
    /\ claim = [k \in Keys |-> [state |-> "none", payment |-> NoPayment, amount |-> 0]]
    /\ paidOut = 0

Open(k, p, amount) ==
    /\ claim[k].state = "none" /\ Fits({"open", "paid"}, p, amount)
    /\ claim' = [claim EXCEPT ![k] = [state |-> "open", payment |-> p, amount |-> amount]]
    /\ UNCHANGED paidOut

\* The gateway refused.
Close(k) ==
    /\ claim[k].state = "open"
    /\ claim' = [claim EXCEPT ![k].state = "closed"]
    /\ UNCHANGED paidOut

\* Others may have claimed its room meanwhile.
Reopen(k) ==
    /\ claim[k].state = "closed"
    /\ claim' = [claim EXCEPT ![k].state = "open"]
    /\ UNCHANGED paidOut

Pay(k) ==
    /\ claim[k].state = "open" /\ Fits({"paid"}, claim[k].payment, claim[k].amount)
    /\ claim' = [claim EXCEPT ![k].state = "paid"]
    /\ paidOut' = paidOut + claim[k].amount

Next ==
    \E k \in Keys :
        \/ \E p \in Payments : \E amount \in 1 .. Captured[p] : Open(k, p, amount)
        \/ Close(k)
        \/ Reopen(k)
        \/ Pay(k)

Spec == Init /\ [][Next]_vars

-----------------------------------------------------------------------------
TypeOK == claim \in [Keys -> Claim] /\ paidOut \in Nat

\* No more is paid out of a payment than was captured of it.
WithinCaptured == \A p \in Payments : ClaimedIn({"paid"}, p) <= Captured[p]

\* What left the order is what the paid claims come to: none was paid twice.
PaidOnce ==
    paidOut = TotalOf([k \in Keys |-> IF claim[k].state = "paid" THEN claim[k].amount ELSE 0])
=============================================================================
