------------------------- MODULE MCSettlementRaces -------------------------
(***************************************************************************)
(* The requests that race in each instance of SettlementRaces.             *)
(***************************************************************************)
EXTENDS SettlementRaces

CONSTANTS i1, p1, p2, p3, p4, p5, n1, n2, gw, cash, c1, c2, c3

Create(p, i, amount, account) ==
    [op |-> "create", p |-> p, rows |-> <<<<i, amount>>>>, amount |-> amount, account |-> account]
Update(p, i, amount, account) == [Create(p, i, amount, account) EXCEPT !.op = "update"]
Online(p, i, amount, account) ==
    [op |-> "online", p |-> p, invoice |-> i, amount |-> amount, account |-> account, rows |-> <<>>]
Delete(p) == [op |-> "delete", p |-> p]
Assign(p, account) == [op |-> "assign", p |-> p, account |-> account]
Challan(p) == [op |-> "challan", p |-> p]
MakeNote(n, i, total) == [op |-> "note", note |-> n, invoice |-> i, total |-> total]

\* A payment that exists, of i1, and an advance to a supplier with TDS.
Paid(amount, account) ==
    [p |-> p1, rows |-> <<<<i1, amount>>>>, amount |-> amount, tds |-> 0, account |-> account]
Advance == [p |-> p1, rows |-> <<>>, amount |-> 2, tds |-> 1, account |-> cash]

GatewayToCash == gw :> cash
CashFirst == cash :> 1 @@ gw :> 2

\* Payments of i1 are made, received, changed and deleted at the same time, each
\* payment by one request, or an edited one by two; one of them is untracked and gets an account, and the
\* tax of another is deposited.
BooksBefore == p1 :> Paid(1, gw) @@ p2 :> [Advance EXCEPT !.p = p2] @@
               p3 :> [Paid(1, NoAccount) EXCEPT !.p = p3]
BooksOffers ==
    c1 :> {Update(p1, i1, 2, gw), Update(p1, i1, 1, cash), Delete(p1)} @@
    c2 :> {Create(p4, i1, 2, gw), Create(p4, i1, 1, cash), Assign(p3, cash), Update(p3, i1, 2, gw),
           Delete(p3)} @@
    c3 :> {Create(p5, i1, 1, NoAccount), Online(p5, i1, 2, gw), Challan(p2), Delete(p2)}

\* The same payment is edited twice.
EditOffers ==
    c1 :> {Update(p1, i1, 2, gw), Update(p1, i1, 1, cash)} @@
    c2 :> {Update(p1, i1, 1, NoAccount), Update(p1, i1, 2, cash)} @@
    c3 :> {Create(p5, i1, 1, cash), Online(p5, i1, 2, gw)}

\* The same online payment is delivered twice, while others of its invoice are made.
NothingBefore == [p \in {} |-> Advance]
OnlineOffers ==
    c1 :> {Online(p1, i1, 2, gw)} @@
    c2 :> {Online(p1, i1, 2, gw), Online(p5, i1, 1, gw)} @@
    c3 :> {Create(p4, i1, 1, gw), Create(p4, i1, 2, NoAccount)}

\* Two notes of an invoice, while a payment of it is made.
NotesOffers ==
    c1 :> {MakeNote(n1, i1, 1), MakeNote(n1, i1, 2)} @@
    c2 :> {MakeNote(n2, i1, 1), MakeNote(n2, i1, 2)} @@
    c3 :> {Create(p4, i1, 1, gw), Create(p4, i1, 2, NoAccount)}

AtomicScenarios == {
    [existing |-> BooksBefore, totals |-> {4}, offers |-> BooksOffers],
    [existing |-> BooksBefore, totals |-> {4}, offers |-> EditOffers],
    [existing |-> NothingBefore, totals |-> {2, 3}, offers |-> OnlineOffers],
    [existing |-> NothingBefore, totals |-> {2, 3}, offers |-> NotesOffers]}

-----------------------------------------------------------------------------
(* Pairs of requests that the locks do not keep apart.                     *)

\* A payment deleted while it is deleted or edited, with another on its invoice.
TwoPaid == p1 :> Paid(1, cash) @@ p2 :> [Paid(1, cash) EXCEPT !.p = p2]
DeletedOffers ==
    c1 :> {Delete(p1)} @@ c2 :> {Delete(p1), Update(p1, i1, 2, cash)} @@ c3 :> {}
DeletedScenario ==
    {[existing |-> TwoPaid, totals |-> {3}, offers |-> DeletedOffers]}

\* An untracked payment assigned while it is assigned, edited or deleted.
Untracked == p1 :> Paid(1, NoAccount)
AssignedOffers ==
    c1 :> {Assign(p1, cash)} @@
    c2 :> {Assign(p1, gw), Update(p1, i1, 2, NoAccount), Delete(p1)} @@ c3 :> {}
AssignedScenario ==
    {[existing |-> Untracked, totals |-> {3}, offers |-> AssignedOffers]}

\* The tax of a payment deposited while the payment is edited or deleted.
TaxedBefore == p2 :> [Advance EXCEPT !.p = p2]
ChallanOffers ==
    c1 :> {Challan(p2)} @@ c2 :> {Update(p2, i1, 2, cash), Delete(p2)} @@ c3 :> {}
ChallanScenario ==
    {[existing |-> TaxedBefore, totals |-> {3}, offers |-> ChallanOffers]}

\* A note made while a payment of its invoice is edited or deleted.
NotedOffers ==
    c1 :> {Update(p1, i1, 2, cash), Delete(p1)} @@
    c2 :> {MakeNote(n1, i1, 1), MakeNote(n1, i1, 2)} @@ c3 :> {}
NotedScenario ==
    {[existing |-> Untracked, totals |-> {2, 3}, offers |-> NotedOffers]}

\* A note made while its invoice is paid online.
OnlineNotedOffers ==
    c1 :> {Online(p1, i1, 2, gw)} @@ c2 :> {MakeNote(n1, i1, 1)} @@ c3 :> {}
OnlineNotedScenario ==
    {[existing |-> NothingBefore, totals |-> {2}, offers |-> OnlineNotedOffers]}
=============================================================================
