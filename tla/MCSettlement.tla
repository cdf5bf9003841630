---------------------------- MODULE MCSettlement ----------------------------
(* Settlement on small instances: the constants that a cfg cannot write.    *)
EXTENDS Settlement, TLC

CONSTANTS i1, i2, p1, p2, p3, n1, n2, gw, cash

NoGateway == <<>>
GatewayToCash == gw :> cash

\* Invoices and payments of the same kind are interchangeable.
Symmetry == Permutations({i1, i2}) \cup Permutations({p1, p2}) \cup Permutations({n1, n2})

\* Bound of settle_books: notes are made where nothing has happened to the other
\* invoice and no discount was given.
NotesOfOneInvoice ==
    (\E n \in Notes : note[n].state # "none") =>
        /\ \E i \in Invoices : \A j \in Invoices \ {i} :
              /\ invoice[j] = [total |-> 2, paid |-> 0, status |-> "draft", deleted |-> FALSE]
              /\ \A n \in Notes : note[n].ref # j
        /\ \A p \in Payments : payment[p].discount = 0
=============================================================================
