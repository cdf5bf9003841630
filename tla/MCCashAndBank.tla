---------------------------- MODULE MCCashAndBank ----------------------------
(***************************************************************************)
(* What a cfg of CashAndBank cannot write: the accounts that may be        *)
(* interchanged, and a bound.                                              *)
(***************************************************************************)
EXTENDS CashAndBank, TLC

CONSTANTS cash, bank

Symmetric == Permutations({cash, bank})

\* Bound: transactions by hand are made beside payments, not beside expenses.
HandOrExpense ==
    (\E e \in Entries : rows[e] # {}) => \A x \in Expenses : expense[x].state = "none"
=============================================================================
