----------------------------- MODULE CashAndBank -----------------------------
(***************************************************************************)
(* Cash and bank accounts (routers/bankAccount.ts), the expenses paid from *)
(* them (routers/expense.ts, routers/bankRecon.ts), and what payments that *)
(* come in through a gateway post on them (lib/gateway.ts): the money, a   *)
(* charge, which is an expense of its own, and the transfer of the rest.   *)
(*                                                                         *)
(* A handler is one transaction that locks the rows it changes, and one    *)
(* action; only the deletion of an account looks and acts in two.          *)
(***************************************************************************)
EXTENDS Units

CONSTANTS
    Accounts,    \* bank_accounts
    Gateways,    \* those of type payment_gateway
    Opened,      \* those that exist at the start
    Expenses,    \* expenses that users enter
    Payments,    \* payments of customers; the charge of one goes by its name
    Entries,     \* transactions and transfers made by hand
    Amounts, Taxes, Fees, Openings,
    NoAccount,
    Uses         \* which of the following happen

KnownUses == {
    "editCharge",    \* expense.update of a gateway's charge
    "deleteCharge",  \* expense.delete of one
    "editDeleted",   \* expense.update of an expense that was deleted
    "taxOnLine",     \* an expense with TDS made from a line of a bank statement
    "deleteInUse",   \* something is posted to an account while it is deleted
    "handReference"} \* a transaction by hand refers to an expense or a payment

ASSUME BankAssumption ==
    /\ Gateways \subseteq Accounts /\ Opened \subseteq Accounts /\ NoAccount \notin Accounts
    /\ IsFiniteSet(Expenses) /\ IsFiniteSet(Payments) /\ IsFiniteSet(Entries)
    /\ Expenses \cap Payments = {} /\ Entries \cap (Expenses \cup Payments) = {}
    /\ Amounts \subseteq Nat \ {0} /\ Taxes \subseteq Nat /\ Fees \subseteq Nat
    /\ Openings \subseteq Nat
    /\ Uses \subseteq KnownUses

VARIABLES
    account,   \* bank_accounts
    config,    \* payment_gateway_configs
    expense,   \* expenses: what users enter, and the charge of each payment
    payment,   \* payments
    rows,      \* bank_transactions, by what they were made for
    deleting   \* accounts whose deletion has counted their transactions

vars == <<account, config, expense, payment, rows, deleting>>

Spent == Expenses \cup Payments
Open == {a \in Accounts : account[a].state = "open"}

AccountRow == [state: {"none", "open", "deleted"}, opening: Nat, balance: Int]
Config == [on: BOOLEAN, settles: BOOLEAN, fee: Fees \cup {0}, into: Accounts \cup {NoAccount}]
ExpenseRow == [state: {"none", "live", "deleted"}, amount: Nat, tax: Nat,
               deducted: {"none", "due", "deposited"}, pin: Accounts \cup {NoAccount}]
PaymentRow == [state: {"none", "live", "deleted"}, amount: Nat, account: Accounts \cup {NoAccount}]
Row == [ref: {"payment", "gateway_charge", "gateway_settlement", "expense", "transfer", "other"},
        account: Accounts, amount: Int \ {0}]

NoConfig == [on |-> FALSE, settles |-> FALSE, fee |-> 0, into |-> NoAccount]
NoExpense == [state |-> "none", amount |-> 0, tax |-> 0, deducted |-> "none", pin |-> NoAccount]

TypeOK ==
    /\ account \in [Accounts -> AccountRow]
    /\ config \in [Gateways -> Config]
    /\ expense \in [Spent -> ExpenseRow]
    /\ payment \in [Payments -> PaymentRow]
    /\ rows \in [Spent \cup Entries -> SUBSET Row]
    /\ \A x \in Spent \cup Entries : IsFiniteSet(rows[x])
    /\ deleting \subseteq Open

Init ==
    /\ account = [a \in Accounts |-> [state |-> IF a \in Opened THEN "open" ELSE "none",
                                      opening |-> 0, balance |-> 0]]
    /\ config = [g \in Gateways |-> NoConfig]
    /\ expense = [x \in Spent |-> NoExpense]
    /\ payment = [p \in Payments |-> [state |-> "none", amount |-> 0, account |-> NoAccount]]
    /\ rows = [x \in Spent \cup Entries |-> {}]
    /\ deleting = {}

-----------------------------------------------------------------------------
(* Bank transactions, and the balances they move.                          *)

\* What the transactions of a set bring to account a, take from it, and leave.
Brought(set, a) == TotalOf([r \in {x \in set : x.account = a /\ x.amount > 0} |-> r.amount])
Gone(set, a)    == TotalOf([r \in {x \in set : x.account = a /\ x.amount < 0} |-> -r.amount])
Moved(set, a)   == Brought(set, a) - Gone(set, a)

Withdrawal(ref, a, amount) ==
    IF a = NoAccount THEN {} ELSE {[ref |-> ref, account |-> a, amount |-> -amount]}
DepositIn(ref, a, amount) ==
    IF a = NoAccount THEN {} ELSE {[ref |-> ref, account |-> a, amount |-> amount]}

\* Of the transactions of x those that are gone are deleted and new ones posted; the
\* balances move by what is taken back and by the new ones.
Rebook(x, gone, back, new) ==
    /\ rows' = [rows EXCEPT ![x] = (@ \ gone) \cup new]
    /\ account' = [a \in Accounts |->
                      [account[a] EXCEPT !.balance = @ - Moved(back, a) + Moved(new, a)]]

\* The transactions of x, old ones taken back and new ones posted, each with its
\* account's balance.
Repost(x, old, new) == Rebook(x, old, old, new)

\* A select with limit 1: any one, if there is one.
AnyOne(set) == IF set = {} THEN {{}} ELSE {{r} : r \in set}

-----------------------------------------------------------------------------
(* Accounts (routers/bankAccount.ts).                                      *)

CreateAccount(a, opening) ==
    /\ account[a].state = "none"
    /\ account' = [account EXCEPT ![a] =
           [state |-> "open", opening |-> opening, balance |-> opening]]
    /\ UNCHANGED <<config, expense, payment, rows, deleting>>

\* A mistake for a run to find: the balance stays when the opening balance moves.
BalanceKept(a, opening) == account[a].balance

BalanceFrom(a, opening) == account[a].balance + (opening - account[a].opening)

SetOpening(a, opening) ==
    /\ a \in Open
    /\ account' = [account EXCEPT ![a].opening = opening, ![a].balance = BalanceFrom(a, opening)]
    /\ UNCHANGED <<config, expense, payment, rows, deleting>>

\* What a transaction made by hand may refer to x as: a type and an id, of which
\* createBankTransactionSchema asks nothing.
References(x) ==
    IF x \in Entries THEN {"other"}
    ELSE {ref \in {"expense", "payment"} :
             /\ "handReference" \in Uses
             /\ ref = "expense" => expense[x].state # "none"
             /\ ref = "payment" => x \in Payments /\ payment[x].state # "none"}

\* Bounds: money goes out for an expense, and comes in for a payment; none is
\* made that equals one there is.
AddTransaction(x, a, amount) ==
    /\ a \in Open /\ (x \in Entries => rows[x] = {})
    /\ \E ref \in References(x) :
          LET in == DepositIn(ref, a, amount)  out == Withdrawal(ref, a, amount)
          IN  \/ ref # "expense" /\ in \cap rows[x] = {} /\ Repost(x, {}, in)
              \/ ref # "payment" /\ out \cap rows[x] = {} /\ Repost(x, {}, out)
    /\ UNCHANGED <<config, expense, payment, deleting>>

Transfer(e, from, to, amount) ==
    /\ rows[e] = {} /\ {from, to} \subseteq Open /\ from # to
    /\ Repost(e, {}, Withdrawal("transfer", from, amount) \cup DepositIn("transfer", to, amount))
    /\ UNCHANGED <<config, expense, payment, deleting>>

\* The account has no transactions: it can be deleted.
CountRows(a) ==
    /\ a \in Open /\ \A x \in DOMAIN rows : \A r \in rows[x] : r.account # a
    /\ deleting' = deleting \cup {a}
    /\ UNCHANGED <<account, config, expense, payment, rows>>

\* Refused while an expense is pinned to it or a gateway settles into it; what
\* was posted since goes with it, and the configuration of a gateway.
DeleteAccount(a) ==
    LET referred == \/ \E x \in Spent : expense[x].pin = a
                    \/ \E g \in Gateways : config[g].into = a
        inUse    == \E x \in DOMAIN rows : \E r \in rows[x] : r.account = a
    IN  /\ a \in deleting
        /\ deleting' = deleting \ {a}
        /\ IF referred \/ (inUse /\ "deleteInUse" \notin Uses)
           THEN UNCHANGED <<account, config, rows>>
           ELSE /\ account' = [account EXCEPT ![a].state = "deleted"]
                /\ rows' = [x \in DOMAIN rows |-> {r \in rows[x] : r.account # a}]
                /\ config' = [g \in Gateways |-> IF g = a THEN NoConfig ELSE config[g]]
        /\ UNCHANGED <<expense, payment>>

\* upsertGatewayConfig, which names the account to settle into, even when payments
\* are not settled at once; deleteGatewayConfig.
SetConfig(g, fee, into, settles) ==
    /\ g \in Open /\ into \in Open \ Gateways
    /\ config' = [config EXCEPT ![g] =
           [on |-> TRUE, settles |-> settles, fee |-> fee, into |-> into]]
    /\ UNCHANGED <<account, expense, payment, rows, deleting>>

DropConfig(g) ==
    /\ config[g].on
    /\ config' = [config EXCEPT ![g] = NoConfig]
    /\ UNCHANGED <<account, expense, payment, rows, deleting>>

-----------------------------------------------------------------------------
(* Expenses (routers/expense.ts).                                          *)

\* The account that an expense is paid from: the one it names, which it is then
\* pinned to, or one of the kind its mode asks for, if there is one.
ByMode == (Open \ Gateways) \cup {NoAccount}

\* assertExpenseTdsInput, syncExpenseTds.
ValidTax(amount, tax) == tax < amount
Deduction(tax) == IF tax > 0 THEN "due" ELSE "none"
NotDeposited(x) == expense[x].deducted # "deposited"

CreateExpense(x, a, pin, amount, tax) ==
    /\ expense[x].state = "none" /\ ValidTax(amount, tax)
    /\ expense' = [expense EXCEPT ![x] = [state |-> "live", amount |-> amount, tax |-> tax,
                                          deducted |-> Deduction(tax), pin |-> pin]]
    /\ Repost(x, {}, Withdrawal("expense", a, amount - tax))
    /\ UNCHANGED <<config, payment, deleting>>

\* bankRecon.createExpense: on the account of the statement, and in full.
ExpenseFromLine(x, a, amount, tax) ==
    /\ expense[x].state = "none"
    /\ tax > 0 => "taxOnLine" \in Uses
    /\ expense' = [expense EXCEPT ![x] = [state |-> "live", amount |-> amount, tax |-> tax,
                                          deducted |-> "none", pin |-> a]]
    /\ Repost(x, {}, Withdrawal("expense", a, amount))
    /\ UNCHANGED <<config, payment, deleting>>

\* The withdrawals that an edit or a deletion of expense x looks for, to take one back.
OwnWithdrawal(x) == {r \in rows[x] : r.ref = "expense"}

\* Pinned anew, kept where it is pinned, or found by its mode.
EditExpense(x, a, pin, amount, tax) ==
    LET live == expense[x].state = "live"
    IN  /\ live \/ (expense[x].state = "deleted" /\ "editDeleted" \in Uses)
        /\ x \in Payments => "editCharge" \in Uses
        /\ NotDeposited(x) /\ ValidTax(amount, tax)
        /\ expense' = [expense EXCEPT ![x] = [@ EXCEPT
               !.amount = amount, !.tax = tax, !.pin = pin,
               !.deducted = IF live THEN Deduction(tax) ELSE "none"]]
        /\ \E old \in AnyOne(OwnWithdrawal(x)) :
              Repost(x, old, Withdrawal("expense", a, amount - tax))
        /\ UNCHANGED <<config, payment, deleting>>

DeleteExpense(x) ==
    /\ expense[x].state = "live" /\ NotDeposited(x)
    /\ x \in Payments => "deleteCharge" \in Uses
    /\ expense' = [expense EXCEPT ![x].state = "deleted", ![x].deducted = "none"]
    /\ \E old \in AnyOne(OwnWithdrawal(x)) : Repost(x, old, {})
    /\ UNCHANGED <<config, payment, deleting>>

\* tds.createChallan and tds.deleteChallan.
DepositTax(x) ==
    /\ expense[x].deducted = "due"
    /\ expense' = [expense EXCEPT ![x].deducted = "deposited"]
    /\ UNCHANGED <<account, config, payment, rows, deleting>>

RemoveChallan(x) ==
    /\ expense[x].deducted = "deposited"
    /\ expense' = [expense EXCEPT ![x].deducted = "due"]
    /\ UNCHANGED <<account, config, payment, rows, deleting>>

-----------------------------------------------------------------------------
(* Payments through an account (routers/payment.ts, lib/gateway.ts).       *)

\* calculateGatewayCharge, by the configuration that is in force.
ChargeOn(a, amount) ==
    IF a \in Gateways /\ config[a].on THEN Lesser(config[a].fee, amount) ELSE 0

\* A mistake for a run to find: also what comes to nothing is posted.
AlsoNothing(set) == set

SomethingOf(set) == {r \in set : r.amount # 0}

\* The money, and processGatewayPayment.
Incoming(a, amount) ==
    LET charge == ChargeOn(a, amount)
        net    == amount - charge
    IN  SomethingOf(DepositIn("payment", a, amount) \cup
                    (IF a \in Gateways /\ config[a].on
                     THEN Withdrawal("gateway_charge", a, charge) \cup
                          (IF config[a].settles
                           THEN Withdrawal("gateway_settlement", a, net) \cup
                                DepositIn("gateway_settlement", config[a].into, net)
                           ELSE {})
                     ELSE {}))

\* The expense that the charge of a payment is booked as.
ChargeBooked(a, amount) ==
    IF ChargeOn(a, amount) = 0 THEN NoExpense
    ELSE [state |-> "live", amount |-> ChargeOn(a, amount), tax |-> 0, deducted |-> "none",
          pin |-> a]

Receive(p, a, amount) ==
    /\ payment[p].state = "none"
    /\ payment' = [payment EXCEPT ![p] = [state |-> "live", amount |-> amount, account |-> a]]
    /\ expense' = [expense EXCEPT ![p] = ChargeBooked(a, amount)]
    /\ Repost(p, {}, Incoming(a, amount))
    /\ UNCHANGED <<config, deleting>>

\* A mistake for a run to find: a reversal looks at the configuration that is in
\* force, and not at what was posted.
ReversibleNow(p) ==
    LET a == payment[p].account
    IN  {r \in rows[p] : \/ r.ref = "payment"
                         \/ r.ref \in {"gateway_charge", "gateway_settlement"}
                            /\ a \in Gateways /\ config[a].on}

\* reverseGatewayPayment, and the payment's own transaction.
Reversible(p) ==
    {r \in rows[p] : \/ r.ref = "payment" /\ payment[p].account # NoAccount
                     \/ r.ref \in {"gateway_charge", "gateway_settlement"}}

\* What the balances take back for them: the amount of any one of its own, on the
\* account that the payment names.
TakenBack(p) ==
    LET own == {r \in Reversible(p) : r.ref = "payment"}
    IN  {(Reversible(p) \ own) \cup {[r EXCEPT !.account = payment[p].account] : r \in one} :
            one \in AnyOne(own)}

\* The charges that are undone with a payment are deleted as expenses.
ChargeDeleted(p) ==
    IF \E r \in rows[p] : r.ref = "gateway_charge"
    THEN [expense[p] EXCEPT !.state = "deleted"] ELSE expense[p]

\* An edited payment has a charge of its own, or only the deleted one it had.
EditPayment(p, a, amount) ==
    /\ payment[p].state = "live"
    /\ payment' = [payment EXCEPT ![p] = [@ EXCEPT !.amount = amount, !.account = a]]
    /\ expense' = [expense EXCEPT ![p] =
           IF ChargeOn(a, amount) > 0 THEN ChargeBooked(a, amount) ELSE ChargeDeleted(p)]
    /\ \E back \in TakenBack(p) : Rebook(p, Reversible(p), back, Incoming(a, amount))
    /\ UNCHANGED <<config, deleting>>

DeletePayment(p) ==
    /\ payment[p].state = "live"
    /\ payment' = [payment EXCEPT ![p].state = "deleted"]
    /\ expense' = [expense EXCEPT ![p] = ChargeDeleted(p)]
    /\ \E back \in TakenBack(p) : Rebook(p, Reversible(p), back, {})
    /\ UNCHANGED <<config, deleting>>

-----------------------------------------------------------------------------
AccountNext ==
    \/ \E a \in Accounts : \/ \E opening \in Openings : CreateAccount(a, opening) \/ SetOpening(a, opening)
                           \/ CountRows(a) \/ DeleteAccount(a)
    \/ \E a \in Accounts, amount \in Amounts :
          \/ \E x \in Spent \cup Entries : AddTransaction(x, a, amount)
          \/ \E e \in Entries, to \in Accounts : Transfer(e, a, to, amount)
    \/ \E g \in Gateways : \/ DropConfig(g)
                           \/ \E fee \in Fees, into \in Accounts, settles \in BOOLEAN :
                                 SetConfig(g, fee, into, settles)

ExpenseNext ==
    \E x \in Spent :
       \/ \E amount \in Amounts, tax \in Taxes :
             \/ x \in Expenses /\ \E a \in Open : \/ CreateExpense(x, a, a, amount, tax)
                                                  \/ ExpenseFromLine(x, a, amount, tax)
             \/ x \in Expenses /\ \E a \in ByMode : CreateExpense(x, a, NoAccount, amount, tax)
             \/ \E a \in Open : EditExpense(x, a, a, amount, tax)
             \/ \E a \in ByMode : EditExpense(x, a, NoAccount, amount, tax)
       \/ DeleteExpense(x) \/ DepositTax(x) \/ RemoveChallan(x)

PaymentNext ==
    \E p \in Payments :
       \/ \E a \in Open \cup {NoAccount}, amount \in Amounts :
             Receive(p, a, amount) \/ EditPayment(p, a, amount)
       \/ DeletePayment(p)

Next == AccountNext \/ ExpenseNext \/ PaymentNext

Spec == Init /\ [][Next]_vars

-----------------------------------------------------------------------------
\* bank-posting of expenses: a live expense, the charge of a gateway included, has
\* at most one withdrawal, net of its TDS and on the account it is pinned to; a
\* deleted one has none.
ExpensesPosted ==
    \A x \in Spent :
        LET paid == {r \in rows[x] : r.ref \in {"expense", "gateway_charge"}}
            row  == expense[x]
        IN  IF row.state # "live" THEN paid = {}
            ELSE /\ \A r, s \in paid : r = s
                 /\ \A r \in paid : /\ r.amount = row.tax - row.amount
                                    /\ row.pin # NoAccount => r.account = row.pin
                 /\ row.pin # NoAccount => paid # {}

\* What a live payment brought is on the accounts in full, but for the charge that is
\* booked as its expense, and a gateway keeps none of it once it settled; nothing is
\* left of a deleted payment.
PaymentsPosted ==
    \A p \in Payments :
        LET row    == payment[p]
            on     == {r.account : r \in rows[p]}
            charge == IF expense[p].state = "live" THEN expense[p].amount ELSE 0
            Left(a) == Moved(rows[p], a)
        IN  IF row.state # "live" \/ row.account = NoAccount
            THEN rows[p] = {} /\ charge = 0
            ELSE \/ on = {row.account} /\ Left(row.account) = row.amount - charge
                 \/ \E a \in on : /\ on = {row.account, a} /\ a # row.account
                                  /\ Left(a) = row.amount - charge /\ Left(row.account) = 0

\* Each expense and payment is posted once, as the data audit has it, while expenses
\* that users enter and payments are edited and deleted, however the gateway is
\* configured by then: an undoing goes by what was posted (reverseGatewayPayment,
\* expense.update). Not so once a gateway's charge is edited or deleted as an expense, a
\* deleted expense edited, one with TDS made from a line of a statement, an account
\* deleted while it is posted to, or a payment or an expense referred to by hand: Uses.
PostedOnce == ExpensesPosted /\ PaymentsPosted

\* balance-reconciles: the balance of an account is its opening balance, moved or not,
\* and all its transactions, of whatever handler.
BalanceReconciles ==
    \A a \in Open :
        account[a].balance = account[a].opening
            + TotalOf([x \in DOMAIN rows |-> Brought(rows[x], a)])
            - TotalOf([x \in DOMAIN rows |-> Gone(rows[x], a)])
=============================================================================
