---------------------------- MODULE Settlement ----------------------------
(***************************************************************************)
(* Settling invoices: payments, the allocation rows that spread a payment  *)
(* over invoices, credit notes and returns, and what each payment posts to *)
(* the bank accounts.                                                      *)
(*                                                                         *)
(* Every action is one handler run to its commit.  The handlers run alone  *)
(* here; module SettlementRaces takes the same handlers apart into their   *)
(* statements and interleaves them.                                        *)
(*                                                                         *)
(* Money is a natural number of units (the code's 0.01 tolerance is below  *)
(* a unit).  The statuses "sent", "overdue" and "unfulfilled" differ only  *)
(* by the clock and by stock, and are one status here, "open", as they are *)
(* for the data audit (lib/data-audit/rules/documents.ts).                 *)
(***************************************************************************)
EXTENDS Units

CONSTANTS
    Invoices,       \* sale and purchase invoices
    Purchases,      \* those of Invoices that are purchase bills
    Payments,       \* identities a payment can be created with
    SupplierPaid,   \* those of Payments whose party is a supplier
    Notes,          \* credit notes and returns that can be made
    Accounts,       \* bank and cash accounts
    Gateways,       \* those of Accounts that are payment gateways
    SettlesInto,    \* the account each gateway settles into
    Fee,            \* what a gateway keeps of a payment
    Amounts,        \* amounts a client can send
    Discounts,      \* settlement discounts a client can send
    TaxAmounts,     \* amounts of TDS a client can send
    Totals,         \* totals an invoice can have
    NoInvoice, NoAccount,
    Uses            \* which of the unusual calls below clients make

\* Calls the API accepts that the web app does not make, or that only an
\* unlucky order of events produces.  A run names the ones it allows.
UnusualCalls == {
    "editDeleted",       \* payment.update of a payment that was deleted
    "statusByHand",      \* invoice.updateStatus to a status the rows do not make
    "assignWithheld",    \* payment.assignAccount of a payment with TDS
    "onlineWhenSettled"} \* an online payment of an invoice with nothing left to pay

ASSUME InvoicesAssumption == IsFiniteSet(Invoices) /\ Purchases \subseteq Invoices
ASSUME PaymentsAssumption == IsFiniteSet(Payments) /\ SupplierPaid \subseteq Payments
ASSUME NotesAssumption    == IsFiniteSet(Notes)
ASSUME AmountsAssumption  == /\ Amounts \subseteq Nat \ {0}
                             /\ Totals \subseteq Nat \ {0}
                             /\ Discounts \subseteq Nat /\ 0 \in Discounts
                             /\ TaxAmounts \subseteq Nat /\ 0 \in TaxAmounts
                             /\ Fee \in Nat
ASSUME AccountsAssumption == /\ Gateways \subseteq Accounts
                             /\ SettlesInto \in [Gateways -> Accounts \ Gateways]
ASSUME NoneAssumption     == NoInvoice \notin Invoices /\ NoAccount \notin Accounts
ASSUME UsesAssumption     == Uses \subseteq UnusualCalls

VARIABLES
    invoice,    \* invoices rows of type "invoice"
    payment,    \* payments rows
    alloc,      \* payment_allocations: what payment p allocates to invoice i
    note,       \* invoices rows that are credit notes or returns
    posting,    \* bank_transactions made for each payment
    balance     \* bank_accounts.current_balance

vars == <<invoice, payment, alloc, note, posting, balance>>

-----------------------------------------------------------------------------
InvoiceStatus == {"draft", "open", "partial", "paid", "adjusted", "cancelled"}

InvoiceRow == [total: Nat \ {0}, paid: Nat, status: InvoiceStatus, deleted: BOOLEAN]

PaymentRow == [state: {"none", "live", "deleted"},
               primary: Invoices \cup {NoInvoice},   \* payments.invoice_id
               amount: Nat, discount: Nat, tds: Nat,
               \* the tax_deductions row of the payment
               tax: {"none", "receivable", "payable", "deposited"},
               account: Accounts \cup {NoAccount}]

NoteRow == [state: {"none", "live", "cancelled", "deleted"},
            ref: Invoices \cup {NoInvoice}, total: Nat]

Posting == [ref: {"payment", "gateway_charge", "gateway_settlement"},
            account: Accounts, amount: Int]

Allocation == [Invoices -> Nat]

\* The allocations that a request can ask for.
Requests == [Invoices -> Amounts \cup {0}]

NothingTo == [i \in Invoices |-> 0]
Support(rows) == {i \in Invoices : rows[i] > 0}

TypeOK ==
    /\ invoice \in [Invoices -> InvoiceRow]
    /\ payment \in [Payments -> PaymentRow]
    /\ alloc \in [Payments -> Allocation]
    /\ note \in [Notes -> NoteRow]
    /\ posting \in [Payments -> SUBSET Posting]
    /\ \A p \in Payments : IsFiniteSet(posting[p])
    /\ balance \in [Accounts -> Int]

Init ==
    /\ invoice \in [Invoices -> [total: Totals, paid: {0}, status: {"draft", "open"},
                                 deleted: {FALSE}]]
    /\ payment = [p \in Payments |->
                    [state |-> "none", primary |-> NoInvoice, amount |-> 0, discount |-> 0,
                     tds |-> 0, tax |-> "none", account |-> NoAccount]]
    /\ alloc = [p \in Payments |-> NothingTo]
    /\ note = [n \in Notes |-> [state |-> "none", ref |-> NoInvoice, total |-> 0]]
    /\ posting = [p \in Payments |-> {}]
    /\ balance = [a \in Accounts |-> 0]

-----------------------------------------------------------------------------
(* The status of an invoice (lib/invoice-status.ts).                       *)

\* What the live notes and returns against i add up to.
AdjustedBy(notes, i) ==
    TotalOf([n \in Notes |-> IF notes[n].state = "live" /\ notes[n].ref = i
                             THEN notes[n].total ELSE 0])

SettledStatus(total, paid, adjusted) ==
    IF adjusted > 0 /\ adjusted >= total THEN "adjusted"
    ELSE IF paid + adjusted > 0 /\ paid + adjusted >= total THEN "paid"
    ELSE IF paid > 0 THEN "partial"
    ELSE "open"

\* recomputeInvoiceStatus: deleted and cancelled invoices are left alone, a
\* draft moves on only when a payment settles some of it.
Recomputed(row, adjusted, promoteDraft) ==
    IF \/ row.deleted
       \/ row.status = "cancelled"
       \/ row.status = "draft" /\ ~(promoteDraft /\ row.paid > 0)
    THEN row
    ELSE [row EXCEPT !.status = SettledStatus(row.total, row.paid, adjusted)]

\* A mistake for a run to find: the delta taken off instead of added.
PaidMoreWrongSign(row, adjusted, amount) ==
    Recomputed([row EXCEPT !.paid = @ - amount], adjusted, TRUE)

\* applyInvoicePayment with a delta of amount, and with one of -amount.
PaidMore(row, adjusted, amount) ==
    Recomputed([row EXCEPT !.paid = @ + amount], adjusted, TRUE)
PaidLess(row, adjusted, amount) ==
    Recomputed([row EXCEPT !.paid = Greater(@ - amount, 0)], adjusted, FALSE)

\* The invoices once the allocations rows are applied, or taken back.
Applied(invs, rows) ==
    [i \in Invoices |-> IF rows[i] = 0 THEN invs[i]
                        ELSE PaidMore(invs[i], AdjustedBy(note, i), rows[i])]
Reversed(invs, rows) ==
    [i \in Invoices |-> IF rows[i] = 0 THEN invs[i]
                        ELSE PaidLess(invs[i], AdjustedBy(note, i), rows[i])]

\* A mistake for a run to find: a note leaves its invoice's status alone.
NotReadjusted(notes, ref) == invoice

\* recomputeReferencedInvoice, the notes being notes: the invoice ref alone.
Readjusted(notes, ref) ==
    [i \in Invoices |-> IF i = ref THEN Recomputed(invoice[i], AdjustedBy(notes, i), FALSE)
                        ELSE invoice[i]]

-----------------------------------------------------------------------------
(* What a payment holds, and what it posts to the bank.                    *)

\* A mistake for a run to find: the whole amount comes off the primary invoice.
HeldByPrimary(p) == [i \in Invoices |-> IF i = payment[p].primary THEN payment[p].amount ELSE 0]

\* What undoing payment p takes off each invoice: its allocation rows, or its
\* whole amount off the primary invoice when it has none ("legacy fallback").
Held(p) ==
    IF Support(alloc[p]) # {} THEN alloc[p]
    ELSE [i \in Invoices |-> IF i = payment[p].primary THEN payment[p].amount ELSE 0]

\* The first linked invoice decides the direction, else the party's side.
Outflow(p, primary, rows) ==
    IF Support(rows) # {} THEN primary \in Purchases ELSE p \in SupplierPaid

\* processGatewayPayment: the charge, then the transfer of what is left.
GatewayPostings(account, amount) ==
    LET charge == Lesser(Fee, amount)
        net    == amount - charge
    IN  IF account \notin Gateways THEN {}
        ELSE {x \in {[ref |-> "gateway_charge", account |-> account, amount |-> -charge],
                     [ref |-> "gateway_settlement", account |-> account, amount |-> -net],
                     [ref |-> "gateway_settlement", account |-> SettlesInto[account],
                      amount |-> net]} : x.amount # 0}

PaymentPosting(account, amount, outflow) ==
    IF account = NoAccount THEN {}
    ELSE {[ref |-> "payment", account |-> account,
           amount |-> IF outflow THEN -amount ELSE amount]}

Postings(account, amount, outflow) ==
    PaymentPosting(account, amount, outflow) \cup
    (IF account = NoAccount THEN {} ELSE GatewayPostings(account, amount))

\* A mistake for a run to find: only the gateway's postings are taken back.
GatewayReversible(p) == {x \in posting[p] : x.ref # "payment"}

\* The postings that undoing payment p takes back: those of the gateway, and
\* the payment's own when the payment names an account.
Reversible(p) == {x \in posting[p] : x.ref = "payment" => payment[p].account # NoAccount}

\* What the postings bring to account a, take from it, and leave on it.
Brought(postings, a) == TotalOf([x \in {y \in postings : y.account = a /\ y.amount > 0} |-> x.amount])
Taken(postings, a)   == TotalOf([x \in {y \in postings : y.account = a /\ y.amount < 0} |-> -x.amount])
Moved(postings, a)   == Brought(postings, a) - Taken(postings, a)

\* A mistake for a run to find: the gateway's postings move no balance back.
WithdrawOwn(bal, postings) ==
    [a \in Accounts |-> bal[a] - Moved({x \in postings : x.ref = "payment"}, a)]

Deposit(bal, postings)  == [a \in Accounts |-> bal[a] + Moved(postings, a)]
Withdraw(bal, postings) == [a \in Accounts |-> bal[a] - Moved(postings, a)]

-----------------------------------------------------------------------------
(* Payments (routers/payment.ts).                                          *)

\* Mistakes for runs to find: an allocation checked against the invoice's total
\* alone; and a challan not looked at.
WithinTotals(invs, rows) == \A i \in Support(rows) : rows[i] <= invs[i].total
TaxUnchecked(p) == TRUE

WithinPayment(rows, amount, discount) == TotalOf(rows) <= amount + discount
WithinBalances(invs, rows) == \A i \in Support(rows) : rows[i] <= invs[i].total - invs[i].paid
ValidTds(amount, tds) == tds > 0 => tds < amount
TaxNotDeposited(p) == payment[p].tax # "deposited"

TaxRow(tds, outflow) ==
    IF tds = 0 THEN "none" ELSE IF outflow THEN "payable" ELSE "receivable"

\* The first invoice of a request, NoInvoice for a payment on account.
PrimaryOf(rows) == IF rows = NothingTo THEN {NoInvoice} ELSE Support(rows)

\* payment.create
CreatePayment(p, rows, primary, amount, discount, tds, account) ==
    LET outflow == Outflow(p, primary, rows)
        posts   == Postings(account, amount - tds, outflow)
    IN  /\ payment[p].state = "none"
        /\ ValidTds(amount, tds)
        /\ WithinPayment(rows, amount, discount)
        /\ WithinBalances(invoice, rows)
        /\ ~(outflow /\ Support(rows) # {} /\ tds > 0)
        /\ invoice' = Applied(invoice, rows)
        /\ alloc' = [alloc EXCEPT ![p] = rows]
        /\ payment' = [payment EXCEPT ![p] =
              [state |-> "live", primary |-> primary, amount |-> amount, discount |-> discount,
               tds |-> tds, tax |-> TaxRow(tds, outflow), account |-> account]]
        /\ posting' = [posting EXCEPT ![p] = posts]
        /\ balance' = Deposit(balance, posts)
        /\ UNCHANGED note

\* payment.update: reverse what the payment did, then do it again.  Without
\* allocations in the request (asked = NothingTo) the whole new amount goes
\* to the primary invoice.  A deleted payment is not refused.
UpdatePayment(p, asked, first, amount, discount, tds, account) ==
    LET primary  == IF asked = NothingTo THEN payment[p].primary ELSE first
        rows     == IF asked # NothingTo THEN asked
                    ELSE [i \in Invoices |-> IF i = primary THEN amount ELSE 0]
        released == Reversed(invoice, Held(p))
        outflow  == Outflow(p, primary, rows)
        posts    == Postings(account, amount - tds, outflow)
    IN  /\ payment[p].state \in {"live"} \cup (IF "editDeleted" \in Uses THEN {"deleted"} ELSE {})
        /\ TaxNotDeposited(p)
        /\ ValidTds(amount, tds)
        /\ WithinPayment(rows, amount, discount)
        /\ WithinBalances(released, rows)
        /\ ~(outflow /\ Support(rows) # {} /\ tds > 0)
        /\ invoice' = Applied(released, rows)
        /\ alloc' = [alloc EXCEPT ![p] = rows]
        /\ payment' = [payment EXCEPT ![p] =
              [state |-> @.state, primary |-> primary, amount |-> amount, discount |-> discount,
               tds |-> tds, tax |-> TaxRow(tds, outflow), account |-> account]]
        /\ posting' = [posting EXCEPT ![p] = (@ \ Reversible(p)) \cup posts]
        /\ balance' = Deposit(Withdraw(balance, Reversible(p)), posts)
        /\ UNCHANGED note

\* payment.delete: soft, the row and its primary invoice stay.
DeletePayment(p) ==
    /\ payment[p].state = "live"
    /\ TaxNotDeposited(p)
    /\ invoice' = Reversed(invoice, Held(p))
    /\ alloc' = [alloc EXCEPT ![p] = NothingTo]
    /\ payment' = [payment EXCEPT ![p].state = "deleted", ![p].tax = "none"]
    /\ posting' = [posting EXCEPT ![p] = @ \ Reversible(p)]
    /\ balance' = Withdraw(balance, Reversible(p))
    /\ UNCHANGED note

\* payment.assignAccount of one untracked payment: the gross amount, and no
\* gateway processing.
AssignAccount(p, account) ==
    LET row   == payment[p]
        posts == PaymentPosting(account, row.amount,
                    IF row.primary # NoInvoice THEN row.primary \in Purchases
                    ELSE p \in SupplierPaid)
    IN  /\ row.state = "live" /\ row.account = NoAccount /\ account # NoAccount
        /\ row.tds > 0 => "assignWithheld" \in Uses
        /\ payment' = [payment EXCEPT ![p].account = account]
        /\ posting' = [posting EXCEPT ![p] = @ \cup posts]
        /\ balance' = Deposit(balance, posts)
        /\ UNCHANGED <<invoice, alloc, note>>

\* The Razorpay webhook's recordPayment: what reaches the invoice is capped at
\* its balance, the rest stays on the payment.
RecordOnlinePayment(p, i, amount, account) ==
    LET due   == Greater(invoice[i].total - invoice[i].paid - AdjustedBy(note, i), 0)
        rows  == [NothingTo EXCEPT ![i] = Lesser(amount, due)]
        posts == Postings(account, amount, FALSE)
    IN  /\ payment[p].state = "none" /\ p \notin SupplierPaid
        /\ ~invoice[i].deleted /\ invoice[i].status # "cancelled" /\ i \notin Purchases
        /\ due = 0 => "onlineWhenSettled" \in Uses
        /\ invoice' = Applied(invoice, rows)
        /\ alloc' = [alloc EXCEPT ![p] = rows]
        /\ payment' = [payment EXCEPT ![p] =
              [state |-> "live", primary |-> i, amount |-> amount, discount |-> 0,
               tds |-> 0, tax |-> "none", account |-> account]]
        /\ posting' = [posting EXCEPT ![p] = posts]
        /\ balance' = Deposit(balance, posts)
        /\ UNCHANGED note

\* tds.createChallan and tds.deleteChallan, for the tax of one payment.
DepositTax(p) ==
    /\ payment[p].tax = "payable"
    /\ payment' = [payment EXCEPT ![p].tax = "deposited"]
    /\ UNCHANGED <<invoice, alloc, note, posting, balance>>

RemoveChallan(p) ==
    /\ payment[p].tax = "deposited"
    /\ payment' = [payment EXCEPT ![p].tax = "payable"]
    /\ UNCHANGED <<invoice, alloc, note, posting, balance>>

-----------------------------------------------------------------------------
(* Invoices (routers/invoice.ts) and their notes and returns               *)
(* (lib/document-router-factory.ts).                                       *)

\* invoice.updateStatus: the status is stored as asked, nothing is worked out,
\* and a deleted invoice is not refused.
SetInvoiceStatus(i, status) ==
    /\ \/ "statusByHand" \in Uses
       \/ status \in {"cancelled",
                     SettledStatus(invoice[i].total, invoice[i].paid, AdjustedBy(note, i))}
    /\ invoice' = [invoice EXCEPT ![i].status = status]
    /\ UNCHANGED <<payment, alloc, note, posting, balance>>

\* invoice.update to other lines: only a paid invoice is refused, and the new
\* total may be below what was paid or credited.
EditInvoice(i, total) ==
    LET row == [invoice[i] EXCEPT !.total = total]
    IN  /\ invoice[i].status # "paid"
        /\ total # invoice[i].total
        /\ invoice' = [invoice EXCEPT ![i] = Recomputed(row, AdjustedBy(note, i), FALSE)]
        /\ UNCHANGED <<payment, alloc, note, posting, balance>>

\* invoice.delete: soft, and cancelled; payments stay allocated to it.
DeleteInvoice(i) ==
    /\ ~invoice[i].deleted
    /\ invoice' = [invoice EXCEPT ![i].deleted = TRUE, ![i].status = "cancelled"]
    /\ UNCHANGED <<payment, alloc, note, posting, balance>>

\* The server-side guard against over-crediting an invoice, which only the
\* creation of a note has.
WithinAdjustable(i, total) == total <= invoice[i].total - AdjustedBy(note, i)

\* creditNote.create, salesReturn.create, purchaseReturn.create
CreateNote(n, i, total) ==
    LET notes == [note EXCEPT ![n] = [state |-> "live", ref |-> i, total |-> total]]
    IN  /\ note[n].state = "none"
        /\ WithinAdjustable(i, total)
        /\ note' = notes
        /\ invoice' = Readjusted(notes, i)
        /\ UNCHANGED <<payment, alloc, posting, balance>>

\* <note>.updateStatus: cancelled, or reinstated (anything else is no change
\* of state here).  A deleted note is refused; the cap is not looked at again.
SetNoteStatus(n, state) ==
    LET notes == [note EXCEPT ![n].state = state]
    IN  /\ note[n].state \in {"live", "cancelled"} /\ state # note[n].state
        /\ note' = notes
        /\ invoice' = Readjusted(notes, note[n].ref)
        /\ UNCHANGED <<payment, alloc, posting, balance>>

\* <note>.delete
DeleteNote(n) ==
    LET notes == [note EXCEPT ![n].state = "deleted"]
    IN  /\ note[n].state \in {"live", "cancelled"}
        /\ note' = notes
        /\ invoice' = Readjusted(notes, note[n].ref)
        /\ UNCHANGED <<payment, alloc, posting, balance>>

\* invoice.update of a note: the cap that its creation checks is not checked.
EditNote(n, total) ==
    LET notes == [note EXCEPT ![n].total = total]
    IN  /\ note[n].state # "none" /\ total # note[n].total
        /\ note' = notes
        /\ invoice' = Readjusted(notes, note[n].ref)
        /\ UNCHANGED <<payment, alloc, posting, balance>>

-----------------------------------------------------------------------------
PaymentNext ==
    \E p \in Payments :
        \/ \E rows \in Requests, amount \in Amounts, discount \in Discounts,
              tds \in TaxAmounts, account \in Accounts \cup {NoAccount} :
              \/ \E first \in PrimaryOf(rows) :
                    CreatePayment(p, rows, first, amount, discount, tds, account)
              \/ \E first \in PrimaryOf(rows) :
                    UpdatePayment(p, rows, first, amount, discount, tds, account)
        \/ DeletePayment(p)
        \/ \E account \in Accounts : AssignAccount(p, account)
        \/ \E i \in Invoices, amount \in Amounts, account \in Gateways \cup {NoAccount} :
              RecordOnlinePayment(p, i, amount, account)
        \/ DepositTax(p)
        \/ RemoveChallan(p)

DocumentNext ==
    \/ \E i \in Invoices :
        \/ \E status \in InvoiceStatus : SetInvoiceStatus(i, status)
        \/ \E total \in Totals : EditInvoice(i, total)
        \/ DeleteInvoice(i)
    \/ \E n \in Notes :
        \/ \E i \in Invoices, total \in Amounts : CreateNote(n, i, total)
        \/ \E state \in {"live", "cancelled"} : SetNoteStatus(n, state)
        \/ DeleteNote(n)
        \/ \E total \in Amounts : EditNote(n, total)

Next == PaymentNext \/ DocumentNext

Spec == Init /\ [][Next]_vars

-----------------------------------------------------------------------------
(* Correctness.  The data audit (lib/data-audit/rules) states what the     *)
(* books must satisfy; the names of its rules are given.                   *)

\* amount-paid-matches-allocations: what an invoice counts as paid is what the
\* live payments hold on it, so no sequence of edits, deletions and online
\* payments counts money twice or loses it (applyInvoicePayment, whose
\* GREATEST(.., 0) would hide a reversal made twice).
PaidMatchesAllocations ==
    \A i \in Invoices :
        invoice[i].paid = TotalOf([p \in Payments |->
                             IF payment[p].state = "live" THEN Held(p)[i] ELSE 0])

\* No payment takes an invoice past its total: neither a new one, nor one that is
\* edited to other amounts and invoices after what it held was taken back, nor one
\* that Razorpay tells.  What an edit of the invoice has left overpaid gets no more
\* money.
PaymentsFit ==
    [][\A i \in Invoices : invoice'[i].paid > invoice[i].paid =>
          invoice'[i].paid <= invoice'[i].total]_vars

\* not-overpaid, as the data audit has it (rules/documents.ts:115): also
\* invoice.update must not shrink a total below what was paid.
NotOverpaid == \A i \in Invoices : invoice[i].deleted \/ invoice[i].paid <= invoice[i].total

\* payment-status: every change of a payment, a note or a total leaves the
\* stored status what settledInvoiceStatus makes of the rows.
PaymentStatus ==
    \A i \in Invoices :
        LET row == invoice[i]
        IN  ~row.deleted /\ row.status # "cancelled" =>
               IF row.status = "draft" THEN row.paid = 0
               ELSE row.status = SettledStatus(row.total, row.paid, AdjustedBy(note, i))

\* adjustments-within-total, as the data audit has it (rules/documents.ts:155): the
\* live notes and returns against an invoice never come to more than its total.
AdjustmentsWithinTotal == \A i \in Invoices : AdjustedBy(note, i) <= invoice[i].total

\* bank-posting: a live payment with an account has exactly one posting of its
\* own, on that account, for what is left after TDS; of any other there is nothing on
\* any account, neither its gateway's fee nor the settlement (reverseGatewayPayment).
BankPosting ==
    \A p \in Payments :
        LET own == {x \in posting[p] : x.ref = "payment"}
            row == payment[p]
        IN  IF row.state = "live" /\ row.account # NoAccount
            THEN \E x \in own : /\ own = {x} /\ x.account = row.account
                                /\ x.amount \in {row.amount - row.tds, row.tds - row.amount}
            ELSE posting[p] = {}

\* balance-reconciles: each account's running balance is the sum of its
\* transactions, through every reversal of a payment and of its gateway fee.
BalanceReconciles == \A a \in Accounts :
    balance[a] = TotalOf([p \in Payments |-> Brought(posting[p], a)])
                 - TotalOf([p \in Payments |-> Taken(posting[p], a)])

\* Tax deposited against a challan can not be re-worked: while it is deposited
\* neither the payment nor what it settles changes (assertTdsNotDeposited).
DepositedTaxIsFrozen ==
    [][\A p \in Payments :
          payment[p].tax = "deposited" =>
             /\ payment'[p].state = payment[p].state
             /\ payment'[p].amount = payment[p].amount /\ payment'[p].tds = payment[p].tds
             /\ alloc'[p] = alloc[p]]_vars
=============================================================================
