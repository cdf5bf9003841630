------------------------- MODULE SettlementProofs -------------------------
(***************************************************************************)
(* Proofs about Settlement, for any number of invoices, payments, notes    *)
(* and accounts and any amounts: what was paid is what is allocated,       *)
(* nothing is overpaid or over-credited, statuses follow the rows, a       *)
(* payment's postings are those of its account, and balances are the sums  *)
(* of their transactions.  Each invariant comes with the facts that its    *)
(* induction needs: Init establishes it, and every action keeps it.        *)
(***************************************************************************)
EXTENDS Settlement, UnitsProofs

USE InvoicesAssumption, PaymentsAssumption, NotesAssumption, AmountsAssumption,
    AccountsAssumption, NoneAssumption

-----------------------------------------------------------------------------
(* The status of an invoice.                                               *)

\* Whatever an invoice was paid, its settled status is one of the statuses.
LEMMA SettledStatusType ==
    ASSUME NEW total, NEW paid, NEW adjusted
    PROVE  SettledStatus(total, paid, adjusted) \in InvoiceStatus
BY DEF SettledStatus, InvoiceStatus

\* Applying allocation rows adds each to what its invoice counts as paid.
LEMMA AppliedRows ==
    ASSUME NEW invs \in [Invoices -> InvoiceRow], NEW rows \in Allocation
    PROVE  /\ Applied(invs, rows) \in [Invoices -> InvoiceRow]
           /\ \A i \in Invoices : /\ Applied(invs, rows)[i].paid = invs[i].paid + rows[i]
                                  /\ Applied(invs, rows)[i].total = invs[i].total
                                  /\ Applied(invs, rows)[i].deleted = invs[i].deleted
<1> SUFFICES ASSUME NEW i \in Invoices
             PROVE  /\ Applied(invs, rows)[i] \in InvoiceRow
                    /\ Applied(invs, rows)[i].paid = invs[i].paid + rows[i]
                    /\ Applied(invs, rows)[i].total = invs[i].total
                    /\ Applied(invs, rows)[i].deleted = invs[i].deleted
  BY DEF Applied
<1> DEFINE row == [invs[i] EXCEPT !.paid = @ + rows[i]]
<1>1. rows[i] \in Nat /\ invs[i] \in InvoiceRow
  BY DEF Allocation
<1>2. /\ row \in InvoiceRow
      /\ row.paid = invs[i].paid + rows[i]
      /\ row.total = invs[i].total
      /\ row.deleted = invs[i].deleted
  BY <1>1 DEF InvoiceRow
<1>3. CASE rows[i] = 0
  BY <1>1, <1>3 DEF Applied, InvoiceRow
<1>4. CASE rows[i] # 0
  <2>1. Applied(invs, rows)[i] = Recomputed(row, AdjustedBy(note, i), TRUE)
    BY <1>4 DEF Applied, PaidMore
  <2> HIDE DEF row
  <2> QED
    BY <1>2, <2>1, SettledStatusType DEF Recomputed, InvoiceRow
<1> QED
  BY <1>3, <1>4

\* Taking rows back subtracts each, down to nothing paid.
LEMMA ReversedRows ==
    ASSUME NEW invs \in [Invoices -> InvoiceRow], NEW rows \in Allocation
    PROVE  /\ Reversed(invs, rows) \in [Invoices -> InvoiceRow]
           /\ \A i \in Invoices :
                 /\ Reversed(invs, rows)[i].paid = Greater(invs[i].paid - rows[i], 0)
                 /\ Reversed(invs, rows)[i].total = invs[i].total
                 /\ Reversed(invs, rows)[i].deleted = invs[i].deleted
<1> SUFFICES ASSUME NEW i \in Invoices
             PROVE  /\ Reversed(invs, rows)[i] \in InvoiceRow
                    /\ Reversed(invs, rows)[i].paid = Greater(invs[i].paid - rows[i], 0)
                    /\ Reversed(invs, rows)[i].total = invs[i].total
                    /\ Reversed(invs, rows)[i].deleted = invs[i].deleted
  BY DEF Reversed
<1> DEFINE row == [invs[i] EXCEPT !.paid = Greater(@ - rows[i], 0)]
<1>1. rows[i] \in Nat /\ invs[i] \in InvoiceRow
  BY DEF Allocation
<1>2. /\ row \in InvoiceRow
      /\ row.paid = Greater(invs[i].paid - rows[i], 0)
      /\ row.total = invs[i].total
      /\ row.deleted = invs[i].deleted
  BY <1>1 DEF InvoiceRow, Greater
<1>3. CASE rows[i] = 0
  BY <1>1, <1>3 DEF Reversed, InvoiceRow, Greater
<1>4. CASE rows[i] # 0
  <2>1. Reversed(invs, rows)[i] = Recomputed(row, AdjustedBy(note, i), FALSE)
    BY <1>4 DEF Reversed, PaidLess
  <2> HIDE DEF row
  <2> QED
    BY <1>2, <2>1, SettledStatusType DEF Recomputed, InvoiceRow
<1> QED
  BY <1>3, <1>4

\* What the notes take off an invoice is an amount.
LEMMA AdjustedIsNat ==
    ASSUME NEW notes \in [Notes -> NoteRow], NEW i
    PROVE  AdjustedBy(notes, i) \in Nat
<1> DEFINE f == [n \in Notes |-> IF notes[n].state = "live" /\ notes[n].ref = i
                                 THEN notes[n].total ELSE 0]
<1>1. f \in [Notes -> Nat]
  BY DEF NoteRow
<1> HIDE DEF f
<1>2. TotalOf(f) \in Nat
  BY <1>1, TotalIsNat
<1> QED
  BY <1>2 DEF AdjustedBy, f

-----------------------------------------------------------------------------
(* Payments and what they post.                                            *)

\* Undoing a payment takes an allocation back.
LEMMA HeldIsAllocation ==
    ASSUME TypeOK, NEW p \in Payments
    PROVE  Held(p) \in Allocation
BY DEF TypeOK, Held, Allocation, PaymentRow

\* A payment posts finitely many bank transactions.
LEMMA PostingsType ==
    ASSUME NEW account \in Accounts \cup {NoAccount}, NEW amount \in Nat, NEW outflow \in BOOLEAN
    PROVE  /\ Postings(account, amount, outflow) \subseteq Posting
           /\ IsFiniteSet(Postings(account, amount, outflow))
           /\ PaymentPosting(account, amount, outflow) \subseteq Posting
           /\ IsFiniteSet(PaymentPosting(account, amount, outflow))
           /\ account = NoAccount => Postings(account, amount, outflow) = {}
<1> DEFINE own == PaymentPosting(account, amount, outflow)
           via == IF account = NoAccount THEN {} ELSE GatewayPostings(account, amount)
           charge == Lesser(Fee, amount)
           net == amount - charge
           all == {[ref |-> "gateway_charge", account |-> account, amount |-> -charge],
                   [ref |-> "gateway_settlement", account |-> account, amount |-> -net],
                   [ref |-> "gateway_settlement", account |-> SettlesInto[account],
                    amount |-> net]}
<1>1. own \subseteq Posting /\ IsFiniteSet(own)
  <2>1. CASE account = NoAccount
    BY <2>1, FS_EmptySet DEF PaymentPosting
  <2>2. CASE account # NoAccount
    <3> DEFINE x == [ref |-> "payment", account |-> account,
                     amount |-> IF outflow THEN -amount ELSE amount]
    <3>1. x \in Posting
      BY <2>2 DEF Posting
    <3>2. own = {x}
      BY <2>2 DEF PaymentPosting
    <3> HIDE DEF x, own
    <3> QED
      BY <3>1, <3>2, FS_Singleton
  <2> QED
    BY <2>1, <2>2
<1>2. via \subseteq Posting /\ IsFiniteSet(via)
  <2>1. CASE account \notin Gateways
    BY <2>1, FS_EmptySet DEF GatewayPostings
  <2>2. CASE account \in Gateways
    <3>1. charge \in Int /\ net \in Int
      BY DEF Lesser
    <3>2. account \in Accounts /\ SettlesInto[account] \in Accounts
      BY <2>2
    <3>3. all \subseteq Posting
      <4> HIDE DEF charge, net
      <4> QED
        BY <3>1, <3>2 DEF Posting
    <3>4. IsFiniteSet(all)
      <4> DEFINE x == [ref |-> "gateway_charge", account |-> account, amount |-> -charge]
                 y == [ref |-> "gateway_settlement", account |-> account, amount |-> -net]
                 z == [ref |-> "gateway_settlement", account |-> SettlesInto[account],
                       amount |-> net]
      <4> HIDE DEF x, y, z
      <4>1. IsFiniteSet({x} \cup {y} \cup {z})
        BY FS_Singleton, FS_AddElement
      <4>2. {x, y, z} = {x} \cup {y} \cup {z}
        OBVIOUS
      <4>3. IsFiniteSet({x, y, z})
        BY <4>1, <4>2
      <4> QED
        BY <4>3 DEF x, y, z
    <3>5. via \subseteq all
      BY <2>2 DEF GatewayPostings
    <3> QED
      <4> HIDE DEF via, all
      <4> QED
        BY <3>3, <3>4, <3>5, FS_Subset
  <2> QED
    BY <2>1, <2>2
<1>3. Postings(account, amount, outflow) = own \cup via
  BY DEF Postings
<1>4. account = NoAccount => own = {} /\ via = {}
  BY DEF PaymentPosting
<1> QED
  <2> HIDE DEF own, via
  <2> QED
    <3>1. PaymentPosting(account, amount, outflow) = own
      BY DEF own
    <3>2. own \cup via \subseteq Posting /\ IsFiniteSet(own \cup via)
      BY <1>1, <1>2, FS_Union
    <3>3. account = NoAccount => own \cup via = {}
      BY <1>4
    <3> QED
      BY <1>1, <1>3, <3>1, <3>2, <3>3

\* What finitely many postings move is an amount of money.
LEMMA MovedType ==
    ASSUME NEW posts \in SUBSET Posting, IsFiniteSet(posts), NEW a
    PROVE  /\ Brought(posts, a) \in Nat
           /\ Taken(posts, a) \in Nat
           /\ Moved(posts, a) \in Int
<1> DEFINE In == {y \in posts : y.account = a /\ y.amount > 0}
           Out == {y \in posts : y.account = a /\ y.amount < 0}
           f == [x \in In |-> x.amount]
           g == [x \in Out |-> -x.amount]
<1>1. IsFiniteSet(In) /\ IsFiniteSet(Out)
  BY FS_Subset
<1>2. f \in [In -> Nat] /\ g \in [Out -> Nat]
  BY DEF Posting
<1>3. TotalOf(f) \in Nat /\ TotalOf(g) \in Nat
  <2> HIDE DEF f, g, In, Out
  <2> QED
    BY <1>1, <1>2, TotalIsNat
<1> QED
  BY <1>3 DEF Brought, Taken, Moved

-----------------------------------------------------------------------------
(* Every variable keeps its type.                                          *)

\* The initial books are well typed.
LEMMA InitType == Init => TypeOK
<1> SUFFICES ASSUME Init PROVE TypeOK
  OBVIOUS
<1>1. invoice \in [Invoices -> InvoiceRow]
  BY DEF Init, InvoiceRow, InvoiceStatus
<1>2. payment \in [Payments -> PaymentRow]
  BY DEF Init, PaymentRow
<1>3. alloc \in [Payments -> Allocation] /\ note \in [Notes -> NoteRow]
  BY DEF Init, Allocation, NothingTo, NoteRow
<1>4. /\ posting \in [Payments -> SUBSET Posting]
      /\ \A p \in Payments : IsFiniteSet(posting[p])
  BY FS_EmptySet DEF Init
<1>5. balance \in [Accounts -> Int]
  BY DEF Init
<1> QED
  BY <1>1, <1>2, <1>3, <1>4, <1>5 DEF TypeOK

\* A deposit, and a withdrawal, of finitely many postings leaves balances.
LEMMA BalancesType ==
    ASSUME NEW bal \in [Accounts -> Int], NEW posts \in SUBSET Posting, IsFiniteSet(posts)
    PROVE  Deposit(bal, posts) \in [Accounts -> Int] /\ Withdraw(bal, posts) \in [Accounts -> Int]
<1>1. \A a \in Accounts : Moved(posts, a) \in Int
  BY MovedType
<1> QED
  BY <1>1 DEF Deposit, Withdraw

\* What undoing a payment takes back is some of what it posted.
LEMMA ReversibleType ==
    ASSUME TypeOK, NEW p \in Payments
    PROVE  /\ posting[p] \subseteq Posting /\ IsFiniteSet(posting[p])
           /\ Reversible(p) \subseteq Posting /\ IsFiniteSet(Reversible(p))
           /\ posting[p] \ Reversible(p) \subseteq Posting
           /\ IsFiniteSet(posting[p] \ Reversible(p))
<1>1. posting[p] \subseteq Posting /\ IsFiniteSet(posting[p])
  BY DEF TypeOK
<1>2. Reversible(p) \subseteq posting[p]
  BY DEF Reversible
<1>3. IsFiniteSet(Reversible(p)) /\ IsFiniteSet(posting[p] \ Reversible(p))
  BY <1>1, <1>2, FS_Subset
<1> QED
  BY <1>1, <1>2, <1>3

\* What a client can send is well typed, and the amount left after TDS is an
\* amount (assertValidTds).
LEMMA RequestType ==
    ASSUME NEW rows \in Requests, NEW amount \in Amounts, NEW discount \in Discounts,
           NEW tds \in TaxAmounts, ValidTds(amount, tds), NEW outflow
    PROVE  /\ rows \in Allocation
           /\ amount \in Nat /\ discount \in Nat /\ tds \in Nat
           /\ amount - tds \in Nat
           /\ TaxRow(tds, outflow) \in {"none", "receivable", "payable"}
<1>1. rows \in Allocation
  BY DEF Requests, Allocation
<1>2. amount \in Nat /\ discount \in Nat /\ tds \in Nat
  OBVIOUS
<1>3. amount - tds \in Nat
  BY <1>2 DEF ValidTds
<1>4. TaxRow(tds, outflow) \in {"none", "receivable", "payable"}
  BY DEF TaxRow
<1> QED
  BY <1>1, <1>2, <1>3, <1>4

\* The first invoice of a request is an invoice, or none.
LEMMA PrimaryType ==
    ASSUME NEW rows \in Allocation, NEW first \in PrimaryOf(rows)
    PROVE  first \in Invoices \cup {NoInvoice}
BY DEF PrimaryOf, Support

\* The direction of a payment's money is one or the other.
LEMMA OutflowType ==
    ASSUME NEW p, NEW primary, NEW rows
    PROVE  Outflow(p, primary, rows) \in BOOLEAN
<1>1. CASE Support(rows) # {}
  BY <1>1 DEF Outflow
<1>2. CASE Support(rows) = {}
  BY <1>2 DEF Outflow
<1> QED
  BY <1>1, <1>2

\* payment.create keeps every type.
LEMMA CreateType ==
    ASSUME TypeOK, NEW p \in Payments, NEW rows \in Requests, NEW first \in PrimaryOf(rows),
           NEW amount \in Amounts, NEW discount \in Discounts, NEW tds \in TaxAmounts,
           NEW account \in Accounts \cup {NoAccount},
           CreatePayment(p, rows, first, amount, discount, tds, account)
    PROVE  TypeOK'
<1> DEFINE outflow == Outflow(p, first, rows)
           posts == Postings(account, amount - tds, outflow)
<1>1. outflow \in BOOLEAN
  BY OutflowType
<1> HIDE DEF outflow
<1>2. /\ rows \in Allocation
      /\ amount \in Nat /\ discount \in Nat /\ tds \in Nat /\ amount - tds \in Nat
      /\ TaxRow(tds, outflow) \in {"none", "receivable", "payable"}
  BY <1>1, RequestType DEF CreatePayment
<1>3. first \in Invoices \cup {NoInvoice}
  BY <1>2, PrimaryType
<1>4. posts \subseteq Posting /\ IsFiniteSet(posts)
  BY <1>1, <1>2, PostingsType
<1> HIDE DEF posts
<1>5. invoice' \in [Invoices -> InvoiceRow]
  BY <1>2, AppliedRows DEF CreatePayment, TypeOK
<1>6. alloc' \in [Payments -> Allocation] /\ note' \in [Notes -> NoteRow]
  BY <1>2 DEF CreatePayment, TypeOK
<1>7. payment' \in [Payments -> PaymentRow]
  <2>1. payment' = [payment EXCEPT ![p] =
            [state |-> "live", primary |-> first, amount |-> amount, discount |-> discount,
             tds |-> tds, tax |-> TaxRow(tds, outflow), account |-> account]]
    BY DEF CreatePayment, outflow
  <2> QED
    BY <1>2, <1>3, <2>1 DEF TypeOK, PaymentRow
<1>8. posting' = [posting EXCEPT ![p] = posts] /\ balance' = Deposit(balance, posts)
  BY DEF CreatePayment, posts, outflow
<1>9. balance' \in [Accounts -> Int]
  BY <1>4, <1>8, BalancesType DEF TypeOK
<1> QED
  BY <1>4, <1>5, <1>6, <1>7, <1>8, <1>9 DEF TypeOK

\* The rows that payment.update allocates, and the invoice it names.
UpdateRows(p, asked, first, amount) ==
    IF asked # NothingTo THEN asked
    ELSE [i \in Invoices |-> IF i = payment[p].primary THEN amount ELSE 0]
UpdatePrimary(p, asked, first) == IF asked = NothingTo THEN payment[p].primary ELSE first

\* payment.update keeps every type.
LEMMA UpdateType ==
    ASSUME TypeOK, NEW p \in Payments, NEW asked \in Requests, NEW first \in PrimaryOf(asked),
           NEW amount \in Amounts, NEW discount \in Discounts, NEW tds \in TaxAmounts,
           NEW account \in Accounts \cup {NoAccount},
           UpdatePayment(p, asked, first, amount, discount, tds, account)
    PROVE  TypeOK'
<1> DEFINE primary == UpdatePrimary(p, asked, first)
           rows == UpdateRows(p, asked, first, amount)
           outflow == Outflow(p, primary, rows)
           posts == Postings(account, amount - tds, outflow)
           released == Reversed(invoice, Held(p))
<1>1. outflow \in BOOLEAN
  BY OutflowType
<1>2. /\ invoice' = Applied(released, rows)
      /\ alloc' = [alloc EXCEPT ![p] = rows]
      /\ payment' = [payment EXCEPT ![p] =
            [state |-> @.state, primary |-> primary, amount |-> amount, discount |-> discount,
             tds |-> tds, tax |-> TaxRow(tds, outflow), account |-> account]]
      /\ posting' = [posting EXCEPT ![p] = (@ \ Reversible(p)) \cup posts]
      /\ balance' = Deposit(Withdraw(balance, Reversible(p)), posts)
      /\ note' = note
      /\ ValidTds(amount, tds)
  BY DEF UpdatePayment, UpdatePrimary, UpdateRows
<1> HIDE DEF outflow
<1>3. /\ asked \in Allocation
      /\ amount \in Nat /\ discount \in Nat /\ tds \in Nat /\ amount - tds \in Nat
      /\ TaxRow(tds, outflow) \in {"none", "receivable", "payable"}
  BY <1>1, <1>2, RequestType
<1>4. primary \in Invoices \cup {NoInvoice} /\ rows \in Allocation
  BY <1>3, PrimaryType DEF TypeOK, PaymentRow, Allocation, UpdatePrimary, UpdateRows
<1>5. posts \subseteq Posting /\ IsFiniteSet(posts)
  BY <1>1, <1>3, PostingsType
<1> HIDE DEF primary, rows, posts
<1>6. invoice' \in [Invoices -> InvoiceRow]
  <2>1. released \in [Invoices -> InvoiceRow]
    BY HeldIsAllocation, ReversedRows DEF TypeOK
  <2> HIDE DEF released
  <2> QED
    BY <1>2, <1>4, <2>1, AppliedRows
<1>7. alloc' \in [Payments -> Allocation] /\ note' \in [Notes -> NoteRow]
  BY <1>2, <1>4 DEF TypeOK
<1>8. payment' \in [Payments -> PaymentRow]
  <2> DEFINE row == [state |-> payment[p].state, primary |-> primary, amount |-> amount,
                     discount |-> discount, tds |-> tds, tax |-> TaxRow(tds, outflow),
                     account |-> account]
  <2>1. row \in PaymentRow
    BY <1>3, <1>4 DEF TypeOK, PaymentRow
  <2>2. payment' = [payment EXCEPT ![p] = row]
    BY <1>2
  <2> HIDE DEF row
  <2> QED
    BY <2>1, <2>2 DEF TypeOK
<1>9. posting' \in [Payments -> SUBSET Posting] /\ \A q \in Payments : IsFiniteSet(posting'[q])
  <2> DEFINE kept == posting[p] \ Reversible(p)
  <2>1. kept \subseteq Posting /\ IsFiniteSet(kept)
    BY ReversibleType
  <2>2. kept \cup posts \subseteq Posting /\ IsFiniteSet(kept \cup posts)
    BY <1>5, <2>1, FS_Union
  <2>3. posting' = [posting EXCEPT ![p] = kept \cup posts]
    BY <1>2
  <2> HIDE DEF kept
  <2> QED
    BY <2>2, <2>3 DEF TypeOK
<1>10. balance' \in [Accounts -> Int]
  <2>1. Withdraw(balance, Reversible(p)) \in [Accounts -> Int]
    BY ReversibleType, BalancesType DEF TypeOK
  <2> QED
    BY <1>2, <1>5, <2>1, BalancesType
<1> QED
  BY <1>6, <1>7, <1>8, <1>9, <1>10 DEF TypeOK

\* payment.delete keeps every type.
LEMMA DeleteType ==
    ASSUME TypeOK, NEW p \in Payments, DeletePayment(p)
    PROVE  TypeOK'
<1>1. /\ invoice' = Reversed(invoice, Held(p))
      /\ alloc' = [alloc EXCEPT ![p] = NothingTo]
      /\ payment' = [payment EXCEPT ![p].state = "deleted", ![p].tax = "none"]
      /\ posting' = [posting EXCEPT ![p] = @ \ Reversible(p)]
      /\ balance' = Withdraw(balance, Reversible(p))
      /\ note' = note
  BY DEF DeletePayment
<1>2. invoice' \in [Invoices -> InvoiceRow]
  BY <1>1, HeldIsAllocation, ReversedRows DEF TypeOK
<1>3. alloc' \in [Payments -> Allocation] /\ note' \in [Notes -> NoteRow]
  BY <1>1 DEF TypeOK, Allocation, NothingTo
<1>4. payment' \in [Payments -> PaymentRow]
  <2> DEFINE gone == [payment EXCEPT ![p].state = "deleted"]
  <2>1. gone \in [Payments -> PaymentRow]
    <3>1. payment[p] \in PaymentRow
      BY DEF TypeOK
    <3>2. [payment[p] EXCEPT !.state = "deleted"] \in PaymentRow
      BY <3>1 DEF PaymentRow
    <3> QED
      BY <3>2 DEF TypeOK
  <2>2. payment' = [gone EXCEPT ![p].tax = "none"]
    BY <1>1 DEF TypeOK
  <2> HIDE DEF gone
  <2> QED
    BY <2>1, <2>2 DEF PaymentRow
<1>5. posting' \in [Payments -> SUBSET Posting] /\ \A q \in Payments : IsFiniteSet(posting'[q])
  BY <1>1, ReversibleType DEF TypeOK
<1>6. balance' \in [Accounts -> Int]
  BY <1>1, ReversibleType, BalancesType DEF TypeOK
<1> QED
  BY <1>2, <1>3, <1>4, <1>5, <1>6 DEF TypeOK

\* payment.assignAccount keeps every type.
LEMMA AssignType ==
    ASSUME TypeOK, NEW p \in Payments, NEW account \in Accounts, AssignAccount(p, account)
    PROVE  TypeOK'
<1> DEFINE outflow == IF payment[p].primary # NoInvoice THEN payment[p].primary \in Purchases
                      ELSE p \in SupplierPaid
           posts == PaymentPosting(account, payment[p].amount, outflow)
<1>1. /\ payment' = [payment EXCEPT ![p].account = account]
      /\ posting' = [posting EXCEPT ![p] = @ \cup posts]
      /\ balance' = Deposit(balance, posts)
      /\ UNCHANGED <<invoice, alloc, note>>
  BY DEF AssignAccount
<1>2. outflow \in BOOLEAN
  <2>1. CASE payment[p].primary # NoInvoice
    BY <2>1
  <2>2. CASE payment[p].primary = NoInvoice
    BY <2>2
  <2> QED
    BY <2>1, <2>2
<1> HIDE DEF outflow
<1>3. posts \subseteq Posting /\ IsFiniteSet(posts)
  BY <1>2, PostingsType DEF TypeOK, PaymentRow
<1> HIDE DEF posts
<1>4. payment' \in [Payments -> PaymentRow]
  BY <1>1 DEF TypeOK, PaymentRow
<1>5. posting' \in [Payments -> SUBSET Posting] /\ \A q \in Payments : IsFiniteSet(posting'[q])
  <2>1. posting[p] \cup posts \subseteq Posting /\ IsFiniteSet(posting[p] \cup posts)
    BY <1>3, ReversibleType, FS_Union
  <2> QED
    BY <1>1, <2>1 DEF TypeOK
<1>6. balance' \in [Accounts -> Int]
  BY <1>1, <1>3, BalancesType DEF TypeOK
<1> QED
  BY <1>1, <1>4, <1>5, <1>6 DEF TypeOK

\* What the webhook can still allocate to an invoice.
Due(i) == Greater(invoice[i].total - invoice[i].paid - AdjustedBy(note, i), 0)
OnlineRows(i, amount) == [NothingTo EXCEPT ![i] = Lesser(amount, Due(i))]

\* The webhook allocates an amount, within what is still to pay.
LEMMA OnlineAllocates ==
    ASSUME TypeOK, NEW i \in Invoices, NEW amount \in Amounts
    PROVE  /\ OnlineRows(i, amount) \in Allocation
           /\ \A j \in Invoices \ {i} : OnlineRows(i, amount)[j] = 0
           /\ OnlineRows(i, amount)[i] <= Due(i)
           /\ Due(i) # 0 => OnlineRows(i, amount)[i] > 0
           /\ Due(i) # 0 => Due(i) = invoice[i].total - invoice[i].paid - AdjustedBy(note, i)
<1>1. AdjustedBy(note, i) \in Nat
  BY AdjustedIsNat DEF TypeOK
<1>2. invoice[i].total \in Nat /\ invoice[i].paid \in Nat
  BY DEF TypeOK, InvoiceRow
<1>3. Due(i) \in Nat
  BY <1>1, <1>2 DEF Due, Greater
<1>4. amount \in Nat /\ amount > 0
  OBVIOUS
<1>5. Lesser(amount, Due(i)) \in Nat
  BY <1>3, <1>4 DEF Lesser
<1> QED
  BY <1>1, <1>2, <1>3, <1>4, <1>5 DEF OnlineRows, NothingTo, Allocation, Lesser, Due, Greater

\* The webhook's recordPayment keeps every type.
LEMMA OnlineType ==
    ASSUME TypeOK, NEW p \in Payments, NEW i \in Invoices, NEW amount \in Amounts,
           NEW account \in Gateways \cup {NoAccount}, RecordOnlinePayment(p, i, amount, account)
    PROVE  TypeOK'
<1> DEFINE rows == OnlineRows(i, amount)
           posts == Postings(account, amount, FALSE)
<1>1. /\ invoice' = Applied(invoice, rows)
      /\ alloc' = [alloc EXCEPT ![p] = rows]
      /\ payment' = [payment EXCEPT ![p] =
            [state |-> "live", primary |-> i, amount |-> amount, discount |-> 0,
             tds |-> 0, tax |-> "none", account |-> account]]
      /\ posting' = [posting EXCEPT ![p] = posts]
      /\ balance' = Deposit(balance, posts)
      /\ note' = note
  BY DEF RecordOnlinePayment, OnlineRows, Due
<1>2. rows \in Allocation
  BY OnlineAllocates
<1>3. posts \subseteq Posting /\ IsFiniteSet(posts)
  BY PostingsType
<1> HIDE DEF rows, posts
<1>4. invoice' \in [Invoices -> InvoiceRow]
  BY <1>1, <1>2, AppliedRows DEF TypeOK
<1>5. payment' \in [Payments -> PaymentRow]
  BY <1>1 DEF TypeOK, PaymentRow
<1>6. balance' \in [Accounts -> Int]
  BY <1>1, <1>3, BalancesType DEF TypeOK
<1> QED
  BY <1>1, <1>2, <1>3, <1>4, <1>5, <1>6 DEF TypeOK

\* Depositing tax, and removing its challan, keep every type.
LEMMA ChallanType ==
    ASSUME TypeOK, NEW p \in Payments, DepositTax(p) \/ RemoveChallan(p)
    PROVE  TypeOK'
<1>1. /\ \E tax \in {"deposited", "payable"} : payment' = [payment EXCEPT ![p].tax = tax]
      /\ UNCHANGED <<invoice, alloc, note, posting, balance>>
  BY DEF DepositTax, RemoveChallan
<1>2. payment' \in [Payments -> PaymentRow]
  <2>1. PICK tax \in {"deposited", "payable"} : payment' = [payment EXCEPT ![p].tax = tax]
    BY <1>1
  <2>2. payment[p] \in PaymentRow
    BY DEF TypeOK
  <2>3. [payment[p] EXCEPT !.tax = tax] \in PaymentRow
    BY <2>2 DEF PaymentRow
  <2> QED
    BY <2>1, <2>3 DEF TypeOK
<1> QED
  BY <1>1, <1>2 DEF TypeOK

\* A change of the notes leaves every invoice's amounts alone.
LEMMA ReadjustedRows ==
    ASSUME TypeOK, NEW notes, NEW ref
    PROVE  /\ Readjusted(notes, ref) \in [Invoices -> InvoiceRow]
           /\ \A i \in Invoices : /\ Readjusted(notes, ref)[i].paid = invoice[i].paid
                                  /\ Readjusted(notes, ref)[i].total = invoice[i].total
<1> SUFFICES ASSUME NEW i \in Invoices
             PROVE  /\ Readjusted(notes, ref)[i] \in InvoiceRow
                    /\ Readjusted(notes, ref)[i].paid = invoice[i].paid
                    /\ Readjusted(notes, ref)[i].total = invoice[i].total
  BY DEF Readjusted
<1>1. invoice[i] \in InvoiceRow
  BY DEF TypeOK
<1>2. CASE i = ref
  <2>1. Readjusted(notes, ref)[i] = Recomputed(invoice[i], AdjustedBy(notes, i), FALSE)
    BY <1>2 DEF Readjusted
  <2> QED
    BY <1>1, <2>1, SettledStatusType DEF Recomputed, InvoiceRow
<1>3. CASE i # ref
  BY <1>1, <1>3 DEF Readjusted
<1> QED
  BY <1>2, <1>3

\* invoice.update stores the new total and keeps what was paid.
LEMMA EditedRow ==
    ASSUME TypeOK, NEW i \in Invoices, NEW total \in Totals, EditInvoice(i, total)
    PROVE  /\ invoice' \in [Invoices -> InvoiceRow]
           /\ invoice'[i].paid = invoice[i].paid
           /\ invoice'[i].total = total
           /\ \A j \in Invoices \ {i} : invoice'[j] = invoice[j]
<1> DEFINE row == [invoice[i] EXCEPT !.total = total]
           new == Recomputed(row, AdjustedBy(note, i), FALSE)
<1>1. row \in InvoiceRow /\ row.paid = invoice[i].paid /\ row.total = total
  BY DEF TypeOK, InvoiceRow
<1>2. invoice' = [invoice EXCEPT ![i] = new]
  BY DEF EditInvoice
<1> HIDE DEF row
<1>3. new \in InvoiceRow /\ new.paid = row.paid /\ new.total = row.total
  BY <1>1, SettledStatusType DEF Recomputed, InvoiceRow
<1> HIDE DEF new
<1> QED
  BY <1>1, <1>2, <1>3 DEF TypeOK

\* The handlers of invoices and notes keep every type.
LEMMA DocumentType ==
    ASSUME TypeOK, DocumentNext
    PROVE  TypeOK'
<1>1. ASSUME NEW i \in Invoices, NEW status \in InvoiceStatus, SetInvoiceStatus(i, status)
      PROVE  TypeOK'
  BY <1>1 DEF SetInvoiceStatus, TypeOK, InvoiceRow
<1>2. ASSUME NEW i \in Invoices, NEW total \in Totals, EditInvoice(i, total) PROVE TypeOK'
  <2>1. UNCHANGED <<payment, alloc, note, posting, balance>>
    BY <1>2 DEF EditInvoice
  <2> QED
    BY <1>2, <2>1, EditedRow DEF TypeOK
<1>3. ASSUME NEW i \in Invoices, DeleteInvoice(i) PROVE TypeOK'
  <2>1. /\ invoice' = [invoice EXCEPT ![i].deleted = TRUE, ![i].status = "cancelled"]
        /\ UNCHANGED <<payment, alloc, note, posting, balance>>
    BY <1>3 DEF DeleteInvoice
  <2>2. invoice' \in [Invoices -> InvoiceRow]
    <3> DEFINE hidden == [invoice[i] EXCEPT !.deleted = TRUE]
               row == [hidden EXCEPT !.status = "cancelled"]
    <3>1. hidden \in InvoiceRow
      <4>1. invoice[i] \in InvoiceRow /\ TRUE \in BOOLEAN
        BY DEF TypeOK
      <4> QED
        BY <4>1, Zenon DEF InvoiceRow
    <3>2. invoice' = [invoice EXCEPT ![i] = row]
      BY <2>1 DEF TypeOK
    <3> HIDE DEF hidden
    <3>3. row \in InvoiceRow
      BY <3>1 DEF InvoiceRow, InvoiceStatus
    <3> HIDE DEF row
    <3> QED
      BY <3>2, <3>3 DEF TypeOK
  <2> QED
    BY <2>1, <2>2 DEF TypeOK
<1>4. ASSUME NEW n \in Notes, NEW i \in Invoices, NEW total \in Amounts, CreateNote(n, i, total)
      PROVE  TypeOK'
  <2> DEFINE notes == [note EXCEPT ![n] = [state |-> "live", ref |-> i, total |-> total]]
  <2>1. notes \in [Notes -> NoteRow]
    BY DEF TypeOK, NoteRow
  <2>2. /\ note' = notes /\ invoice' = Readjusted(notes, i)
        /\ UNCHANGED <<payment, alloc, posting, balance>>
    BY <1>4 DEF CreateNote
  <2> HIDE DEF notes
  <2> QED
    BY <2>1, <2>2, ReadjustedRows DEF TypeOK
<1>5. ASSUME NEW n \in Notes, NEW notes \in [Notes -> NoteRow],
             note' = notes, invoice' = Readjusted(notes, note[n].ref),
             UNCHANGED <<payment, alloc, posting, balance>>
      PROVE  TypeOK'
  BY <1>5, ReadjustedRows DEF TypeOK
<1>6. ASSUME NEW n \in Notes, NEW state \in {"live", "cancelled"}, SetNoteStatus(n, state)
      PROVE  TypeOK'
  <2>1. [note EXCEPT ![n].state = state] \in [Notes -> NoteRow]
    BY DEF TypeOK, NoteRow
  <2> QED
    BY <1>5, <1>6, <2>1 DEF SetNoteStatus
<1>7. ASSUME NEW n \in Notes, DeleteNote(n) PROVE TypeOK'
  <2>1. [note EXCEPT ![n].state = "deleted"] \in [Notes -> NoteRow]
    BY DEF TypeOK, NoteRow
  <2> QED
    BY <1>5, <1>7, <2>1 DEF DeleteNote
<1>8. ASSUME NEW n \in Notes, NEW total \in Amounts, EditNote(n, total) PROVE TypeOK'
  <2>1. [note EXCEPT ![n].total = total] \in [Notes -> NoteRow]
    BY DEF TypeOK, NoteRow
  <2> QED
    BY <1>5, <1>8, <2>1 DEF EditNote
<1> QED
  BY <1>1, <1>2, <1>3, <1>4, <1>6, <1>7, <1>8 DEF DocumentNext

\* Every step keeps every type.
LEMMA NextType == TypeOK /\ [Next]_vars => TypeOK'
<1> SUFFICES ASSUME TypeOK, [Next]_vars PROVE TypeOK'
  OBVIOUS
<1>1. CASE PaymentNext
  BY <1>1, CreateType, UpdateType, DeleteType, AssignType, OnlineType, ChallanType DEF PaymentNext
<1>2. CASE DocumentNext
  BY <1>2, DocumentType
<1>3. CASE UNCHANGED vars
  BY <1>3 DEF vars, TypeOK
<1> QED
  BY <1>1, <1>2, <1>3 DEF Next

\* Whatever is called, the books stay well typed: amounts paid never become
\* negative, statuses are statuses, and each payment posts finitely often.
THEOREM TypeCorrect == Spec => []TypeOK
BY InitType, NextType, PTL DEF Spec

-----------------------------------------------------------------------------
(* What invoices count as paid is what live payments hold.                 *)

\* What payment p counts for on invoice i.
Counted(p, i) == IF payment[p].state = "live" THEN Held(p)[i] ELSE 0
CountedOn(i) == [p \in Payments |-> Counted(p, i)]

\* What a payment counts for is an amount, and no more than all of them do.
LEMMA CountedType ==
    ASSUME TypeOK, NEW i \in Invoices
    PROVE  /\ CountedOn(i) \in [Payments -> Nat]
           /\ TotalOf(CountedOn(i)) \in Nat
           /\ \A p \in Payments : Counted(p, i) <= TotalOf(CountedOn(i))
<1>1. CountedOn(i) \in [Payments -> Nat]
  BY HeldIsAllocation DEF CountedOn, Counted, Allocation
<1>2. TotalOf(CountedOn(i)) \in Nat
  BY <1>1, TotalIsNat
<1>3. ASSUME NEW p \in Payments PROVE Counted(p, i) <= TotalOf(CountedOn(i))
  <2>1. CountedOn(i)[p] <= TotalOf(CountedOn(i))
    BY <1>1, TermWithinTotal
  <2> QED
    BY <2>1 DEF CountedOn
<1> QED
  BY <1>1, <1>2, <1>3

\* When the state, the invoice, the amount and the rows of only one payment
\* change, what is held changes by what that payment holds.
LEMMA CountedUpdate ==
    ASSUME TypeOK, TypeOK', NEW p \in Payments, NEW i \in Invoices,
           \A q \in Payments \ {p} : payment'[q] = payment[q] /\ alloc'[q] = alloc[q]
    PROVE  TotalOf(CountedOn(i))' = TotalOf(CountedOn(i)) - Counted(p, i) + Counted(p, i)'
<1> DEFINE f == CountedOn(i)
           g == CountedOn(i)'
<1>1. f \in [Payments -> Nat]
  BY CountedType
<1>2. g \in [Payments -> Nat]
  <2>1. ASSUME NEW q \in Payments PROVE Counted(q, i)' \in Nat
    <3>1. payment'[q] \in PaymentRow /\ alloc'[q] \in Allocation
      BY DEF TypeOK
    <3> QED
      BY <3>1 DEF Counted, Held, PaymentRow, Allocation
  <2> QED
    BY <2>1 DEF CountedOn
<1>3. \A q \in Payments \ {p} : f[q] = g[q]
  BY DEF CountedOn, Counted, Held
<1>4. f[p] = Counted(p, i) /\ g[p] = Counted(p, i)'
  BY DEF CountedOn
<1>5. TotalOf(g) = TotalOf(f) - f[p] + g[p]
  <2> HIDE DEF f, g
  <2> QED
    BY <1>1, <1>2, <1>3, TotalUpdate
<1> QED
  BY <1>4, <1>5

\* Once the rows of a request are stored, they are what the payment holds: a
\* request without rows leaves a payment without an invoice.
LEMMA StoredRowsAreHeld ==
    ASSUME NEW p \in Payments, NEW rows \in Allocation,
           Support(rows) = {} => payment'[p].primary \notin Invoices,
           alloc'[p] = rows
    PROVE  \A i \in Invoices : Held(p)'[i] = rows[i]
<1> SUFFICES ASSUME NEW i \in Invoices PROVE Held(p)'[i] = rows[i]
  OBVIOUS
<1>1. CASE Support(rows) # {}
  BY <1>1 DEF Held, Support
<1>2. CASE Support(rows) = {}
  <2>1. rows[i] = 0
    BY <1>2 DEF Support, Allocation
  <2>2. Held(p)'[i] = 0
    BY <1>2 DEF Held, Support
  <2> QED
    BY <2>1, <2>2
<1> QED
  BY <1>1, <1>2

\* A step of a payment keeps PaidMatchesAllocations when it changes what the
\* invoices count as paid by what the payment counted for before and after.
LEMMA PaidFollows ==
    ASSUME TypeOK, TypeOK', PaidMatchesAllocations, NEW p \in Payments,
           \A q \in Payments \ {p} : payment'[q] = payment[q] /\ alloc'[q] = alloc[q],
           \A i \in Invoices :
              invoice'[i].paid = invoice[i].paid - Counted(p, i) + Counted(p, i)'
    PROVE  PaidMatchesAllocations'
<1> SUFFICES ASSUME NEW i \in Invoices
             PROVE  invoice'[i].paid = TotalOf(CountedOn(i))'
  BY DEF PaidMatchesAllocations, CountedOn, Counted
<1>1. invoice[i].paid = TotalOf(CountedOn(i))
  BY DEF PaidMatchesAllocations, CountedOn, Counted
<1>2. TotalOf(CountedOn(i))' = TotalOf(CountedOn(i)) - Counted(p, i) + Counted(p, i)'
  BY CountedUpdate
<1> QED
  BY <1>1, <1>2

\* What a live payment holds on an invoice, the invoice counts as paid.
LEMMA HeldWithinPaid ==
    ASSUME TypeOK, PaidMatchesAllocations, NEW p \in Payments, payment[p].state = "live",
           NEW i \in Invoices
    PROVE  /\ Held(p)[i] \in Nat /\ invoice[i].paid \in Nat
           /\ Greater(invoice[i].paid - Held(p)[i], 0) = invoice[i].paid - Held(p)[i]
           /\ Counted(p, i) = Held(p)[i]
<1>1. Held(p)[i] \in Nat /\ invoice[i].paid \in Nat
  BY HeldIsAllocation DEF Allocation, TypeOK, InvoiceRow
<1>2. invoice[i].paid = TotalOf(CountedOn(i))
  BY DEF PaidMatchesAllocations, CountedOn, Counted
<1>3. Counted(p, i) = Held(p)[i]
  BY DEF Counted
<1>4. Held(p)[i] <= invoice[i].paid
  BY <1>2, <1>3, CountedType
<1> QED
  BY <1>1, <1>3, <1>4 DEF Greater

\* payment.create counts for what it allocates.
LEMMA CreatePaid ==
    ASSUME TypeOK, TypeOK', PaidMatchesAllocations,
           NEW p \in Payments, NEW rows \in Requests, NEW first \in PrimaryOf(rows),
           NEW amount \in Amounts, NEW discount \in Discounts, NEW tds \in TaxAmounts,
           NEW account \in Accounts \cup {NoAccount},
           CreatePayment(p, rows, first, amount, discount, tds, account)
    PROVE  PaidMatchesAllocations'
<1>1. rows \in Allocation
  BY DEF Requests, Allocation
<1>2. /\ payment[p].state = "none" /\ payment'[p].state = "live"
      /\ payment'[p].primary = first /\ alloc'[p] = rows
      /\ invoice' = Applied(invoice, rows)
      /\ \A q \in Payments \ {p} : payment'[q] = payment[q] /\ alloc'[q] = alloc[q]
  BY DEF CreatePayment, TypeOK
<1>3. Support(rows) = {} => first \notin Invoices
  <2>1. Support(rows) = {} => rows = NothingTo
    BY <1>1 DEF Support, NothingTo, Allocation
  <2> QED
    BY <2>1 DEF PrimaryOf
<1>4. \A i \in Invoices : Held(p)'[i] = rows[i]
  BY <1>1, <1>2, <1>3, StoredRowsAreHeld
<1>5. ASSUME NEW i \in Invoices
      PROVE  invoice'[i].paid = invoice[i].paid - Counted(p, i) + Counted(p, i)'
  <2>1. invoice'[i].paid = invoice[i].paid + rows[i]
    <3>1. invoice \in [Invoices -> InvoiceRow]
      BY DEF TypeOK
    <3>2. Applied(invoice, rows)[i].paid = invoice[i].paid + rows[i]
      BY <1>1, <3>1, AppliedRows
    <3> QED
      BY <1>2, <3>2
  <2>2. Counted(p, i) = 0 /\ Counted(p, i)' = rows[i]
    BY <1>2, <1>4 DEF Counted
  <2>3. invoice[i].paid \in Nat /\ rows[i] \in Nat
    BY <1>1 DEF TypeOK, InvoiceRow, Allocation
  <2> QED
    BY <2>1, <2>2, <2>3
<1> QED
  BY <1>2, <1>5, PaidFollows

\* payment.update of a live payment takes back what it counted for, and no
\* less, before it counts for the new rows.
LEMMA UpdatePaid ==
    ASSUME "editDeleted" \notin Uses, TypeOK, TypeOK', PaidMatchesAllocations,
           NEW p \in Payments, NEW asked \in Requests, NEW first \in PrimaryOf(asked),
           NEW amount \in Amounts, NEW discount \in Discounts, NEW tds \in TaxAmounts,
           NEW account \in Accounts \cup {NoAccount},
           UpdatePayment(p, asked, first, amount, discount, tds, account)
    PROVE  PaidMatchesAllocations'
<1> DEFINE rows == UpdateRows(p, asked, first, amount)
           primary == UpdatePrimary(p, asked, first)
           released == Reversed(invoice, Held(p))
<1>1. /\ payment[p].state = "live" /\ payment'[p].state = "live"
      /\ payment'[p].primary = primary /\ alloc'[p] = rows
      /\ invoice' = Applied(released, rows)
      /\ \A q \in Payments \ {p} : payment'[q] = payment[q] /\ alloc'[q] = alloc[q]
  BY DEF UpdatePayment, UpdateRows, UpdatePrimary, TypeOK
<1>2. asked \in Allocation /\ amount \in Nat /\ amount > 0
  <2>1. asked \in Allocation
    BY DEF Requests, Allocation
  <2>2. amount \in Nat /\ amount > 0
    OBVIOUS
  <2> QED
    BY <2>1, <2>2
<1>3. rows \in Allocation
  BY <1>2 DEF UpdateRows, Allocation
<1>4. Support(rows) = {} => primary \notin Invoices
  <2>1. CASE asked = NothingTo
    BY <1>2, <2>1 DEF UpdateRows, UpdatePrimary, Support
  <2>2. CASE asked # NothingTo
    BY <1>2, <2>2 DEF UpdateRows, Support, NothingTo, Allocation
  <2> QED
    BY <2>1, <2>2
<1> HIDE DEF rows, primary
<1>5. \A i \in Invoices : Held(p)'[i] = rows[i]
  BY <1>1, <1>3, <1>4, StoredRowsAreHeld
<1>6. ASSUME NEW i \in Invoices
      PROVE  invoice'[i].paid = invoice[i].paid - Counted(p, i) + Counted(p, i)'
  <2>1. /\ released \in [Invoices -> InvoiceRow]
        /\ released[i].paid = Greater(invoice[i].paid - Held(p)[i], 0)
    BY HeldIsAllocation, ReversedRows DEF TypeOK
  <2> HIDE DEF released
  <2>2. invoice'[i].paid = released[i].paid + rows[i]
    BY <1>1, <1>3, <2>1, AppliedRows
  <2>3. Counted(p, i)' = rows[i] /\ rows[i] \in Nat
    BY <1>1, <1>3, <1>5 DEF Counted, Allocation
  <2>4. /\ Greater(invoice[i].paid - Held(p)[i], 0) = invoice[i].paid - Held(p)[i]
        /\ Counted(p, i) = Held(p)[i]
    BY <1>1, HeldWithinPaid
  <2> QED
    BY <2>1, <2>2, <2>3, <2>4
<1> QED
  BY <1>1, <1>6, PaidFollows

\* payment.delete takes back what the payment counted for.
LEMMA DeletePaid ==
    ASSUME TypeOK, TypeOK', PaidMatchesAllocations, NEW p \in Payments, DeletePayment(p)
    PROVE  PaidMatchesAllocations'
<1>1. /\ payment[p].state = "live" /\ payment'[p].state = "deleted"
      /\ invoice' = Reversed(invoice, Held(p))
      /\ \A q \in Payments \ {p} : payment'[q] = payment[q] /\ alloc'[q] = alloc[q]
  BY DEF DeletePayment, TypeOK, PaymentRow
<1>2. ASSUME NEW i \in Invoices
      PROVE  invoice'[i].paid = invoice[i].paid - Counted(p, i) + Counted(p, i)'
  <2>1. invoice'[i].paid = Greater(invoice[i].paid - Held(p)[i], 0)
    BY <1>1, HeldIsAllocation, ReversedRows DEF TypeOK
  <2>2. Counted(p, i)' = 0
    BY <1>1 DEF Counted
  <2> QED
    BY <1>1, <2>1, <2>2, HeldWithinPaid
<1> QED
  BY <1>1, <1>2, PaidFollows

\* An online payment of an invoice with something to pay counts for what it
\* allocates.
LEMMA OnlinePaid ==
    ASSUME "onlineWhenSettled" \notin Uses, TypeOK, TypeOK', PaidMatchesAllocations,
           NEW p \in Payments, NEW i \in Invoices, NEW amount \in Amounts,
           NEW account \in Gateways \cup {NoAccount}, RecordOnlinePayment(p, i, amount, account)
    PROVE  PaidMatchesAllocations'
<1> DEFINE rows == OnlineRows(i, amount)
<1>1. /\ payment[p].state = "none" /\ payment'[p].state = "live"
      /\ alloc'[p] = rows /\ Due(i) # 0
      /\ invoice' = Applied(invoice, rows)
      /\ \A q \in Payments \ {p} : payment'[q] = payment[q] /\ alloc'[q] = alloc[q]
  BY DEF RecordOnlinePayment, OnlineRows, Due, TypeOK
<1>2. rows \in Allocation /\ rows[i] > 0
  BY <1>1, OnlineAllocates
<1> HIDE DEF rows
<1>3. Support(rows) # {}
  BY <1>2 DEF Support
<1>4. \A j \in Invoices : Held(p)'[j] = rows[j]
  BY <1>1, <1>2, <1>3, StoredRowsAreHeld
<1>5. ASSUME NEW j \in Invoices
      PROVE  invoice'[j].paid = invoice[j].paid - Counted(p, j) + Counted(p, j)'
  <2>1. invoice'[j].paid = invoice[j].paid + rows[j]
    BY <1>1, <1>2, AppliedRows DEF TypeOK
  <2>2. Counted(p, j) = 0 /\ Counted(p, j)' = rows[j]
    BY <1>1, <1>4 DEF Counted
  <2>3. invoice[j].paid \in Nat /\ rows[j] \in Nat
    BY <1>2 DEF TypeOK, InvoiceRow, Allocation
  <2> QED
    BY <2>1, <2>2, <2>3
<1> QED
  BY <1>1, <1>5, PaidFollows

\* Nothing that happens to invoices and notes changes what was paid.
LEMMA DocumentPaid ==
    ASSUME TypeOK, DocumentNext
    PROVE  /\ \A i \in Invoices : invoice'[i].paid = invoice[i].paid
           /\ payment' = payment /\ alloc' = alloc
<1>1. ASSUME NEW i \in Invoices, NEW status \in InvoiceStatus, SetInvoiceStatus(i, status)
      PROVE  /\ \A j \in Invoices : invoice'[j].paid = invoice[j].paid
             /\ payment' = payment /\ alloc' = alloc
  BY <1>1 DEF SetInvoiceStatus, TypeOK, InvoiceRow
<1>2. ASSUME NEW i \in Invoices, NEW total \in Totals, EditInvoice(i, total)
      PROVE  /\ \A j \in Invoices : invoice'[j].paid = invoice[j].paid
             /\ payment' = payment /\ alloc' = alloc
  <2>1. payment' = payment /\ alloc' = alloc
    BY <1>2 DEF EditInvoice
  <2> QED
    BY <1>2, <2>1, EditedRow
<1>3. ASSUME NEW i \in Invoices, DeleteInvoice(i)
      PROVE  /\ \A j \in Invoices : invoice'[j].paid = invoice[j].paid
             /\ payment' = payment /\ alloc' = alloc
  BY <1>3 DEF DeleteInvoice, TypeOK, InvoiceRow
<1>4. ASSUME NEW notes, NEW ref, invoice' = Readjusted(notes, ref), payment' = payment, alloc' = alloc
      PROVE  /\ \A j \in Invoices : invoice'[j].paid = invoice[j].paid
             /\ payment' = payment /\ alloc' = alloc
  BY <1>4, ReadjustedRows
<1>5. ASSUME NEW n \in Notes, NEW i \in Invoices, NEW total \in Amounts, CreateNote(n, i, total)
      PROVE  /\ \A j \in Invoices : invoice'[j].paid = invoice[j].paid
             /\ payment' = payment /\ alloc' = alloc
  BY <1>4, <1>5 DEF CreateNote
<1>6. ASSUME NEW n \in Notes, NEW state \in {"live", "cancelled"}, SetNoteStatus(n, state)
      PROVE  /\ \A j \in Invoices : invoice'[j].paid = invoice[j].paid
             /\ payment' = payment /\ alloc' = alloc
  BY <1>4, <1>6 DEF SetNoteStatus
<1>7. ASSUME NEW n \in Notes, DeleteNote(n)
      PROVE  /\ \A j \in Invoices : invoice'[j].paid = invoice[j].paid
             /\ payment' = payment /\ alloc' = alloc
  BY <1>4, <1>7 DEF DeleteNote
<1>8. ASSUME NEW n \in Notes, NEW total \in Amounts, EditNote(n, total)
      PROVE  /\ \A j \in Invoices : invoice'[j].paid = invoice[j].paid
             /\ payment' = payment /\ alloc' = alloc
  BY <1>4, <1>8 DEF EditNote
<1> QED
  BY <1>1, <1>2, <1>3, <1>5, <1>6, <1>7, <1>8 DEF DocumentNext

\* Only payments and their allocations, and what invoices count as paid, decide
\* PaidMatchesAllocations.
LEMMA PaidUnchanged ==
    ASSUME PaidMatchesAllocations, \A i \in Invoices : invoice'[i].paid = invoice[i].paid,
           payment' = payment, alloc' = alloc
    PROVE  PaidMatchesAllocations'
BY DEF PaidMatchesAllocations, Held

\* A step that leaves alone what a payment is, holds and is linked to leaves
\* alone what it counts for.
LEMMA PaidKept ==
    ASSUME TypeOK, PaidMatchesAllocations, UNCHANGED <<invoice, alloc>>,
           \A q \in Payments : /\ payment'[q].state = payment[q].state
                               /\ payment'[q].primary = payment[q].primary
                               /\ payment'[q].amount = payment[q].amount
    PROVE  PaidMatchesAllocations'
<1>1. ASSUME NEW i \in Invoices PROVE CountedOn(i)' = CountedOn(i)
  BY DEF CountedOn, Counted, Held
<1>2. \A i \in Invoices : invoice[i].paid = TotalOf(CountedOn(i))
  BY DEF PaidMatchesAllocations, CountedOn, Counted
<1>3. \A i \in Invoices : invoice'[i].paid = TotalOf(CountedOn(i)')
  BY <1>1, <1>2
<1> QED
  BY <1>3 DEF PaidMatchesAllocations, CountedOn, Counted

\* No step of a handler makes an invoice count money that no live payment
\* holds on it, or lose money that one does.
LEMMA PaidStep ==
    ASSUME "editDeleted" \notin Uses, "onlineWhenSettled" \notin Uses,
           TypeOK, TypeOK', PaidMatchesAllocations, [Next]_vars
    PROVE  PaidMatchesAllocations'
<1>1. ASSUME NEW p \in Payments, NEW account \in Accounts, AssignAccount(p, account)
      PROVE  PaidMatchesAllocations'
  <2>1. \A q \in Payments : /\ payment'[q].state = payment[q].state
                            /\ payment'[q].primary = payment[q].primary
                            /\ payment'[q].amount = payment[q].amount
    BY <1>1 DEF AssignAccount, TypeOK, PaymentRow
  <2>2. UNCHANGED <<invoice, alloc>>
    BY <1>1 DEF AssignAccount
  <2> QED
    BY <2>1, <2>2, PaidKept
<1>2. ASSUME NEW p \in Payments, DepositTax(p) \/ RemoveChallan(p)
      PROVE  PaidMatchesAllocations'
  <2>1. \A q \in Payments : /\ payment'[q].state = payment[q].state
                            /\ payment'[q].primary = payment[q].primary
                            /\ payment'[q].amount = payment[q].amount
    BY <1>2 DEF DepositTax, RemoveChallan, TypeOK, PaymentRow
  <2>2. UNCHANGED <<invoice, alloc>>
    BY <1>2 DEF DepositTax, RemoveChallan
  <2> QED
    BY <2>1, <2>2, PaidKept
<1>3. CASE PaymentNext
  BY <1>1, <1>2, <1>3, CreatePaid, UpdatePaid, DeletePaid, OnlinePaid DEF PaymentNext
<1>4. CASE DocumentNext
  BY <1>4, DocumentPaid, PaidUnchanged
<1>5. CASE UNCHANGED vars
  BY <1>5, PaidUnchanged DEF vars
<1> QED
  BY <1>3, <1>4, <1>5 DEF Next

\* Initially nothing is paid and nothing is held.
LEMMA InitPaid == Init => PaidMatchesAllocations
<1> SUFFICES ASSUME Init, NEW i \in Invoices PROVE invoice[i].paid = TotalOf(CountedOn(i))
  BY DEF PaidMatchesAllocations, CountedOn, Counted
<1>1. CountedOn(i) \in [Payments -> Nat] /\ \A p \in Payments : CountedOn(i)[p] = 0
  BY DEF Init, CountedOn, Counted
<1>2. TotalOf(CountedOn(i)) = 0
  BY <1>1, TotalOfZeroes
<1> QED
  BY <1>2 DEF Init

\* amount-paid-matches-allocations for any number of invoices and payments:
\* unless a deleted payment is edited, or an online payment reaches an invoice
\* with nothing left to pay, amount_paid is what the live payments hold.
THEOREM PaidMatches ==
    ASSUME "editDeleted" \notin Uses, "onlineWhenSettled" \notin Uses
    PROVE  Spec => []PaidMatchesAllocations
<1>1. Init => PaidMatchesAllocations
  BY InitPaid
<1>2. TypeOK /\ TypeOK' /\ PaidMatchesAllocations /\ [Next]_vars => PaidMatchesAllocations'
  BY PaidStep
<1> QED
  BY <1>1, <1>2, TypeCorrect, PTL DEF Spec

-----------------------------------------------------------------------------
(* No payment takes an invoice past its total.                             *)

\* What invoice i counts as paid does not grow, or fits.
Fits(i) == invoice'[i].paid > invoice[i].paid => invoice'[i].paid <= invoice'[i].total

\* Rows within the balances that are left take no invoice past its total.
LEMMA AppliedFits ==
    ASSUME TypeOK, NEW invs \in [Invoices -> InvoiceRow], NEW rows \in Allocation,
           \A i \in Invoices : /\ invs[i].paid <= invoice[i].paid
                               /\ invs[i].total = invoice[i].total,
           WithinBalances(invs, rows), invoice' = Applied(invs, rows)
    PROVE  \A i \in Invoices : Fits(i)
<1> SUFFICES ASSUME NEW i \in Invoices PROVE Fits(i)
  OBVIOUS
<1>1. invoice'[i].paid = invs[i].paid + rows[i] /\ invoice'[i].total = invs[i].total
  BY AppliedRows
<1>2. /\ invs[i].paid \in Nat /\ invs[i].total \in Nat /\ rows[i] \in Nat
      /\ invoice[i].paid \in Nat
  BY DEF TypeOK, InvoiceRow, Allocation
<1>3. rows[i] > 0 => rows[i] <= invs[i].total - invs[i].paid
  BY DEF WithinBalances, Support
<1> QED
  BY <1>1, <1>2, <1>3 DEF Fits

\* Taking rows back leaves less paid, of the same total.
LEMMA ReversedLess ==
    ASSUME TypeOK, NEW rows \in Allocation
    PROVE  /\ Reversed(invoice, rows) \in [Invoices -> InvoiceRow]
           /\ \A i \in Invoices : /\ Reversed(invoice, rows)[i].paid <= invoice[i].paid
                                  /\ Reversed(invoice, rows)[i].total = invoice[i].total
<1>1. invoice \in [Invoices -> InvoiceRow]
  BY DEF TypeOK
<1>2. \A i \in Invoices :
         /\ Reversed(invoice, rows)[i].paid = Greater(invoice[i].paid - rows[i], 0)
         /\ invoice[i].paid \in Nat /\ rows[i] \in Nat
  BY <1>1, ReversedRows DEF InvoiceRow, Allocation
<1> QED
  BY <1>1, <1>2, ReversedRows DEF Greater

\* What Razorpay tells of a payment is capped at what is due.
LEMMA OnlineFits ==
    ASSUME TypeOK, NEW p \in Payments, NEW i \in Invoices, NEW amount \in Amounts, NEW account,
           RecordOnlinePayment(p, i, amount, account)
    PROVE  \A j \in Invoices : Fits(j)
<1> DEFINE rows == OnlineRows(i, amount)
<1>1. invoice' = Applied(invoice, rows)
  BY DEF RecordOnlinePayment, OnlineRows, Due
<1>2. /\ rows \in Allocation
      /\ \A j \in Invoices \ {i} : rows[j] = 0
      /\ rows[i] <= Due(i)
      /\ Due(i) # 0 => Due(i) = invoice[i].total - invoice[i].paid - AdjustedBy(note, i)
  BY OnlineAllocates
<1>3. /\ AdjustedBy(note, i) \in Nat /\ invoice[i].total \in Nat /\ invoice[i].paid \in Nat
      /\ rows[i] \in Nat /\ invoice \in [Invoices -> InvoiceRow]
  BY <1>2, AdjustedIsNat DEF TypeOK, InvoiceRow, Allocation
<1> HIDE DEF rows
<1>4. rows[i] > 0 => rows[i] <= invoice[i].total - invoice[i].paid
  BY <1>2, <1>3
<1>5. WithinBalances(invoice, rows)
  BY <1>2, <1>4 DEF WithinBalances, Support
<1>6. \A j \in Invoices : invoice[j].paid <= invoice[j].paid
  BY DEF TypeOK, InvoiceRow
<1> QED
  BY <1>1, <1>2, <1>3, <1>5, <1>6, AppliedFits

\* Every step of a payment fits into what its invoices have left.
LEMMA PaymentStepsFit ==
    ASSUME TypeOK, PaymentNext
    PROVE  \A i \in Invoices : Fits(i)
<1>0. /\ invoice \in [Invoices -> InvoiceRow]
      /\ \A i \in Invoices : invoice[i].paid <= invoice[i].paid
  BY DEF TypeOK, InvoiceRow
<1>1. ASSUME NEW p \in Payments, NEW rows \in Requests, NEW first,
             NEW amount \in Amounts, NEW discount \in Discounts, NEW tds \in TaxAmounts,
             NEW account, CreatePayment(p, rows, first, amount, discount, tds, account)
      PROVE  \A i \in Invoices : Fits(i)
  <2>1. rows \in Allocation
    BY DEF Requests, Allocation
  <2>2. invoice' = Applied(invoice, rows) /\ WithinBalances(invoice, rows)
    BY <1>1 DEF CreatePayment
  <2> QED
    BY <1>0, <2>1, <2>2, AppliedFits
<1>2. ASSUME NEW p \in Payments, NEW asked \in Requests, NEW first,
             NEW amount \in Amounts, NEW discount \in Discounts, NEW tds \in TaxAmounts,
             NEW account, UpdatePayment(p, asked, first, amount, discount, tds, account)
      PROVE  \A i \in Invoices : Fits(i)
  <2> DEFINE rows == UpdateRows(p, asked, first, amount)
             released == Reversed(invoice, Held(p))
  <2>1. rows \in Allocation
    BY DEF UpdateRows, Requests, Allocation
  <2>2. invoice' = Applied(released, rows) /\ WithinBalances(released, rows)
    BY <1>2 DEF UpdatePayment, UpdateRows
  <2>3. /\ released \in [Invoices -> InvoiceRow]
        /\ \A i \in Invoices : /\ released[i].paid <= invoice[i].paid
                               /\ released[i].total = invoice[i].total
    BY HeldIsAllocation, ReversedLess
  <2> HIDE DEF rows, released
  <2> QED
    BY <2>1, <2>2, <2>3, AppliedFits
<1>3. ASSUME NEW p \in Payments, DeletePayment(p) PROVE \A i \in Invoices : Fits(i)
  <2>1. \A i \in Invoices : /\ invoice'[i].paid <= invoice[i].paid
                            /\ invoice'[i].paid \in Nat /\ invoice[i].paid \in Nat
    BY <1>0, <1>3, HeldIsAllocation, ReversedLess DEF DeletePayment, InvoiceRow
  <2> QED
    BY <2>1 DEF Fits
<1>4. ASSUME UNCHANGED invoice PROVE \A i \in Invoices : Fits(i)
  BY <1>0, <1>4 DEF Fits, InvoiceRow
<1> QED
  BY <1>1, <1>2, <1>3, <1>4, OnlineFits DEF PaymentNext, AssignAccount, DepositTax, RemoveChallan

\* For any number of invoices and payments, and with nothing excluded: no payment that is
\* made, edited, deleted or told by Razorpay takes an invoice past its total.
THEOREM PaymentsAlwaysFit == Spec => PaymentsFit
<1>1. TypeOK /\ [Next]_vars =>
         [\A i \in Invoices : invoice'[i].paid > invoice[i].paid =>
             invoice'[i].paid <= invoice'[i].total]_vars
  <2> SUFFICES ASSUME TypeOK, Next PROVE \A i \in Invoices : Fits(i)
    BY DEF Fits
  <2>1. CASE PaymentNext
    BY <2>1, PaymentStepsFit
  <2>2. CASE DocumentNext
    <3>1. \A i \in Invoices : invoice'[i].paid = invoice[i].paid /\ invoice[i].paid \in Nat
      BY <2>2, DocumentPaid DEF TypeOK, InvoiceRow
    <3> QED
      BY <3>1 DEF Fits
  <2> QED
    BY <2>1, <2>2 DEF Next
<1> QED
  BY <1>1, TypeCorrect, PTL DEF Spec, PaymentsFit

-----------------------------------------------------------------------------
(* What a step on a note does.                                             *)

\* What note n takes off invoice i.
TakenOff(notes, n, i) == IF notes[n].state = "live" /\ notes[n].ref = i THEN notes[n].total ELSE 0

\* When one note changes, what the notes take off an invoice changes by as much.
LEMMA AdjustedUpdate ==
    ASSUME NEW old \in [Notes -> NoteRow], NEW new \in [Notes -> NoteRow], NEW n \in Notes,
           \A m \in Notes \ {n} : new[m] = old[m], NEW i
    PROVE  /\ AdjustedBy(new, i) = AdjustedBy(old, i) - TakenOff(old, n, i) + TakenOff(new, n, i)
           /\ TakenOff(old, n, i) \in Nat /\ TakenOff(new, n, i) \in Nat
<1> DEFINE f == [m \in Notes |-> IF old[m].state = "live" /\ old[m].ref = i
                                 THEN old[m].total ELSE 0]
           g == [m \in Notes |-> IF new[m].state = "live" /\ new[m].ref = i
                                 THEN new[m].total ELSE 0]
<1>1. f \in [Notes -> Nat] /\ g \in [Notes -> Nat]
  BY DEF NoteRow
<1>2. \A m \in Notes \ {n} : f[m] = g[m]
  OBVIOUS
<1>3. f[n] = TakenOff(old, n, i) /\ g[n] = TakenOff(new, n, i)
  BY DEF TakenOff
<1>4. AdjustedBy(old, i) = TotalOf(f) /\ AdjustedBy(new, i) = TotalOf(g)
  BY DEF AdjustedBy
<1> HIDE DEF f, g
<1>5. TotalOf(g) = TotalOf(f) - f[n] + g[n]
  BY <1>1, <1>2, TotalUpdate
<1>6. f[n] \in Nat /\ g[n] \in Nat
  BY <1>1
<1> QED
  BY <1>3, <1>4, <1>5, <1>6

\* A step on a note, which writes the notes and works out the invoice the note
\* refers to.
NoteStep(n, notes, ref) ==
    /\ note' = notes
    /\ invoice' = Readjusted(notes, ref)
    /\ UNCHANGED <<payment, alloc, posting, balance>>

\* What the four handlers of notes do: the note alone changes, and unless it is
\* new it refers to what it referred to before.
LEMMA NoteSteps ==
    ASSUME TypeOK, NEW n \in Notes,
           \/ \E i \in Invoices, total \in Amounts : CreateNote(n, i, total)
           \/ \E state \in {"live", "cancelled"} : SetNoteStatus(n, state)
           \/ DeleteNote(n)
           \/ \E total \in Amounts : EditNote(n, total)
    PROVE  \E ref \in Invoices \cup {NoInvoice} :
              /\ NoteStep(n, note', ref)
              /\ note' \in [Notes -> NoteRow]
              /\ \A m \in Notes \ {n} : note'[m] = note[m]
              /\ \A i \in Invoices \ {ref} : /\ TakenOff(note, n, i) = 0
                                             /\ TakenOff(note', n, i) = 0
<1>1. ASSUME NEW i \in Invoices, NEW total \in Amounts, CreateNote(n, i, total)
      PROVE  /\ NoteStep(n, note', i)
             /\ note' \in [Notes -> NoteRow]
             /\ \A m \in Notes \ {n} : note'[m] = note[m]
             /\ \A j \in Invoices \ {i} : TakenOff(note, n, j) = 0 /\ TakenOff(note', n, j) = 0
  <2> DEFINE new == [note EXCEPT ![n] = [state |-> "live", ref |-> i, total |-> total]]
  <2>1. /\ note[n].state = "none" /\ note' = new /\ invoice' = Readjusted(new, i)
        /\ UNCHANGED <<payment, alloc, posting, balance>>
    BY <1>1 DEF CreateNote
  <2>2. new \in [Notes -> NoteRow] /\ note \in [Notes -> NoteRow]
    BY DEF TypeOK, NoteRow
  <2>3. /\ \A m \in Notes \ {n} : new[m] = note[m]
        /\ new[n] = [state |-> "live", ref |-> i, total |-> total]
    BY DEF TypeOK
  <2> HIDE DEF new
  <2>4. /\ \A j \in Invoices : TakenOff(note, n, j) = 0
        /\ \A j \in Invoices \ {i} : TakenOff(new, n, j) = 0
    BY <2>1, <2>3 DEF TakenOff
  <2> QED
    BY <2>1, <2>2, <2>3, <2>4 DEF NoteStep
<1>2. ASSUME NEW row \in NoteRow, row.ref = note[n].ref, note' = [note EXCEPT ![n] = row],
             invoice' = Readjusted(note', note[n].ref),
             UNCHANGED <<payment, alloc, posting, balance>>
      PROVE  /\ note[n].ref \in Invoices \cup {NoInvoice}
             /\ NoteStep(n, note', note[n].ref)
             /\ note' \in [Notes -> NoteRow]
             /\ \A m \in Notes \ {n} : note'[m] = note[m]
             /\ \A j \in Invoices \ {note[n].ref} : /\ TakenOff(note, n, j) = 0
                                                    /\ TakenOff(note', n, j) = 0
  BY <1>2 DEF TypeOK, NoteRow, NoteStep, TakenOff
<1>3. ASSUME NEW state \in {"live", "cancelled"}, SetNoteStatus(n, state)
      PROVE  \E row \in NoteRow : /\ row.ref = note[n].ref /\ note' = [note EXCEPT ![n] = row]
                                  /\ invoice' = Readjusted(note', note[n].ref)
                                  /\ UNCHANGED <<payment, alloc, posting, balance>>
  <2> DEFINE row == [note[n] EXCEPT !.state = state]
  <2>1. row \in NoteRow /\ row.ref = note[n].ref
    BY DEF TypeOK, NoteRow
  <2>2. note' = [note EXCEPT ![n] = row]
    BY <1>3 DEF SetNoteStatus
  <2>3. /\ invoice' = Readjusted(note', note[n].ref)
        /\ UNCHANGED <<payment, alloc, posting, balance>>
    BY <1>3 DEF SetNoteStatus
  <2> HIDE DEF row
  <2> QED
    BY <2>1, <2>2, <2>3
<1>4. ASSUME DeleteNote(n)
      PROVE  \E row \in NoteRow : /\ row.ref = note[n].ref /\ note' = [note EXCEPT ![n] = row]
                                  /\ invoice' = Readjusted(note', note[n].ref)
                                  /\ UNCHANGED <<payment, alloc, posting, balance>>
  <2> DEFINE row == [note[n] EXCEPT !.state = "deleted"]
  <2>1. row \in NoteRow /\ row.ref = note[n].ref
    BY DEF TypeOK, NoteRow
  <2>2. note' = [note EXCEPT ![n] = row]
    BY <1>4 DEF DeleteNote
  <2>3. /\ invoice' = Readjusted(note', note[n].ref)
        /\ UNCHANGED <<payment, alloc, posting, balance>>
    BY <1>4 DEF DeleteNote
  <2> HIDE DEF row
  <2> QED
    BY <2>1, <2>2, <2>3
<1>5. ASSUME NEW total \in Amounts, EditNote(n, total)
      PROVE  \E row \in NoteRow : /\ row.ref = note[n].ref /\ note' = [note EXCEPT ![n] = row]
                                  /\ invoice' = Readjusted(note', note[n].ref)
                                  /\ UNCHANGED <<payment, alloc, posting, balance>>
  <2> DEFINE row == [note[n] EXCEPT !.total = total]
  <2>1. row \in NoteRow /\ row.ref = note[n].ref
    BY DEF TypeOK, NoteRow
  <2>2. note' = [note EXCEPT ![n] = row]
    BY <1>5 DEF EditNote
  <2>3. /\ invoice' = Readjusted(note', note[n].ref)
        /\ UNCHANGED <<payment, alloc, posting, balance>>
    BY <1>5 DEF EditNote
  <2> HIDE DEF row
  <2> QED
    BY <2>1, <2>2, <2>3
<1>6. CASE \E i \in Invoices, total \in Amounts : CreateNote(n, i, total)
  BY <1>1, <1>6
<1>7. CASE \/ \E state \in {"live", "cancelled"} : SetNoteStatus(n, state)
           \/ DeleteNote(n)
           \/ \E total \in Amounts : EditNote(n, total)
  BY <1>2, <1>3, <1>4, <1>5, <1>7
<1> QED
  BY <1>6, <1>7
-----------------------------------------------------------------------------
(* The stored status is the one the rows make.                             *)

\* The status of one invoice is right, its notes taking off adjusted.
StatusRight(row, adjusted) ==
    ~row.deleted /\ row.status # "cancelled" =>
       IF row.status = "draft" THEN row.paid = 0
       ELSE row.status = SettledStatus(row.total, row.paid, adjusted)

\* recomputeInvoiceStatus leaves the status right, if a draft that it does not
\* move on has nothing paid.
LEMMA RecomputedRight ==
    ASSUME NEW row \in InvoiceRow, NEW adjusted, NEW promoteDraft \in BOOLEAN,
           promoteDraft \/ (row.status = "draft" /\ ~row.deleted => row.paid = 0)
    PROVE  StatusRight(Recomputed(row, adjusted, promoteDraft), adjusted)
<1>1. row.paid \in Nat
  BY DEF InvoiceRow
<1>2. CASE \/ row.deleted
           \/ row.status = "cancelled"
           \/ row.status = "draft" /\ ~(promoteDraft /\ row.paid > 0)
  BY <1>1, <1>2 DEF Recomputed, StatusRight
<1>3. CASE ~ \/ row.deleted
             \/ row.status = "cancelled"
             \/ row.status = "draft" /\ ~(promoteDraft /\ row.paid > 0)
  <2> DEFINE new == SettledStatus(row.total, row.paid, adjusted)
  <2>1. Recomputed(row, adjusted, promoteDraft) = [row EXCEPT !.status = new]
    BY <1>3 DEF Recomputed
  <2>2. new # "draft"
    BY DEF SettledStatus
  <2> HIDE DEF new
  <2>3. /\ [row EXCEPT !.status = new].status = new
        /\ [row EXCEPT !.status = new].total = row.total
        /\ [row EXCEPT !.status = new].paid = row.paid
    BY DEF InvoiceRow
  <2> QED
    BY <2>1, <2>2, <2>3 DEF StatusRight, new
<1> QED
  BY <1>2, <1>3

\* The statuses of a set of invoices are right under the notes there are.
AllRight(invs) == \A i \in Invoices : StatusRight(invs[i], AdjustedBy(note, i))

\* Applying rows leaves every status right.
LEMMA AppliedRight ==
    ASSUME NEW invs \in [Invoices -> InvoiceRow], NEW rows \in Allocation, AllRight(invs)
    PROVE  AllRight(Applied(invs, rows))
<1> SUFFICES ASSUME NEW i \in Invoices
             PROVE  StatusRight(Applied(invs, rows)[i], AdjustedBy(note, i))
  BY DEF AllRight
<1>1. CASE rows[i] = 0
  BY <1>1 DEF Applied, AllRight
<1>2. CASE rows[i] # 0
  <2> DEFINE row == [invs[i] EXCEPT !.paid = @ + rows[i]]
  <2>1. row \in InvoiceRow
    BY DEF InvoiceRow, Allocation
  <2>2. Applied(invs, rows)[i] = Recomputed(row, AdjustedBy(note, i), TRUE)
    BY <1>2 DEF Applied, PaidMore
  <2> HIDE DEF row
  <2> QED
    BY <2>1, <2>2, RecomputedRight
<1> QED
  BY <1>1, <1>2

\* Taking rows back leaves every status right.
LEMMA ReversedRight ==
    ASSUME NEW invs \in [Invoices -> InvoiceRow], NEW rows \in Allocation, AllRight(invs)
    PROVE  AllRight(Reversed(invs, rows))
<1> SUFFICES ASSUME NEW i \in Invoices
             PROVE  StatusRight(Reversed(invs, rows)[i], AdjustedBy(note, i))
  BY DEF AllRight
<1>1. CASE rows[i] = 0
  BY <1>1 DEF Reversed, AllRight
<1>2. CASE rows[i] # 0
  <2> DEFINE row == [invs[i] EXCEPT !.paid = Greater(@ - rows[i], 0)]
  <2>1. rows[i] \in Nat /\ invs[i].paid \in Nat
    BY DEF InvoiceRow, Allocation
  <2>2. /\ row \in InvoiceRow
        /\ row.paid = Greater(invs[i].paid - rows[i], 0)
        /\ row.status = invs[i].status /\ row.deleted = invs[i].deleted
    BY <2>1 DEF InvoiceRow, Greater
  <2>3. Reversed(invs, rows)[i] = Recomputed(row, AdjustedBy(note, i), FALSE)
    BY <1>2 DEF Reversed, PaidLess
  <2> HIDE DEF row
  <2>4. invs[i].status = "draft" /\ ~invs[i].deleted => invs[i].paid = 0
    BY DEF AllRight, StatusRight
  <2>5. row.status = "draft" /\ ~row.deleted => row.paid = 0
    BY <2>1, <2>2, <2>4 DEF Greater
  <2> QED
    BY <2>2, <2>3, <2>5, RecomputedRight
<1> QED
  BY <1>1, <1>2

\* PaymentStatus, in terms of single invoices.
LEMMA StatusOfAll ==
    /\ PaymentStatus <=> AllRight(invoice)
    /\ note' = note /\ AllRight(invoice') => PaymentStatus'
<1>1. PaymentStatus <=> AllRight(invoice)
  BY DEF PaymentStatus, AllRight, StatusRight
<1>2. ASSUME note' = note, AllRight(invoice') PROVE PaymentStatus'
  <2>1. \A i \in Invoices : AdjustedBy(note, i)' = AdjustedBy(note, i)
    BY <1>2 DEF AdjustedBy
  <2>2. \A i \in Invoices : StatusRight(invoice'[i], AdjustedBy(note, i)')
    BY <1>2, <2>1 DEF AllRight
  <2> QED
    BY <2>2 DEF PaymentStatus, StatusRight
<1> QED
  BY <1>1, <1>2

\* Every step of a payment leaves every status right.
LEMMA PaymentRight ==
    ASSUME TypeOK, PaymentStatus, PaymentNext
    PROVE  PaymentStatus'
<1>0. invoice \in [Invoices -> InvoiceRow] /\ AllRight(invoice)
  BY StatusOfAll DEF TypeOK
<1>1. ASSUME NEW p \in Payments, NEW rows \in Requests, NEW first,
             NEW amount, NEW discount, NEW tds,
             NEW account, CreatePayment(p, rows, first, amount, discount, tds, account)
      PROVE  note' = note /\ AllRight(invoice')
  <2>1. rows \in Allocation
    BY DEF Requests, Allocation
  <2>2. invoice' = Applied(invoice, rows) /\ note' = note
    BY <1>1 DEF CreatePayment
  <2>3. AllRight(Applied(invoice, rows))
    BY <1>0, <2>1, AppliedRight
  <2> QED
    BY <2>2, <2>3
<1>2. ASSUME NEW p \in Payments, NEW asked \in Requests, NEW first,
             NEW amount \in Amounts, NEW discount, NEW tds,
             NEW account, UpdatePayment(p, asked, first, amount, discount, tds, account)
      PROVE  note' = note /\ AllRight(invoice')
  <2> DEFINE rows == UpdateRows(p, asked, first, amount)
             released == Reversed(invoice, Held(p))
  <2>1. rows \in Allocation
    BY DEF UpdateRows, Requests, Allocation
  <2>2. invoice' = Applied(released, rows) /\ note' = note
    BY <1>2 DEF UpdatePayment, UpdateRows
  <2>3. released \in [Invoices -> InvoiceRow] /\ AllRight(released)
    BY <1>0, HeldIsAllocation, ReversedRows, ReversedRight
  <2> HIDE DEF rows, released
  <2>4. AllRight(Applied(released, rows))
    BY <2>1, <2>3, AppliedRight
  <2> QED
    BY <2>2, <2>4
<1>3. ASSUME NEW p \in Payments, DeletePayment(p)
      PROVE  note' = note /\ AllRight(invoice')
  <2>1. invoice' = Reversed(invoice, Held(p)) /\ note' = note
    BY <1>3 DEF DeletePayment
  <2>2. AllRight(Reversed(invoice, Held(p)))
    BY <1>0, HeldIsAllocation, ReversedRight
  <2> QED
    BY <2>1, <2>2
<1>4. ASSUME NEW p \in Payments, NEW i \in Invoices, NEW amount \in Amounts, NEW account,
             RecordOnlinePayment(p, i, amount, account)
      PROVE  note' = note /\ AllRight(invoice')
  <2>1. invoice' = Applied(invoice, OnlineRows(i, amount)) /\ note' = note
    BY <1>4 DEF RecordOnlinePayment, OnlineRows, Due
  <2>2. OnlineRows(i, amount) \in Allocation
    BY OnlineAllocates
  <2>3. AllRight(Applied(invoice, OnlineRows(i, amount)))
    BY <1>0, <2>2, AppliedRight
  <2> QED
    BY <2>1, <2>3
<1>5. ASSUME UNCHANGED <<invoice, note>> PROVE note' = note /\ AllRight(invoice')
  BY <1>0, <1>5
<1>6. note' = note /\ AllRight(invoice')
  BY <1>1, <1>2, <1>3, <1>4, <1>5 DEF PaymentNext, AssignAccount, DepositTax, RemoveChallan
<1> QED
  BY <1>6, StatusOfAll

\* Every step of an invoice leaves every status right, unless the status is set
\* by hand.
LEMMA InvoiceRight ==
    ASSUME "statusByHand" \notin Uses, TypeOK, PaymentStatus, NEW i \in Invoices,
           \/ \E status \in InvoiceStatus : SetInvoiceStatus(i, status)
           \/ \E total \in Totals : EditInvoice(i, total)
           \/ DeleteInvoice(i)
    PROVE  PaymentStatus'
<1>0. invoice \in [Invoices -> InvoiceRow] /\ AllRight(invoice)
  BY StatusOfAll DEF TypeOK
<1>1. ASSUME NEW new, StatusRight(new, AdjustedBy(note, i)), note' = note,
             invoice' = [invoice EXCEPT ![i] = new]
      PROVE  PaymentStatus'
  <2>1. AllRight(invoice')
    BY <1>0, <1>1 DEF AllRight
  <2> QED
    BY <1>1, <2>1, StatusOfAll
<1>2. ASSUME NEW status \in InvoiceStatus, SetInvoiceStatus(i, status) PROVE PaymentStatus'
  <2> DEFINE new == [invoice[i] EXCEPT !.status = status]
  <2>1. /\ invoice' = [invoice EXCEPT ![i] = new] /\ note' = note
        /\ status \in {"cancelled", SettledStatus(invoice[i].total, invoice[i].paid,
                                                  AdjustedBy(note, i))}
    BY <1>2 DEF SetInvoiceStatus
  <2>2. /\ new.status = status /\ new.total = invoice[i].total
        /\ new.paid = invoice[i].paid
    BY <1>0 DEF InvoiceRow
  <2>3. SettledStatus(invoice[i].total, invoice[i].paid, AdjustedBy(note, i)) # "draft"
    BY DEF SettledStatus
  <2> HIDE DEF new
  <2>4. StatusRight(new, AdjustedBy(note, i))
    BY <2>1, <2>2, <2>3 DEF StatusRight
  <2> QED
    BY <1>1, <2>1, <2>4
<1>3. ASSUME NEW total \in Totals, EditInvoice(i, total) PROVE PaymentStatus'
  <2> DEFINE row == [invoice[i] EXCEPT !.total = total]
             new == Recomputed(row, AdjustedBy(note, i), FALSE)
  <2>1. invoice' = [invoice EXCEPT ![i] = new] /\ note' = note
    BY <1>3 DEF EditInvoice
  <2>2. /\ row \in InvoiceRow
        /\ row.status = invoice[i].status /\ row.deleted = invoice[i].deleted
        /\ row.paid = invoice[i].paid
    BY <1>0 DEF InvoiceRow
  <2>3. invoice[i].status = "draft" /\ ~invoice[i].deleted => invoice[i].paid = 0
    BY <1>0 DEF AllRight, StatusRight
  <2> HIDE DEF row
  <2>4. StatusRight(new, AdjustedBy(note, i))
    BY <2>2, <2>3, RecomputedRight
  <2> HIDE DEF new
  <2> QED
    BY <1>1, <2>1, <2>4
<1>4. ASSUME DeleteInvoice(i) PROVE PaymentStatus'
  <2> DEFINE new == [[invoice[i] EXCEPT !.deleted = TRUE] EXCEPT !.status = "cancelled"]
  <2>1. invoice' = [invoice EXCEPT ![i] = new] /\ note' = note
    BY <1>0, <1>4 DEF DeleteInvoice
  <2>2. new.status = "cancelled"
    BY <1>0 DEF InvoiceRow
  <2> HIDE DEF new
  <2>3. StatusRight(new, AdjustedBy(note, i))
    BY <2>2 DEF StatusRight
  <2> QED
    BY <1>1, <2>1, <2>3
<1> QED
  BY <1>2, <1>3, <1>4

\* A step on a note leaves every status right: the invoice it refers to is
\* worked out anew, and the others' notes are what they were.
LEMMA NoteRight ==
    ASSUME TypeOK, PaymentStatus, NEW n \in Notes, NEW ref,
           NoteStep(n, note', ref), note' \in [Notes -> NoteRow],
           \A m \in Notes \ {n} : note'[m] = note[m],
           \A i \in Invoices \ {ref} : TakenOff(note, n, i) = 0 /\ TakenOff(note', n, i) = 0
    PROVE  PaymentStatus'
<1>0. invoice \in [Invoices -> InvoiceRow] /\ AllRight(invoice)
  BY StatusOfAll DEF TypeOK
<1>1. ASSUME NEW i \in Invoices PROVE StatusRight(invoice'[i], AdjustedBy(note', i))
  <2>1. CASE i = ref
    <3>1. invoice'[i] = Recomputed(invoice[i], AdjustedBy(note', i), FALSE)
      BY <2>1 DEF NoteStep, Readjusted
    <3>2. invoice[i].status = "draft" /\ ~invoice[i].deleted => invoice[i].paid = 0
      BY <1>0 DEF AllRight, StatusRight
    <3>3. invoice[i] \in InvoiceRow
      BY <1>0
    <3> QED
      BY <3>1, <3>2, <3>3, RecomputedRight
  <2>2. CASE i # ref
    <3>1. invoice'[i] = invoice[i]
      BY <2>2 DEF NoteStep, Readjusted
    <3>2. note \in [Notes -> NoteRow] /\ AdjustedBy(note, i) \in Nat
      BY AdjustedIsNat DEF TypeOK
    <3>3. AdjustedBy(note', i) = AdjustedBy(note, i) - 0 + 0
      BY <2>2, <3>2, AdjustedUpdate
    <3>4. AdjustedBy(note', i) = AdjustedBy(note, i)
      BY <3>2, <3>3
    <3> QED
      BY <1>0, <3>1, <3>4 DEF AllRight
  <2> QED
    BY <2>1, <2>2
<1>2. \A i \in Invoices : AdjustedBy(note, i)' = AdjustedBy(note', i)
  BY DEF AdjustedBy
<1> QED
  BY <1>1, <1>2 DEF PaymentStatus, StatusRight

\* payment-status for any number of invoices, payments and notes: unless it is
\* set by hand, the stored status of every invoice is what settledInvoiceStatus
\* makes of its rows, whatever order the handlers ran in.
THEOREM StatusFollowsRows ==
    ASSUME "statusByHand" \notin Uses
    PROVE  Spec => []PaymentStatus
<1>1. Init => PaymentStatus
  <2> SUFFICES ASSUME Init, NEW i \in Invoices
               PROVE  StatusRight(invoice[i], AdjustedBy(note, i))
    BY StatusOfAll DEF AllRight
  <2> DEFINE f == [n \in Notes |-> IF note[n].state = "live" /\ note[n].ref = i
                                   THEN note[n].total ELSE 0]
  <2>1. f \in [Notes -> Nat] /\ \A n \in Notes : f[n] = 0
    BY DEF Init
  <2>2. TotalOf(f) = 0
    <3> HIDE DEF f
    <3> QED
      BY <2>1, TotalOfZeroes
  <2>3. AdjustedBy(note, i) = 0
    BY <2>2 DEF AdjustedBy
  <2>4. invoice[i].paid = 0 /\ invoice[i].status \in {"draft", "open"}
    BY DEF Init
  <2> QED
    BY <2>3, <2>4 DEF StatusRight, SettledStatus
<1>2. TypeOK /\ PaymentStatus /\ [Next]_vars => PaymentStatus'
  <2> SUFFICES ASSUME TypeOK, PaymentStatus, [Next]_vars PROVE PaymentStatus'
    OBVIOUS
  <2>1. ASSUME NEW n \in Notes,
               \/ \E i \in Invoices, total \in Amounts : CreateNote(n, i, total)
               \/ \E state \in {"live", "cancelled"} : SetNoteStatus(n, state)
               \/ DeleteNote(n)
               \/ \E total \in Amounts : EditNote(n, total)
        PROVE  PaymentStatus'
    BY <2>1, NoteSteps, NoteRight
  <2>2. CASE UNCHANGED vars
    <3>1. note' = note /\ AllRight(invoice')
      BY <2>2, StatusOfAll DEF vars
    <3> QED
      BY <3>1, StatusOfAll
  <2> QED
    BY <2>1, <2>2, PaymentRight, InvoiceRight DEF Next, DocumentNext
<1> QED
  BY <1>1, <1>2, TypeCorrect, PTL DEF Spec

-----------------------------------------------------------------------------
(* A payment's postings are those of its account.                          *)

\* A payment without an account, or not made yet, has posted nothing.
AccountlessUnposted ==
    \A p \in Payments :
        payment[p].state = "none" \/ payment[p].account = NoAccount => posting[p] = {}

\* So undoing a payment takes back everything it posted.
LEMMA AllReversible ==
    ASSUME AccountlessUnposted, NEW p \in Payments
    PROVE  Reversible(p) = posting[p]
BY DEF Reversible, AccountlessUnposted

\* A payment's new postings when it has an account or none: its own, and those
\* of a gateway.
LEMMA OwnPosting ==
    ASSUME NEW account \in Accounts \cup {NoAccount}, NEW amount \in Nat, NEW outflow \in BOOLEAN
    PROVE  LET own == {x \in Postings(account, amount, outflow) : x.ref = "payment"}
           IN  /\ own = PaymentPosting(account, amount, outflow)
               /\ {x \in PaymentPosting(account, amount, outflow) : x.ref = "payment"} = own
               /\ account = NoAccount => Postings(account, amount, outflow) = {}
               /\ account # NoAccount =>
                     \E x \in own : /\ own = {x} /\ x.account = account
                                    /\ x.amount \in {amount, -amount}
<1>1. \A x \in PaymentPosting(account, amount, outflow) : x.ref = "payment"
  BY DEF PaymentPosting
<1>2. \A x \in GatewayPostings(account, amount) : x.ref # "payment"
  BY DEF GatewayPostings
<1>3. {x \in Postings(account, amount, outflow) : x.ref = "payment"}
        = PaymentPosting(account, amount, outflow)
  BY <1>1, <1>2 DEF Postings
<1>4. ASSUME account # NoAccount
      PROVE  \E x \in PaymentPosting(account, amount, outflow) :
                /\ PaymentPosting(account, amount, outflow) = {x}
                /\ x.account = account /\ x.amount \in {amount, -amount}
  BY <1>4 DEF PaymentPosting
<1>5. account = NoAccount => Postings(account, amount, outflow) = {}
  BY PostingsType
<1> QED
  BY <1>1, <1>3, <1>4, <1>5

\* What the bank has of one payment, given the payment's row.
PostedFor(row, posts) ==
    LET own == {x \in posts : x.ref = "payment"}
    IN  IF row.state = "live" /\ row.account # NoAccount
        THEN \E x \in own : /\ own = {x} /\ x.account = row.account
                            /\ x.amount \in {row.amount - row.tds, row.tds - row.amount}
        ELSE posts = {}

\* A step of a payment replaces what the payment posted, and moves the balances
\* by what is taken back and what is posted.
BankStep(p, posts) ==
    /\ posts \subseteq Posting /\ IsFiniteSet(posts)
    /\ posting' = [posting EXCEPT ![p] = posts]
    /\ \A a \in Accounts : balance'[a] = balance[a] - Moved(posting[p], a) + Moved(posts, a)
    /\ payment'[p].state # "none"
    /\ payment'[p].account = NoAccount => posts = {}
    /\ \A q \in Payments \ {p} : payment'[q] = payment[q]

\* The postings of an amount for a live payment are what the bank should have.
LEMMA PostingsAreFor ==
    ASSUME NEW account \in Accounts \cup {NoAccount}, NEW amount \in Nat, NEW tds \in Nat,
           amount - tds \in Nat, NEW outflow \in BOOLEAN,
           NEW row, row.state = "live", row.account = account, row.amount = amount, row.tds = tds
    PROVE  PostedFor(row, Postings(account, amount - tds, outflow))
<1> DEFINE posts == Postings(account, amount - tds, outflow)
           own == {x \in posts : x.ref = "payment"}
<1>1. CASE account = NoAccount
  <2>1. posts = {}
    BY <1>1, PostingsType
  <2> HIDE DEF posts
  <2> QED
    BY <1>1, <2>1 DEF PostedFor, posts
<1>2. CASE account # NoAccount
  <2>1. PICK x \in own : own = {x} /\ x.account = account /\ x.amount \in {amount - tds, -(amount - tds)}
    BY <1>2, OwnPosting
  <2>2. -(amount - tds) = tds - amount
    OBVIOUS
  <2>3. x.amount \in {row.amount - row.tds, row.tds - row.amount}
    BY <2>1, <2>2
  <2> HIDE DEF posts
  <2> QED
    BY <1>2, <2>1, <2>3 DEF PostedFor, posts
<1> QED
  BY <1>1, <1>2

\* No postings move nothing.
LEMMA NothingMoved ==
    ASSUME NEW a
    PROVE  Brought({}, a) = 0 /\ Taken({}, a) = 0 /\ Moved({}, a) = 0
<1> DEFINE In == {y \in {} : y.account = a /\ y.amount > 0}
           Out == {y \in {} : y.account = a /\ y.amount < 0}
<1>1. Brought({}, a) = 0
  <2>1. [x \in In |-> x.amount] \in [In -> Nat] /\ \A x \in In : [y \in In |-> y.amount][x] = 0
    OBVIOUS
  <2>2. TotalOf([x \in In |-> x.amount]) = 0
    <3> DEFINE f == [x \in In |-> x.amount]
    <3> HIDE DEF f, In
    <3>1. f \in [In -> Nat] /\ \A x \in In : f[x] = 0
      BY <2>1 DEF f
    <3>2. TotalOf(f) = 0
      BY <3>1, TotalOfZeroes
    <3> QED
      BY <3>2 DEF f
  <2> QED
    BY <2>2 DEF Brought
<1>2. Taken({}, a) = 0
  <2>1. [x \in Out |-> -x.amount] \in [Out -> Nat] /\ \A x \in Out : [y \in Out |-> -y.amount][x] = 0
    OBVIOUS
  <2>2. TotalOf([x \in Out |-> -x.amount]) = 0
    <3> DEFINE f == [x \in Out |-> -x.amount]
    <3> HIDE DEF f, Out
    <3>1. f \in [Out -> Nat] /\ \A x \in Out : f[x] = 0
      BY <2>1 DEF f
    <3>2. TotalOf(f) = 0
      BY <3>1, TotalOfZeroes
    <3> QED
      BY <3>2 DEF f
  <2> QED
    BY <2>2 DEF Taken
<1> QED
  BY <1>1, <1>2 DEF Moved

\* A deposit for a payment that had posted nothing.
LEMMA FirstDeposit ==
    ASSUME TypeOK, NEW p \in Payments, posting[p] = {},
           NEW posts, posts \subseteq Posting, IsFiniteSet(posts), balance' = Deposit(balance, posts)
    PROVE  \A a \in Accounts : balance'[a] = balance[a] - Moved(posting[p], a) + Moved(posts, a)
<1> SUFFICES ASSUME NEW a \in Accounts
             PROVE  balance'[a] = balance[a] - Moved(posting[p], a) + Moved(posts, a)
  OBVIOUS
<1>1. balance'[a] = balance[a] + Moved(posts, a)
  BY DEF Deposit
<1>2. Moved(posting[p], a) = 0
  BY NothingMoved
<1>3. balance[a] \in Int /\ Moved(posts, a) \in Int
  BY MovedType DEF TypeOK
<1> QED
  BY <1>1, <1>2, <1>3

\* payment.create posts for the new payment.
LEMMA CreateBank ==
    ASSUME TypeOK, AccountlessUnposted, NEW p \in Payments, NEW rows \in Requests,
           NEW first \in PrimaryOf(rows), NEW amount \in Amounts, NEW discount \in Discounts,
           NEW tds \in TaxAmounts, NEW account \in Accounts \cup {NoAccount},
           CreatePayment(p, rows, first, amount, discount, tds, account)
    PROVE  \E posts : BankStep(p, posts) /\ PostedFor(payment'[p], posts)
<1> DEFINE outflow == Outflow(p, first, rows)
           posts == Postings(account, amount - tds, outflow)
<1>1. outflow \in BOOLEAN
  BY OutflowType
<1>2. /\ payment[p].state = "none"
      /\ posting' = [posting EXCEPT ![p] = posts] /\ balance' = Deposit(balance, posts)
      /\ payment' = [payment EXCEPT ![p] =
            [state |-> "live", primary |-> first, amount |-> amount, discount |-> discount,
             tds |-> tds, tax |-> TaxRow(tds, outflow), account |-> account]]
      /\ ValidTds(amount, tds)
  BY DEF CreatePayment
<1> HIDE DEF outflow
<1>3. amount \in Nat /\ tds \in Nat /\ amount - tds \in Nat
  BY <1>1, <1>2, RequestType
<1>4. /\ payment'[p].state = "live" /\ payment'[p].account = account
      /\ payment'[p].amount = amount /\ payment'[p].tds = tds
      /\ \A q \in Payments \ {p} : payment'[q] = payment[q]
  BY <1>2 DEF TypeOK
<1>5. posts \subseteq Posting /\ IsFiniteSet(posts) /\ (account = NoAccount => posts = {})
  BY <1>1, <1>3, PostingsType
<1>6. PostedFor(payment'[p], posts)
  BY <1>1, <1>3, <1>4, PostingsAreFor
<1> HIDE DEF posts
<1>7. posting[p] = {}
  BY <1>2 DEF AccountlessUnposted
<1>8. \A a \in Accounts : balance'[a] = balance[a] - Moved(posting[p], a) + Moved(posts, a)
  <2>1. balance' = Deposit(balance, posts) /\ posts \subseteq Posting /\ IsFiniteSet(posts)
    BY <1>2, <1>5
  <2> QED
    BY <1>7, <2>1, FirstDeposit
<1>9. payment'[p].state # "none" /\ (payment'[p].account = NoAccount => posts = {})
  BY <1>4, <1>5
<1>10. posting' = [posting EXCEPT ![p] = posts]
  BY <1>2
<1>11. BankStep(p, posts)
  BY <1>4, <1>5, <1>8, <1>9, <1>10 DEF BankStep
<1> QED
  BY <1>6, <1>11

\* payment.update takes back all that the payment posted and posts anew.
LEMMA UpdateBank ==
    ASSUME TypeOK, AccountlessUnposted, NEW p \in Payments, NEW asked \in Requests,
           NEW first \in PrimaryOf(asked), NEW amount \in Amounts, NEW discount \in Discounts,
           NEW tds \in TaxAmounts, NEW account \in Accounts \cup {NoAccount},
           UpdatePayment(p, asked, first, amount, discount, tds, account)
    PROVE  \E posts : /\ BankStep(p, posts)
                      /\ "editDeleted" \notin Uses => PostedFor(payment'[p], posts)
<1> DEFINE primary == UpdatePrimary(p, asked, first)
           outflow == Outflow(p, primary, UpdateRows(p, asked, first, amount))
           posts == Postings(account, amount - tds, outflow)
<1>1. outflow \in BOOLEAN
  BY OutflowType
<1>2. /\ payment[p].state \in {"live"} \cup (IF "editDeleted" \in Uses THEN {"deleted"} ELSE {})
      /\ posting' = [posting EXCEPT ![p] = (@ \ Reversible(p)) \cup posts]
      /\ balance' = Deposit(Withdraw(balance, Reversible(p)), posts)
      /\ payment' = [payment EXCEPT ![p] =
            [state |-> @.state, primary |-> primary, amount |-> amount, discount |-> discount,
             tds |-> tds, tax |-> TaxRow(tds, outflow), account |-> account]]
      /\ ValidTds(amount, tds)
  BY DEF UpdatePayment, UpdatePrimary, UpdateRows
<1> HIDE DEF outflow, primary
<1>3. amount \in Nat /\ tds \in Nat /\ amount - tds \in Nat
  BY <1>1, <1>2, RequestType
<1>4. /\ payment'[p].state = payment[p].state /\ payment'[p].account = account
      /\ payment'[p].amount = amount /\ payment'[p].tds = tds
      /\ \A q \in Payments \ {p} : payment'[q] = payment[q]
  BY <1>2 DEF TypeOK
<1>5. posts \subseteq Posting /\ IsFiniteSet(posts) /\ (account = NoAccount => posts = {})
  BY <1>1, <1>3, PostingsType
<1>6. "editDeleted" \notin Uses => PostedFor(payment'[p], posts)
  <2> SUFFICES ASSUME "editDeleted" \notin Uses PROVE PostedFor(payment'[p], posts)
    OBVIOUS
  <2>1. payment'[p].state = "live"
    BY <1>2, <1>4
  <2> QED
    BY <1>1, <1>3, <1>4, <2>1, PostingsAreFor
<1> HIDE DEF posts
<1>7. Reversible(p) = posting[p]
  BY AllReversible
<1>8. posting' = [posting EXCEPT ![p] = posts]
  BY <1>2, <1>7
<1>9. ASSUME NEW a \in Accounts
      PROVE  balance'[a] = balance[a] - Moved(posting[p], a) + Moved(posts, a)
  BY <1>2, <1>7 DEF Deposit, Withdraw
<1>10. payment'[p].state # "none"
  <2>1. payment[p].state \in {"live", "deleted"}
    BY <1>2
  <2> QED
    BY <1>4, <2>1
<1>11. BankStep(p, posts)
  BY <1>4, <1>5, <1>8, <1>9, <1>10 DEF BankStep
<1> QED
  BY <1>6, <1>11

\* payment.delete takes back all that the payment posted.
LEMMA DeleteBank ==
    ASSUME TypeOK, AccountlessUnposted, NEW p \in Payments, DeletePayment(p)
    PROVE  \E posts : BankStep(p, posts) /\ PostedFor(payment'[p], posts)
<1>1. /\ payment' = [payment EXCEPT ![p].state = "deleted", ![p].tax = "none"]
      /\ posting' = [posting EXCEPT ![p] = @ \ Reversible(p)]
      /\ balance' = Withdraw(balance, Reversible(p))
  BY DEF DeletePayment
<1>2. Reversible(p) = posting[p]
  BY AllReversible
<1>3. posting' = [posting EXCEPT ![p] = {}]
  BY <1>1, <1>2
<1>4. ASSUME NEW a \in Accounts
      PROVE  balance'[a] = balance[a] - Moved(posting[p], a) + Moved({}, a)
  <2>1. balance'[a] = balance[a] - Moved(posting[p], a)
    BY <1>1, <1>2 DEF Withdraw
  <2>2. Moved({}, a) = 0
    BY NothingMoved
  <2>3. balance[a] \in Int /\ Moved(posting[p], a) \in Int
    BY ReversibleType, MovedType DEF TypeOK
  <2> QED
    BY <2>1, <2>2, <2>3
<1>5. /\ payment'[p].state = "deleted"
      /\ \A q \in Payments \ {p} : payment'[q] = payment[q]
  BY <1>1 DEF TypeOK, PaymentRow
<1>6. BankStep(p, {})
  BY <1>3, <1>4, <1>5, FS_EmptySet DEF BankStep
<1>7. PostedFor(payment'[p], {})
  BY <1>5 DEF PostedFor
<1> QED
  BY <1>6, <1>7

\* payment.assignAccount posts the gross amount, once.
LEMMA AssignBank ==
    ASSUME TypeOK, AccountlessUnposted, NEW p \in Payments, NEW account \in Accounts,
           AssignAccount(p, account)
    PROVE  \E posts : /\ BankStep(p, posts)
                      /\ "assignWithheld" \notin Uses => PostedFor(payment'[p], posts)
<1> DEFINE amount == payment[p].amount
           outflow == IF payment[p].primary # NoInvoice THEN payment[p].primary \in Purchases
                      ELSE p \in SupplierPaid
           posts == PaymentPosting(account, amount, outflow)
<1>1. /\ payment[p].state = "live" /\ payment[p].account = NoAccount
      /\ payment[p].tds > 0 => "assignWithheld" \in Uses
      /\ payment' = [payment EXCEPT ![p].account = account]
      /\ posting' = [posting EXCEPT ![p] = @ \cup posts]
      /\ balance' = Deposit(balance, posts)
  BY DEF AssignAccount
<1>2. outflow \in BOOLEAN
  <2>1. CASE payment[p].primary # NoInvoice
    BY <2>1
  <2>2. CASE payment[p].primary = NoInvoice
    BY <2>2
  <2> QED
    BY <2>1, <2>2
<1> HIDE DEF outflow
<1>3. amount \in Nat /\ payment[p].tds \in Nat
  BY DEF TypeOK, PaymentRow
<1>4. /\ posts \subseteq Posting /\ IsFiniteSet(posts)
      /\ {x \in posts : x.ref = "payment"} = posts
      /\ \E x \in posts : posts = {x} /\ x.account = account /\ x.amount \in {amount, -amount}
  BY <1>2, <1>3, PostingsType, OwnPosting
<1> HIDE DEF posts
<1>5. /\ payment'[p].state = "live" /\ payment'[p].account = account
      /\ payment'[p].amount = amount /\ payment'[p].tds = payment[p].tds
      /\ \A q \in Payments \ {p} : payment'[q] = payment[q]
  BY <1>1 DEF TypeOK, PaymentRow
<1>6. posting[p] = {}
  BY <1>1 DEF AccountlessUnposted
<1>7. posting' = [posting EXCEPT ![p] = posts]
  BY <1>1, <1>6
<1>8. \A a \in Accounts : balance'[a] = balance[a] - Moved(posting[p], a) + Moved(posts, a)
  <2>1. balance' = Deposit(balance, posts) /\ posts \subseteq Posting /\ IsFiniteSet(posts)
    BY <1>1, <1>4
  <2> QED
    BY <1>6, <2>1, FirstDeposit
<1>9. BankStep(p, posts)
  BY <1>4, <1>5, <1>7, <1>8 DEF BankStep
<1>10. ASSUME "assignWithheld" \notin Uses PROVE PostedFor(payment'[p], posts)
  <2>1. payment[p].tds = 0
    BY <1>1, <1>3, <1>10
  <2> DEFINE tds == payment'[p].tds
  <2>2. amount - tds = amount /\ tds - amount = -amount
    BY <1>3, <1>5, <2>1
  <2>3. \E x \in posts : /\ posts = {x} /\ x.account = account
                         /\ x.amount \in {amount - tds, tds - amount}
    BY <1>4, <2>2
  <2> HIDE DEF amount, tds
  <2> QED
    BY <1>4, <1>5, <2>3 DEF PostedFor, tds
<1> QED
  BY <1>9, <1>10

\* The webhook posts for the payment it records.
LEMMA OnlineBank ==
    ASSUME TypeOK, AccountlessUnposted, NEW p \in Payments, NEW i \in Invoices,
           NEW amount \in Amounts, NEW account \in Gateways \cup {NoAccount},
           RecordOnlinePayment(p, i, amount, account)
    PROVE  \E posts : BankStep(p, posts) /\ PostedFor(payment'[p], posts)
<1> DEFINE posts == Postings(account, amount, FALSE)
<1>1. /\ payment[p].state = "none"
      /\ posting' = [posting EXCEPT ![p] = posts] /\ balance' = Deposit(balance, posts)
      /\ payment' = [payment EXCEPT ![p] =
            [state |-> "live", primary |-> i, amount |-> amount, discount |-> 0,
             tds |-> 0, tax |-> "none", account |-> account]]
  BY DEF RecordOnlinePayment
<1>2. account \in Accounts \cup {NoAccount} /\ amount \in Nat
  OBVIOUS
<1>3. /\ payment'[p].state = "live" /\ payment'[p].account = account
      /\ payment'[p].amount = amount /\ payment'[p].tds = 0
      /\ \A q \in Payments \ {p} : payment'[q] = payment[q]
  BY <1>1 DEF TypeOK
<1>4. posts \subseteq Posting /\ IsFiniteSet(posts) /\ (account = NoAccount => posts = {})
  BY <1>2, PostingsType
<1>5. PostedFor(payment'[p], posts)
  <2>1. amount - 0 = amount /\ amount - 0 \in Nat
    BY <1>2
  <2>2. PostedFor(payment'[p], Postings(account, amount - 0, FALSE))
    BY <1>2, <1>3, <2>1, PostingsAreFor
  <2> QED
    BY <2>1, <2>2
<1> HIDE DEF posts
<1>6. posting[p] = {}
  BY <1>1 DEF AccountlessUnposted
<1>7. \A a \in Accounts : balance'[a] = balance[a] - Moved(posting[p], a) + Moved(posts, a)
  <2>1. balance' = Deposit(balance, posts) /\ posts \subseteq Posting /\ IsFiniteSet(posts)
    BY <1>1, <1>4
  <2> QED
    BY <1>6, <2>1, FirstDeposit
<1>8. BankStep(p, posts)
  BY <1>1, <1>3, <1>4, <1>7 DEF BankStep
<1> QED
  BY <1>5, <1>8

\* No step of the documents touches payments or the bank.
LEMMA DocumentBank ==
    ASSUME DocumentNext
    PROVE  UNCHANGED <<payment, alloc, posting, balance>>
BY DEF DocumentNext, SetInvoiceStatus, EditInvoice, DeleteInvoice, CreateNote, SetNoteStatus,
       DeleteNote, EditNote

\* Every step replaces the postings of one payment, or leaves the bank, and what
\* the payments say of it, alone.
LEMMA BankSteps ==
    ASSUME TypeOK, AccountlessUnposted, [Next]_vars
    PROVE  \/ \E p \in Payments : \E posts :
                 /\ BankStep(p, posts)
                 /\ "editDeleted" \notin Uses /\ "assignWithheld" \notin Uses =>
                       PostedFor(payment'[p], posts)
           \/ /\ posting' = posting /\ balance' = balance
              /\ \A p \in Payments : /\ payment'[p].state = payment[p].state
                                     /\ payment'[p].account = payment[p].account
                                     /\ payment'[p].amount = payment[p].amount
                                     /\ payment'[p].tds = payment[p].tds
<1>1. ASSUME NEW p \in Payments, NEW account \in Accounts, AssignAccount(p, account)
      PROVE  \E posts : /\ BankStep(p, posts)
                        /\ "assignWithheld" \notin Uses => PostedFor(payment'[p], posts)
  BY <1>1, AssignBank
<1>2. ASSUME NEW p \in Payments, DepositTax(p) \/ RemoveChallan(p)
      PROVE  /\ posting' = posting /\ balance' = balance
             /\ \A q \in Payments : /\ payment'[q].state = payment[q].state
                                    /\ payment'[q].account = payment[q].account
                                    /\ payment'[q].amount = payment[q].amount
                                    /\ payment'[q].tds = payment[q].tds
  BY <1>2 DEF DepositTax, RemoveChallan, TypeOK, PaymentRow
<1>3. CASE PaymentNext
  BY <1>1, <1>2, <1>3, CreateBank, UpdateBank, DeleteBank, OnlineBank DEF PaymentNext
<1>4. CASE DocumentNext
  BY <1>4, DocumentBank
<1>5. CASE UNCHANGED vars
  BY <1>5 DEF vars
<1> QED
  BY <1>3, <1>4, <1>5 DEF Next

\* No step gives a payment without an account a posting.
LEMMA AccountlessStep ==
    ASSUME TypeOK, AccountlessUnposted, [Next]_vars
    PROVE  AccountlessUnposted'
<1>1. ASSUME NEW p \in Payments, NEW posts, BankStep(p, posts) PROVE AccountlessUnposted'
  BY <1>1 DEF BankStep, AccountlessUnposted, TypeOK
<1>2. ASSUME posting' = posting,
             \A p \in Payments : /\ payment'[p].state = payment[p].state
                                 /\ payment'[p].account = payment[p].account
      PROVE  AccountlessUnposted'
  BY <1>2 DEF AccountlessUnposted
<1> QED
  BY <1>1, <1>2, BankSteps

\* A payment that has no account, or does not exist, has posted nothing.
LEMMA AccountlessAlways == Spec => []AccountlessUnposted
<1>1. Init => AccountlessUnposted
  BY DEF Init, AccountlessUnposted
<1>2. TypeOK /\ AccountlessUnposted /\ [Next]_vars => AccountlessUnposted'
  BY AccountlessStep
<1> QED
  BY <1>1, <1>2, TypeCorrect, PTL DEF Spec

\* bank-posting for any number of payments and accounts: unless a payment with
\* TDS is assigned an account, or a deleted payment edited, a live payment is
\* posted once, net, on the account it names, and nothing is left of any other,
\* the gateway's fee and settlement included.
THEOREM PostedToAccount ==
    ASSUME "editDeleted" \notin Uses, "assignWithheld" \notin Uses
    PROVE  Spec => []BankPosting
<1>1. Init => BankPosting
  BY DEF Init, BankPosting
<1>2. TypeOK /\ AccountlessUnposted /\ BankPosting /\ [Next]_vars => BankPosting'
  <2> SUFFICES ASSUME TypeOK, AccountlessUnposted, BankPosting, [Next]_vars,
                      NEW p \in Payments
               PROVE  PostedFor(payment'[p], posting'[p])
    BY DEF BankPosting, PostedFor
  <2>1. PostedFor(payment[p], posting[p])
    BY DEF BankPosting, PostedFor
  <2>2. ASSUME NEW q \in Payments, NEW posts, BankStep(q, posts), PostedFor(payment'[q], posts)
        PROVE  PostedFor(payment'[p], posting'[p])
    <3>1. p = q => posting'[p] = posts
      BY <2>2 DEF BankStep, TypeOK
    <3>2. p # q => posting'[p] = posting[p] /\ payment'[p] = payment[p]
      BY <2>2 DEF BankStep, TypeOK
    <3> QED
      BY <2>1, <2>2, <3>1, <3>2
  <2>3. ASSUME posting' = posting, payment'[p].state = payment[p].state,
               payment'[p].account = payment[p].account,
               payment'[p].amount = payment[p].amount, payment'[p].tds = payment[p].tds
        PROVE  PostedFor(payment'[p], posting'[p])
    BY <2>1, <2>3 DEF PostedFor
  <2> QED
    BY <2>2, <2>3, BankSteps
<1> QED
  BY <1>1, <1>2, TypeCorrect, AccountlessAlways, PTL DEF Spec

-----------------------------------------------------------------------------
(* A balance is the sum of its transactions.                               *)

\* What each payment brings to account a, and takes from it.
BroughtTo(a)  == [p \in Payments |-> Brought(posting[p], a)]
TakenFrom(a)  == [p \in Payments |-> Taken(posting[p], a)]

\* The sums change with one payment's postings by what these change.
LEMMA SumsUpdate ==
    ASSUME TypeOK, TypeOK', NEW p \in Payments, NEW posts, BankStep(p, posts),
           NEW a \in Accounts
    PROVE  /\ TotalOf(BroughtTo(a)') = TotalOf(BroughtTo(a)) - Brought(posting[p], a) + Brought(posts, a)
           /\ TotalOf(TakenFrom(a)') = TotalOf(TakenFrom(a)) - Taken(posting[p], a) + Taken(posts, a)
           /\ TotalOf(BroughtTo(a)) \in Nat /\ TotalOf(TakenFrom(a)) \in Nat
<1>1. ASSUME NEW q \in Payments
      PROVE  /\ Brought(posting[q], a) \in Nat /\ Taken(posting[q], a) \in Nat
             /\ Brought(posting'[q], a) \in Nat /\ Taken(posting'[q], a) \in Nat
  <2>1. posting[q] \in SUBSET Posting /\ IsFiniteSet(posting[q])
    BY DEF TypeOK
  <2>2. posting'[q] \in SUBSET Posting /\ IsFiniteSet(posting'[q])
    BY DEF TypeOK
  <2> QED
    BY <2>1, <2>2, MovedType
<1>2. /\ BroughtTo(a)' = [q \in Payments |-> Brought(posting'[q], a)]
      /\ TakenFrom(a)' = [q \in Payments |-> Taken(posting'[q], a)]
  BY DEF BroughtTo, TakenFrom, Brought, Taken
<1>3. /\ BroughtTo(a) \in [Payments -> Nat] /\ BroughtTo(a)' \in [Payments -> Nat]
      /\ TakenFrom(a) \in [Payments -> Nat] /\ TakenFrom(a)' \in [Payments -> Nat]
  BY <1>1, <1>2 DEF BroughtTo, TakenFrom
<1>4. posting'[p] = posts /\ \A q \in Payments \ {p} : posting'[q] = posting[q]
  BY DEF BankStep, TypeOK
<1>5. /\ \A q \in Payments \ {p} : BroughtTo(a)[q] = BroughtTo(a)'[q]
      /\ \A q \in Payments \ {p} : TakenFrom(a)[q] = TakenFrom(a)'[q]
  BY <1>2, <1>4 DEF BroughtTo, TakenFrom
<1>6. /\ TotalOf(BroughtTo(a)') = TotalOf(BroughtTo(a)) - BroughtTo(a)[p] + BroughtTo(a)'[p]
      /\ TotalOf(TakenFrom(a)') = TotalOf(TakenFrom(a)) - TakenFrom(a)[p] + TakenFrom(a)'[p]
  BY <1>3, <1>5, TotalUpdate
<1>7. /\ BroughtTo(a)[p] = Brought(posting[p], a) /\ BroughtTo(a)'[p] = Brought(posts, a)
      /\ TakenFrom(a)[p] = Taken(posting[p], a) /\ TakenFrom(a)'[p] = Taken(posts, a)
  BY <1>2, <1>4 DEF BroughtTo, TakenFrom
<1>8. TotalOf(BroughtTo(a)) \in Nat /\ TotalOf(TakenFrom(a)) \in Nat
  BY <1>3, TotalIsNat
<1> QED
  BY <1>6, <1>7, <1>8

\* balance-reconciles for any number of payments and accounts, whatever is
\* called: the running balance of an account is at any time the sum of the
\* transactions that the payments have on it, so no edit, deletion or gateway
\* reversal moves a balance twice or forgets to.
THEOREM BalancesReconcile == Spec => []BalanceReconciles
<1>1. Init => BalanceReconciles
  <2> SUFFICES ASSUME Init, NEW a \in Accounts
               PROVE  balance[a] = TotalOf(BroughtTo(a)) - TotalOf(TakenFrom(a))
    BY DEF BalanceReconciles, BroughtTo, TakenFrom
  <2>1. \A p \in Payments : Brought(posting[p], a) = 0 /\ Taken(posting[p], a) = 0
    BY NothingMoved DEF Init
  <2>2. /\ BroughtTo(a) \in [Payments -> Nat] /\ \A p \in Payments : BroughtTo(a)[p] = 0
        /\ TakenFrom(a) \in [Payments -> Nat] /\ \A p \in Payments : TakenFrom(a)[p] = 0
    BY <2>1 DEF BroughtTo, TakenFrom
  <2>3. TotalOf(BroughtTo(a)) = 0 /\ TotalOf(TakenFrom(a)) = 0
    BY <2>2, TotalOfZeroes
  <2> QED
    BY <2>3 DEF Init
<1>2. TypeOK /\ TypeOK' /\ AccountlessUnposted /\ BalanceReconciles /\ [Next]_vars
        => BalanceReconciles'
  <2> SUFFICES ASSUME TypeOK, TypeOK', AccountlessUnposted, BalanceReconciles, [Next]_vars,
                      NEW a \in Accounts
               PROVE  balance'[a] = TotalOf(BroughtTo(a)') - TotalOf(TakenFrom(a)')
    BY DEF BalanceReconciles, BroughtTo, TakenFrom
  <2>1. balance[a] = TotalOf(BroughtTo(a)) - TotalOf(TakenFrom(a))
    BY DEF BalanceReconciles, BroughtTo, TakenFrom
  <2>2. ASSUME NEW p \in Payments, NEW posts, BankStep(p, posts)
        PROVE  balance'[a] = TotalOf(BroughtTo(a)') - TotalOf(TakenFrom(a)')
    <3>1. balance'[a] = balance[a] - (Brought(posting[p], a) - Taken(posting[p], a))
                        + (Brought(posts, a) - Taken(posts, a))
      BY <2>2 DEF BankStep, Moved
    <3>2. /\ Brought(posting[p], a) \in Nat /\ Taken(posting[p], a) \in Nat
          /\ Brought(posts, a) \in Nat /\ Taken(posts, a) \in Nat
      BY <2>2, ReversibleType, MovedType DEF BankStep
    <3> QED
      BY <2>1, <2>2, <3>1, <3>2, SumsUpdate
  <2>3. ASSUME posting' = posting, balance' = balance
        PROVE  balance'[a] = TotalOf(BroughtTo(a)') - TotalOf(TakenFrom(a)')
    BY <2>1, <2>3 DEF BroughtTo, TakenFrom
  <2> QED
    BY <2>2, <2>3, BankSteps
<1> QED
  BY <1>1, <1>2, TypeCorrect, AccountlessAlways, PTL DEF Spec

-----------------------------------------------------------------------------
(* Tax that was deposited.                                                 *)

\* A payment that was not made has deposited no tax.
UnmadeHasNoTax == \A p \in Payments : payment[p].state = "none" => payment[p].tax = "none"

\* Only a step of a payment of its own changes a payment, and its tax is not
\* deposited then.
LEMMA OnlyUndepositedChange ==
    ASSUME TypeOK, UnmadeHasNoTax, [Next]_vars
    PROVE  /\ UnmadeHasNoTax'
           /\ \A p \in Payments :
                 payment[p].tax = "deposited" =>
                    /\ payment'[p].state = payment[p].state
                    /\ payment'[p].amount = payment[p].amount /\ payment'[p].tds = payment[p].tds
                    /\ alloc'[p] = alloc[p]
<1> DEFINE Frozen(q) == /\ payment'[q].state = payment[q].state
                        /\ payment'[q].amount = payment[q].amount
                        /\ payment'[q].tds = payment[q].tds
                        /\ alloc'[q] = alloc[q]
           Goal == /\ UnmadeHasNoTax'
                   /\ \A q \in Payments : payment[q].tax = "deposited" => Frozen(q)
<1>1. ASSUME NEW p \in Payments, NEW row, NEW rows, row.state # "none", payment[p].tax # "deposited",
             payment' = [payment EXCEPT ![p] = row], alloc' = [alloc EXCEPT ![p] = rows]
      PROVE  Goal
  BY <1>1 DEF UnmadeHasNoTax, TypeOK
<1>2. ASSUME NEW p \in Payments, NEW rows, NEW first, NEW amount, NEW discount, NEW tds,
             NEW account, CreatePayment(p, rows, first, amount, discount, tds, account)
      PROVE  Goal
  <2>1. payment[p].tax # "deposited"
    BY <1>2 DEF CreatePayment, UnmadeHasNoTax
  <2> QED
    BY <1>1, <1>2, <2>1 DEF CreatePayment
<1>3. ASSUME NEW p \in Payments, NEW asked, NEW first, NEW amount, NEW discount, NEW tds,
             NEW account, UpdatePayment(p, asked, first, amount, discount, tds, account)
      PROVE  Goal
  <2> DEFINE primary == UpdatePrimary(p, asked, first)
             rows == UpdateRows(p, asked, first, amount)
             row == [state |-> payment[p].state, primary |-> primary, amount |-> amount,
                     discount |-> discount, tds |-> tds,
                     tax |-> TaxRow(tds, Outflow(p, primary, rows)), account |-> account]
  <2>1. /\ payment[p].state # "none" /\ payment[p].tax # "deposited"
        /\ payment' = [payment EXCEPT ![p] = row] /\ alloc' = [alloc EXCEPT ![p] = rows]
    BY <1>3 DEF UpdatePayment, UpdatePrimary, UpdateRows, TaxNotDeposited
  <2>2. row.state # "none"
    BY <2>1
  <2> HIDE DEF row, rows
  <2> QED
    BY <1>1, <2>1, <2>2
<1>4. ASSUME NEW p \in Payments, DeletePayment(p) PROVE Goal
  <2> DEFINE row == [[payment[p] EXCEPT !.state = "deleted"] EXCEPT !.tax = "none"]
  <2>1. /\ payment[p].tax # "deposited"
        /\ payment' = [payment EXCEPT ![p] = row] /\ alloc' = [alloc EXCEPT ![p] = NothingTo]
    BY <1>4 DEF DeletePayment, TaxNotDeposited, TypeOK
  <2>2. row.state # "none"
    BY DEF TypeOK, PaymentRow
  <2> HIDE DEF row
  <2> QED
    BY <1>1, <2>1, <2>2
<1>5. ASSUME NEW p \in Payments, NEW i, NEW amount, NEW account,
             RecordOnlinePayment(p, i, amount, account)
      PROVE  Goal
  <2>1. payment[p].tax # "deposited"
    BY <1>5 DEF RecordOnlinePayment, UnmadeHasNoTax
  <2> QED
    BY <1>1, <1>5, <2>1 DEF RecordOnlinePayment
<1>6. ASSUME alloc' = alloc, NEW p \in Payments, payment[p].state # "none",
             NEW row, row.state = payment[p].state, row.amount = payment[p].amount,
             row.tds = payment[p].tds, payment' = [payment EXCEPT ![p] = row]
      PROVE  Goal
  BY <1>6 DEF UnmadeHasNoTax, TypeOK
<1>7. ASSUME NEW p \in Payments, NEW account, AssignAccount(p, account) PROVE Goal
  <2> DEFINE row == [payment[p] EXCEPT !.account = account]
  <2>1. /\ payment[p].state # "none" /\ alloc' = alloc
        /\ payment' = [payment EXCEPT ![p] = row]
    BY <1>7 DEF AssignAccount
  <2>2. row.state = payment[p].state /\ row.amount = payment[p].amount /\ row.tds = payment[p].tds
    BY DEF TypeOK, PaymentRow
  <2> HIDE DEF row
  <2> QED
    BY <1>6, <2>1, <2>2
<1>8. ASSUME NEW p \in Payments, NEW tax, payment[p].tax # "none", alloc' = alloc,
             payment' = [payment EXCEPT ![p].tax = tax]
      PROVE  Goal
  <2> DEFINE row == [payment[p] EXCEPT !.tax = tax]
  <2>1. payment[p].state # "none" /\ payment' = [payment EXCEPT ![p] = row]
    BY <1>8 DEF UnmadeHasNoTax
  <2>2. row.state = payment[p].state /\ row.amount = payment[p].amount /\ row.tds = payment[p].tds
    BY DEF TypeOK, PaymentRow
  <2> HIDE DEF row
  <2> QED
    BY <1>6, <1>8, <2>1, <2>2
<1>9. ASSUME NEW p \in Payments, DepositTax(p) \/ RemoveChallan(p) PROVE Goal
  BY <1>8, <1>9 DEF DepositTax, RemoveChallan
<1>10. ASSUME payment' = payment, alloc' = alloc PROVE Goal
  BY <1>10 DEF UnmadeHasNoTax
<1> HIDE DEF Goal
<1>11. ASSUME PaymentNext PROVE Goal
  BY <1>2, <1>3, <1>4, <1>5, <1>7, <1>9, <1>11 DEF PaymentNext
<1>12. ASSUME DocumentNext PROVE Goal
  BY <1>10, <1>12, DocumentBank
<1>13. ASSUME UNCHANGED vars PROVE Goal
  BY <1>10, <1>13 DEF vars
<1>14. Goal
  BY <1>11, <1>12, <1>13 DEF Next
<1> QED
  BY <1>14 DEF Goal

\* assertTdsNotDeposited, for any payments: while the tax of a payment is
\* deposited against a challan, no handler changes the payment's state, amount,
\* TDS or allocations.
THEOREM DepositedTaxFrozen == Spec => DepositedTaxIsFrozen
<1> DEFINE Frozen == \A p \in Payments :
              payment[p].tax = "deposited" =>
                 /\ payment'[p].state = payment[p].state
                 /\ payment'[p].amount = payment[p].amount /\ payment'[p].tds = payment[p].tds
                 /\ alloc'[p] = alloc[p]
<1>1. Init => UnmadeHasNoTax
  BY DEF Init, UnmadeHasNoTax
<1>2. TypeOK /\ UnmadeHasNoTax /\ [Next]_vars => UnmadeHasNoTax' /\ Frozen
  BY OnlyUndepositedChange
<1>3. [][Frozen]_vars => DepositedTaxIsFrozen
  BY PTL DEF DepositedTaxIsFrozen
<1> HIDE DEF Frozen
<1> QED
  BY <1>1, <1>2, <1>3, TypeCorrect, PTL DEF Spec
=============================================================================
