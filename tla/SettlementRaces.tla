-------------------------- MODULE SettlementRaces --------------------------
(***************************************************************************)
(* The handlers of module Settlement as the database runs them: each is a  *)
(* READ COMMITTED transaction whose statements interleave with those of    *)
(* other requests.  A statement sees what was committed when it ran and    *)
(* what its own transaction wrote; a row that a transaction wrote or       *)
(* selected FOR UPDATE stays locked until it ends; of transactions that    *)
(* wait for each other the database aborts one.                            *)
(*                                                                         *)
(* Statements of one transaction that no other can tell apart (those it    *)
(* runs on a row while it holds that row's lock) are one step.             *)
(***************************************************************************)
EXTENDS Units, SequencesExt

CONSTANTS
    Invoices, Purchases, Payments, SupplierPaid, Notes, Accounts, Gateways, SettlesInto, Fee,
    Amounts, Discounts, TaxAmounts, Totals, NoInvoice, NoAccount, Uses,  \* as in Settlement
    AccountOrder,   \* the order of the accounts' ids
    Clients,        \* those who send requests
    Scenarios,      \* where the clients start: the payments that exist, with their rows
                    \* ("existing"), the totals an invoice may come to ("totals"), and
                    \* the requests each client may send, one of them ("offers")
    NoClient

ASSUME ClientsAssumption == IsFiniteSet(Clients) /\ NoClient \notin Clients
ASSUME OrderAssumption == /\ AccountOrder \in [Accounts -> Nat]
                          /\ \A a, b \in Accounts : AccountOrder[a] = AccountOrder[b] => a = b

VARIABLES
    db,      \* the rows as last committed
    work,    \* the rows with what running transactions wrote
    holder,  \* the transaction that holds each row's lock
    tx       \* each client's transaction

vars == <<db, work, holder, tx>>

Rows ==
    ({"invoice"} \X Invoices) \cup ({"note"} \X Notes) \cup ({"account"} \X Accounts)
      \cup ({"payment", "tax", "alloc", "posts", "marker"} \X Payments)
      \cup {<<"business", "counters">>}

Business == <<"business", "counters">>
Invoice(i) == <<"invoice", i>>
Note(n) == <<"note", n>>
Account(a) == <<"account", a>>
Payment(p) == <<"payment", p>>
Tax(p) == <<"tax", p>>          \* the tax_deductions row of p
Alloc(p) == <<"alloc", p>>      \* the payment_allocations rows of p
Posts(p) == <<"posts", p>>      \* the bank_transactions rows of p
Marker(p) == <<"marker", p>>    \* the razorpay_payments row of p

\* The committed rows as the variables of Settlement.
S == INSTANCE Settlement WITH
        invoice <- [i \in Invoices |-> db[Invoice(i)]],
        payment <- [p \in Payments |-> [db[Payment(p)] EXCEPT !.tax = db[Tax(p)]]],
        alloc <- [p \in Payments |-> db[Alloc(p)]],
        note <- [n \in Notes |-> db[Note(n)]],
        posting <- [p \in Payments |-> db[Posts(p)]],
        balance <- [a \in Accounts |-> db[Account(a)]]

-----------------------------------------------------------------------------
(* Locks, reads and writes.                                                *)

View(c, r) == IF holder[r] = c THEN work[r] ELSE db[r]
Free(c, r) == holder[r] \in {NoClient, c}

\* A mistake for a run to find: what the statement wrote is not locked.
WriteUnlocked(c, new) ==
    /\ work' = new @@ work
    /\ UNCHANGED <<db, holder>>

\* Client c writes the rows in the domain of new, and so locks them.
Write(c, new) ==
    /\ work' = new @@ work
    /\ holder' = [r \in DOMAIN new |-> c] @@ holder
    /\ UNCHANGED db

\* SELECT ... FOR UPDATE of row r.
Lock(c, r) == Write(c, r :> View(c, r))

ReadOnly == UNCHANGED <<db, work, holder>>

At(c, step) == tx[c].state = "running" /\ tx[c].todo # <<>> /\ Head(tx[c].todo) = step

\* On to the next step, local being what the transaction keeps in variables.
Go(c, local) == tx' = [tx EXCEPT ![c] = [local EXCEPT !.todo = Tail(@)]]
GoTo(c, local, todo) == tx' = [tx EXCEPT ![c] = [local EXCEPT !.todo = todo]]

Held(c) == {r \in Rows : holder[r] = c}

\* A mistake for a run to find: a failed transaction is left open.
LeftOpen(c, state) ==
    /\ tx' = [tx EXCEPT ![c].state = state, ![c].todo = <<>>]
    /\ UNCHANGED <<db, work, holder>>

\* The transaction ends without a trace: an error thrown by the handler, or by
\* the database.
RollBack(c, state) ==
    /\ work' = [r \in Rows |-> IF r \in Held(c) THEN db[r] ELSE work[r]]
    /\ holder' = [r \in Rows |-> IF r \in Held(c) THEN NoClient ELSE holder[r]]
    /\ tx' = [tx EXCEPT ![c].state = state, ![c].todo = <<>>]
    /\ UNCHANGED db

\* n times the steps seq.
Times(n, seq) == FlattenSeq([k \in 1 .. n |-> seq])

-----------------------------------------------------------------------------
(* The statements of each handler, in their order.  A handler that reads   *)
(* rows adds a step for each of them as it goes.                           *)

BankSteps(account) ==
    IF account = NoAccount THEN <<>>
    ELSE <<"deposit">> \o
         (IF account \in Gateways THEN <<"charge", "settleFirst", "settleSecond">> ELSE <<>>)

CreateSteps(req) ==
    <<"takeNumber", "insertPayment">> \o Times(Len(req.rows), <<"guard", "pay">>) \o
    <<"allocate">> \o BankSteps(req.account)

UpdateSteps(req) ==
    <<"lockPayment", "checkTax", "readRows", "dropRows", "readGateway", "storePayment">> \o
    Times(Len(req.rows), <<"guard", "pay">>) \o <<"allocate", "removeTax">> \o BankSteps(req.account)

DeleteSteps ==
    <<"readPayment", "checkTax", "removeTax", "readRows", "dropRows", "readGateway", "markDeleted">>

AssignSteps == <<"lockAccount", "pickUntracked", "assignPayment", "addToBalance">>

OnlineSteps(req) ==
    <<"mark", "lockInvoice", "takeNumber", "insertPayment", "pay", "allocate">> \o
    BankSteps(req.account)

NoteSteps == <<"takeNumber", "capNote", "insertNote", "readInvoice", "workOutStatus">>

Steps(req) ==
    CASE req.op = "create" -> CreateSteps(req)
      [] req.op = "update" -> UpdateSteps(req)
      [] req.op = "delete" -> DeleteSteps
      [] req.op = "assign" -> AssignSteps
      [] req.op = "online" -> OnlineSteps(req)
      [] req.op = "note" -> NoteSteps
      [] req.op = "challan" -> <<"depositTax">>

\* The variables of a handler, empty.
Fresh(req) ==
    [state |-> "running", req |-> req, todo |-> Steps(req),
     rows |-> IF req.op \in {"create", "update"} THEN req.rows ELSE <<>>,
     paid |-> <<>>, payment |-> [account |-> NoAccount], postings |-> <<>>, own |-> {},
     invoice |-> [total |-> 0], status |-> "none"]

Begin(c) ==
    /\ tx[c].state = "idle"
    /\ \E req \in tx[c].offers : tx' = [tx EXCEPT ![c] = Fresh(req)]
    /\ ReadOnly

Commit(c) ==
    /\ tx[c].state = "running" /\ tx[c].todo = <<>>
    /\ db' = [r \in Rows |-> IF r \in Held(c) THEN work[r] ELSE db[r]]
    /\ holder' = [r \in Rows |-> IF r \in Held(c) THEN NoClient ELSE holder[r]]
    /\ tx' = [tx EXCEPT ![c].state = "done"]
    /\ UNCHANGED work

-----------------------------------------------------------------------------
(* Statements on invoices.                                                 *)

\* What the notes that c can see take off invoice i.
SeenAdjusted(c, i) == S!AdjustedBy([n \in Notes |-> View(c, Note(n))], i)

\* The counters of the business FOR UPDATE.
TakeNumber(c) ==
    /\ At(c, "takeNumber") /\ Free(c, Business)
    /\ Lock(c, Business) /\ Go(c, tx[c])

\* The overpayment guard, the invoice FOR UPDATE.
Guard(c) ==
    LET i   == Head(tx[c].rows)[1]
        row == View(c, Invoice(i))
    IN  /\ At(c, "guard") /\ Free(c, Invoice(i))
        /\ IF Head(tx[c].rows)[2] > row.total - row.paid THEN RollBack(c, "refused")
           ELSE Lock(c, Invoice(i)) /\ Go(c, tx[c])

\* The webhook's share of what is paid online, no more than what is left.
LockInvoice(c) ==
    LET i   == tx[c].req.invoice
        row == View(c, Invoice(i))
        due == Greater(row.total - row.paid - SeenAdjusted(c, i), 0)
    IN  /\ At(c, "lockInvoice") /\ Free(c, Invoice(i))
        /\ IF row.status = "cancelled" \/ row.deleted THEN RollBack(c, "refused")
           ELSE /\ Lock(c, Invoice(i))
                /\ Go(c, [tx[c] EXCEPT !.rows = IF due = 0 THEN <<>>
                              ELSE <<<<i, Lesser(tx[c].req.amount, due)>>>>])

\* applyInvoicePayment of the next row; the webhook may have none.
Pay(c) ==
    /\ At(c, "pay")
    /\ IF tx[c].rows = <<>> THEN ReadOnly /\ Go(c, tx[c])
       ELSE LET i == Head(tx[c].rows)[1]
            IN  /\ Free(c, Invoice(i))
                /\ Write(c, Invoice(i) :> S!PaidMore(View(c, Invoice(i)), SeenAdjusted(c, i),
                                                      Head(tx[c].rows)[2]))
                /\ Go(c, [tx[c] EXCEPT !.rows = Tail(@), !.paid = Append(@, Head(tx[c].rows))])

\* applyInvoicePayment that takes a row back.
ReverseRow(c) ==
    LET i == Head(tx[c].rows)[1]
    IN  /\ At(c, "reverseRow") /\ Free(c, Invoice(i))
        /\ Write(c, Invoice(i) :> S!PaidLess(View(c, Invoice(i)), SeenAdjusted(c, i),
                                             Head(tx[c].rows)[2]))
        /\ Go(c, [tx[c] EXCEPT !.rows = Tail(@)])

-----------------------------------------------------------------------------
(* Statements on payments and their rows.                                  *)

NewPayment(req) ==
    [state |-> "live", primary |-> IF req.op = "online" THEN req.invoice
                                   ELSE IF req.rows = <<>> THEN NoInvoice ELSE req.rows[1][1],
     amount |-> req.amount, discount |-> 0, tds |-> 0, tax |-> "none", account |-> req.account]

InsertPayment(c) ==
    /\ At(c, "insertPayment")
    /\ Write(c, Payment(tx[c].req.p) :> NewPayment(tx[c].req))
    /\ Go(c, tx[c])

\* The marker is there: this payment was recorded before.
AlreadyRecorded(c) == View(c, Marker(tx[c].req.p))

\* The unique row of the online payment: a second delivery waits for the first
\* to end, and is a duplicate if it committed.
Mark(c) ==
    /\ At(c, "mark") /\ Free(c, Marker(tx[c].req.p))
    /\ IF AlreadyRecorded(c) THEN ReadOnly /\ GoTo(c, tx[c], <<>>)
       ELSE Write(c, Marker(tx[c].req.p) :> TRUE) /\ Go(c, tx[c])

\* The allocation rows as amounts by invoice.
RowsOf(seq) == [i \in Invoices |-> IF \E k \in DOMAIN seq : seq[k][1] = i
                                   THEN LET k == CHOOSE k \in DOMAIN seq : seq[k][1] = i
                                        IN seq[k][2]
                                   ELSE 0]

Allocate(c) ==
    /\ At(c, "allocate")
    /\ Write(c, Alloc(tx[c].req.p) :> RowsOf(tx[c].paid))
    /\ Go(c, tx[c])

\* payment.update selects the payment FOR UPDATE, deleted or not; payment.delete
\* selects it without a lock, and leaves a deleted one alone.
LockPayment(c) ==
    LET row == View(c, Payment(tx[c].req.p))
    IN  /\ At(c, "lockPayment") /\ Free(c, Payment(tx[c].req.p))
        /\ IF row.state = "none" THEN RollBack(c, "refused")
           ELSE /\ Lock(c, Payment(tx[c].req.p))
                /\ Go(c, [tx[c] EXCEPT !.payment = row])

ReadPayment(c) ==
    LET row == View(c, Payment(tx[c].req.p))
    IN  /\ At(c, "readPayment")
        /\ IF row.state # "live" THEN GoTo(c, tx[c], <<>>)
           ELSE Go(c, [tx[c] EXCEPT !.payment = row])
        /\ ReadOnly

CheckTax(c) ==
    /\ At(c, "checkTax")
    /\ IF View(c, Tax(tx[c].req.p)) = "deposited" THEN RollBack(c, "refused")
       ELSE ReadOnly /\ Go(c, tx[c])

\* DELETE of the tax_deductions rows, on a challan or not.
RemoveTax(c) ==
    LET p == tx[c].req.p
    IN  /\ At(c, "removeTax") /\ Free(c, Tax(p))
        /\ IF View(c, Tax(p)) = "none" THEN ReadOnly ELSE Write(c, Tax(p) :> "none")
        /\ Go(c, tx[c])

\* The rows that the payment holds, to be reversed one by one.
ReadRows(c) ==
    LET p    == tx[c].req.p
        rows == View(c, Alloc(p))
        held == IF S!Support(rows) # {} THEN {<<i, rows[i]>> : i \in S!Support(rows)}
                ELSE IF tx[c].payment.primary # NoInvoice
                     THEN {<<tx[c].payment.primary, tx[c].payment.amount>>} ELSE {}
    IN  /\ At(c, "readRows")
        /\ \E seq \in SetToSeqs(held) :
              GoTo(c, [tx[c] EXCEPT !.rows = seq],
                   Times(Len(seq), <<"reverseRow">>) \o Tail(tx[c].todo))
        /\ ReadOnly

DropRows(c) ==
    LET p == tx[c].req.p
    IN  /\ At(c, "dropRows") /\ Free(c, Alloc(p))
        /\ IF S!Support(View(c, Alloc(p))) = {} THEN ReadOnly
           ELSE Write(c, Alloc(p) :> S!NothingTo)
        /\ Go(c, tx[c])

StorePayment(c) ==
    LET req == tx[c].req
    IN  /\ At(c, "storePayment")
        /\ Write(c, Payment(req.p) :> [NewPayment(req) EXCEPT !.state = tx[c].payment.state])
        /\ Go(c, [tx[c] EXCEPT !.rows = req.rows])

MarkDeleted(c) ==
    LET p == tx[c].req.p
    IN  /\ At(c, "markDeleted") /\ Free(c, Payment(p))
        /\ Write(c, Payment(p) :> [View(c, Payment(p)) EXCEPT !.state = "deleted"])
        /\ Go(c, tx[c])

\* createChallan locks the tax_deductions rows it deposits.
DepositTax(c) ==
    LET p == tx[c].req.p
    IN  /\ At(c, "depositTax") /\ Free(c, Tax(p))
        /\ IF View(c, Tax(p)) # "payable" THEN RollBack(c, "refused")
           ELSE Write(c, Tax(p) :> "deposited") /\ Go(c, tx[c])

-----------------------------------------------------------------------------
(* Statements on bank accounts.                                            *)

\* A mistake for a run to find: the balance as it was before.
PostStale(c, p, a, posts) ==
    Write(c, (Posts(p) :> View(c, Posts(p)) \cup posts) @@
             (Account(a) :> db[Account(a)] + S!Moved(posts, a)))

\* The balance and the postings once posts are added to those of payment p, or
\* taken from them.
Post(c, p, a, posts) ==
    Write(c, (Posts(p) :> View(c, Posts(p)) \cup posts) @@
             (Account(a) :> View(c, Account(a)) + S!Moved(posts, a)))
Unpost(c, p, a, posts) ==
    Write(c, (Posts(p) :> View(c, Posts(p)) \ posts) @@
             (Account(a) :> View(c, Account(a)) - S!Moved(posts, a)))

OfRef(posts, ref) == {x \in posts : x.ref = ref}

\* What the request posts to its account, and to the one it settles into.
Own(req) == S!PaymentPosting(req.account, req.amount,
                             S!Outflow(req.p, NewPayment(req).primary, RowsOf(req.rows)))
Charge(req) == OfRef(S!GatewayPostings(req.account, req.amount), "gateway_charge")
Settlement(req) == OfRef(S!GatewayPostings(req.account, req.amount), "gateway_settlement")

Deposit(c) ==
    LET req == tx[c].req
    IN  /\ At(c, "deposit") /\ Free(c, Account(req.account)) /\ Free(c, Posts(req.p))
        /\ Post(c, req.p, req.account, Own(req))
        /\ Go(c, tx[c])

ChargeFee(c) ==
    LET req == tx[c].req
    IN  /\ At(c, "charge")
        /\ Post(c, req.p, req.account, Charge(req))
        /\ Go(c, tx[c])

\* The two accounts of a settlement, in the order of their ids.
FirstOf(a, b) == IF AccountOrder[a] < AccountOrder[b] THEN a ELSE b
SecondOf(a, b) == IF AccountOrder[a] < AccountOrder[b] THEN b ELSE a

SettleFirst(c) ==
    LET a == tx[c].req.account
        first == FirstOf(a, SettlesInto[a])
    IN  /\ At(c, "settleFirst") /\ Free(c, Account(first))
        /\ Lock(c, Account(first)) /\ Go(c, tx[c])

SettleSecond(c) ==
    LET req == tx[c].req
        a   == req.account
        b   == SettlesInto[a]
        net == Settlement(req)
    IN  /\ At(c, "settleSecond") /\ Free(c, Account(SecondOf(a, b)))
        /\ Write(c, (Posts(req.p) :> View(c, Posts(req.p)) \cup net) @@
                    (Account(a) :> View(c, Account(a)) + S!Moved(net, a)) @@
                    (Account(b) :> View(c, Account(b)) + S!Moved(net, b)))
        /\ Go(c, tx[c])

\* reverseGatewayPayment reads the postings, then takes them back one by one,
\* charges first; the payment's own comes last.
ReadGateway(c) ==
    LET posts == View(c, Posts(tx[c].req.p))
        own   == IF tx[c].payment.account = NoAccount THEN <<>>
                 ELSE IF tx[c].req.op = "update" THEN <<"readOwn", "withdraw">>
                 ELSE <<"withdraw">>
    IN  /\ At(c, "readGateway")
        /\ \E charges \in SetToSeqs(OfRef(posts, "gateway_charge")),
              transfers \in SetToSeqs(OfRef(posts, "gateway_settlement")) :
              GoTo(c, [tx[c] EXCEPT !.postings = charges \o transfers],
                   Times(Len(charges \o transfers), <<"restore">>) \o own \o Tail(tx[c].todo))
        /\ ReadOnly

Restore(c) ==
    LET p == tx[c].req.p
        x == Head(tx[c].postings)
    IN  /\ At(c, "restore") /\ Free(c, Account(x.account)) /\ Free(c, Posts(p))
        /\ Unpost(c, p, x.account, {x})
        /\ Go(c, [tx[c] EXCEPT !.postings = Tail(@)])

\* payment.update reads the posting before it locks the account, if there is one.
ReadOwn(c) ==
    LET own == OfRef(View(c, Posts(tx[c].req.p)), "payment")
    IN  /\ At(c, "readOwn")
        /\ IF own = {} THEN GoTo(c, tx[c], Tail(Tail(tx[c].todo)))
           ELSE Go(c, [tx[c] EXCEPT !.own = own])
        /\ ReadOnly

Withdraw(c) ==
    LET p   == tx[c].req.p
        own == IF tx[c].req.op = "update" THEN tx[c].own
               ELSE OfRef(View(c, Posts(p)), "payment")
    IN  /\ At(c, "withdraw")
        /\ Free(c, Account(tx[c].payment.account)) /\ Free(c, Posts(p))
        /\ Unpost(c, p, tx[c].payment.account, own)
        /\ Go(c, tx[c])

LockAccount(c) ==
    /\ At(c, "lockAccount") /\ Free(c, Account(tx[c].req.account))
    /\ Lock(c, Account(tx[c].req.account)) /\ Go(c, tx[c])

\* assignAccount selects the payment by its empty account, not FOR UPDATE.
PickUntracked(c) ==
    LET row == View(c, Payment(tx[c].req.p))
    IN  /\ At(c, "pickUntracked")
        /\ IF row.state = "live" /\ row.account = NoAccount
           THEN Go(c, [tx[c] EXCEPT !.payment = row])
           ELSE GoTo(c, tx[c], <<>>)
        /\ ReadOnly

\* ... and updates it by its id.
AssignPayment(c) ==
    LET p   == tx[c].req.p
    IN  /\ At(c, "assignPayment") /\ Free(c, Payment(p))
        /\ Write(c, Payment(p) :> [View(c, Payment(p)) EXCEPT !.account = tx[c].req.account])
        /\ Go(c, tx[c])

AddToBalance(c) ==
    LET req == tx[c].req
        row == tx[c].payment
        posts == S!PaymentPosting(req.account, row.amount,
                     IF row.primary # NoInvoice THEN row.primary \in Purchases
                     ELSE req.p \in SupplierPaid)
    IN  /\ At(c, "addToBalance") /\ Free(c, Posts(req.p))
        /\ Post(c, req.p, req.account, posts)
        /\ Go(c, tx[c])

-----------------------------------------------------------------------------
(* Statements on notes.                                                    *)

CapNote(c) ==
    LET req == tx[c].req
    IN  /\ At(c, "capNote")
        /\ IF req.total > View(c, Invoice(req.invoice)).total - SeenAdjusted(c, req.invoice)
           THEN RollBack(c, "refused")
           ELSE ReadOnly /\ Go(c, tx[c])

InsertNote(c) ==
    LET req == tx[c].req
    IN  /\ At(c, "insertNote")
        /\ Write(c, Note(req.note) :> [state |-> "live", ref |-> req.invoice, total |-> req.total])
        /\ Go(c, tx[c])

\* recomputeInvoiceStatus of a note's invoice: the invoice is read, the notes
\* are added up, and a status that differs is stored.
ReadInvoice(c) ==
    /\ At(c, "readInvoice")
    /\ Go(c, [tx[c] EXCEPT !.invoice = View(c, Invoice(tx[c].req.invoice))])
    /\ ReadOnly

WorkOutStatus(c) ==
    LET row  == tx[c].invoice
        next == S!Recomputed(row, SeenAdjusted(c, tx[c].req.invoice), FALSE).status
    IN  /\ At(c, "workOutStatus")
        /\ IF next = row.status THEN Go(c, tx[c])
           ELSE GoTo(c, [tx[c] EXCEPT !.status = next], <<"storeStatus">> \o Tail(tx[c].todo))
        /\ ReadOnly

StoreStatus(c) ==
    LET i == tx[c].req.invoice
    IN  /\ At(c, "storeStatus") /\ Free(c, Invoice(i))
        /\ Write(c, Invoice(i) :> [View(c, Invoice(i)) EXCEPT !.status = tx[c].status])
        /\ Go(c, tx[c])

-----------------------------------------------------------------------------
\* The row that c's next statement has to lock.
Wanted(c) ==
    LET step == Head(tx[c].todo)
        req  == tx[c].req
    IN  CASE step = "takeNumber"                     -> {Business}
          [] step \in {"guard", "reverseRow"}        -> {Invoice(Head(tx[c].rows)[1])}
          [] step = "pay" -> {Invoice(row[1]) : row \in ToSet(tx[c].rows)}
          [] step \in {"lockInvoice", "storeStatus"} -> {Invoice(req.invoice)}
          [] step = "mark"                           -> {Marker(req.p)}
          [] step \in {"lockPayment", "markDeleted", "assignPayment"} -> {Payment(req.p)}
          [] step \in {"removeTax", "depositTax"}    -> {Tax(req.p)}
          [] step = "dropRows"                       -> {Alloc(req.p)}
          [] step = "lockAccount"                    -> {Account(req.account)}
          [] step = "deposit"                        -> {Account(req.account), Posts(req.p)}
          [] step = "addToBalance"                   -> {Posts(req.p)}
          [] step = "settleFirst"  -> {Account(FirstOf(req.account, SettlesInto[req.account]))}
          [] step = "settleSecond" -> {Account(SecondOf(req.account, SettlesInto[req.account]))}
          [] step = "restore"  -> {Account(Head(tx[c].postings).account), Posts(req.p)}
          [] step = "withdraw" -> {Account(tx[c].payment.account), Posts(req.p)}
          [] OTHER -> {}

Waits(c, d) ==
    /\ tx[c].state = "running" /\ tx[c].todo # <<>> /\ d # c
    /\ \E r \in Wanted(c) : holder[r] = d

\* Transactions that all wait for one another.
Deadlocked(D) == D # {} /\ \A c \in D : \E d \in D : Waits(c, d)

\* The database aborts one of the transactions in a deadlock.
AbortDeadlocked(c) ==
    /\ \E D \in SUBSET Clients : c \in D /\ Deadlocked(D)
    /\ RollBack(c, "aborted")

Statement(c) ==
    \/ TakeNumber(c) \/ Guard(c) \/ LockInvoice(c) \/ Pay(c) \/ ReverseRow(c)
    \/ InsertPayment(c) \/ Mark(c) \/ Allocate(c) \/ LockPayment(c) \/ ReadPayment(c)
    \/ CheckTax(c) \/ RemoveTax(c) \/ ReadRows(c) \/ DropRows(c) \/ StorePayment(c)
    \/ MarkDeleted(c) \/ DepositTax(c)
    \/ Deposit(c) \/ ChargeFee(c) \/ SettleFirst(c) \/ SettleSecond(c) \/ ReadGateway(c)
    \/ Restore(c) \/ ReadOwn(c) \/ Withdraw(c) \/ LockAccount(c) \/ PickUntracked(c)
    \/ AssignPayment(c) \/ AddToBalance(c)
    \/ CapNote(c) \/ InsertNote(c) \/ ReadInvoice(c) \/ WorkOutStatus(c) \/ StoreStatus(c)

Next == \E c \in Clients : Begin(c) \/ Statement(c) \/ Commit(c) \/ AbortDeadlocked(c)

-----------------------------------------------------------------------------
(* The books before the requests: what the existing payments left.         *)

PaidBefore(existing, i) ==
    TotalOf([p \in DOMAIN existing |-> RowsOf(existing[p].rows)[i]])

PaymentBefore(existing, p) ==
    IF p \notin DOMAIN existing
    THEN [state |-> "none", primary |-> NoInvoice, amount |-> 0, discount |-> 0, tds |-> 0,
          tax |-> "none", account |-> NoAccount]
    ELSE [NewPayment([op |-> "create"] @@ existing[p]) EXCEPT !.tds = existing[p].tds]

PostsBefore(existing, p) ==
    IF p \notin DOMAIN existing THEN {}
    ELSE S!Postings(existing[p].account, existing[p].amount - existing[p].tds,
                    S!Outflow(p, PaymentBefore(existing, p).primary, RowsOf(existing[p].rows)))

\* The value of row r when every invoice comes to total.
RowBefore(existing, total, r) ==
    LET k    == r[2]
        paid == PaidBefore(existing, k)
        before == DOMAIN existing
    IN  CASE r[1] = "invoice" -> [total |-> total, paid |-> paid, deleted |-> FALSE,
                                  status |-> S!SettledStatus(total, paid, 0)]
          [] r[1] = "note"    -> [state |-> "none", ref |-> NoInvoice, total |-> 0]
          [] r[1] = "account" ->
                TotalOf([p \in before |-> S!Brought(PostsBefore(existing, p), k)])
                - TotalOf([p \in before |-> S!Taken(PostsBefore(existing, p), k)])
          [] r[1] = "payment" -> PaymentBefore(existing, k)
          [] r[1] = "tax"     -> IF k \in before /\ existing[k].tds > 0 THEN "payable" ELSE "none"
          [] r[1] = "alloc"   -> RowsOf(IF k \in before THEN existing[k].rows ELSE <<>>)
          [] r[1] = "posts"   -> PostsBefore(existing, k)
          [] r[1] = "marker"  -> FALSE
          [] OTHER            -> 0

Init ==
    \E start \in Scenarios : \E total \in start.totals :
        /\ \A i \in Invoices : PaidBefore(start.existing, i) <= total
        /\ db = [r \in Rows |-> RowBefore(start.existing, total, r)]
        /\ work = db
        /\ holder = [r \in Rows |-> NoClient]
        /\ tx = [c \in Clients |-> [state |-> "idle", todo |-> <<>>, offers |-> start.offers[c]]]

Spec == Init /\ [][Next]_vars

\* The database runs what can run, and resolves every deadlock.
FairSpec == Spec /\ \A c \in Clients :
                        WF_vars(Begin(c) \/ Statement(c) \/ Commit(c) \/ AbortDeadlocked(c))

-----------------------------------------------------------------------------
(* Correctness.                                                            *)

\* A row that no transaction holds is as committed; so nothing that was rolled
\* back is left behind.
TypeOK ==
    /\ holder \in [Rows -> Clients \cup {NoClient}]
    /\ DOMAIN db = Rows /\ DOMAIN work = Rows
    /\ \A r \in Rows : holder[r] = NoClient => work[r] = db[r]
    /\ \A c \in Clients : tx[c].state \in {"idle", "running", "done", "refused", "aborted"}

\* What the request of client c does to the books when it is handled alone.
HandledAlone(req) ==
    CASE req.op = "create" ->
            S!CreatePayment(req.p, RowsOf(req.rows), NewPayment(req).primary, req.amount, 0, 0,
                            req.account)
      [] req.op = "update" ->
            S!UpdatePayment(req.p, RowsOf(req.rows), NewPayment(req).primary, req.amount, 0, 0,
                            req.account)
      [] req.op = "delete"  -> S!DeletePayment(req.p)
      [] req.op = "assign"  -> S!AssignAccount(req.p, req.account)
      [] req.op = "online"  -> S!RecordOnlinePayment(req.p, req.invoice, req.amount, req.account)
      [] req.op = "note"    -> S!CreateNote(req.note, req.invoice, req.total)
      [] req.op = "challan" -> S!DepositTax(req.p)

\* The handler found nothing to do, as its row says before the commit: it was
\* deleted, assigned or recorded by another request.
NothingToDo(req) ==
    /\ CASE req.op = "delete" -> db[Payment(req.p)].state = "deleted"
         [] req.op = "assign" -> \/ db[Payment(req.p)].state = "deleted"
                                 \/ db[Payment(req.p)].account # NoAccount
         [] req.op = "online" -> db[Marker(req.p)]
         [] OTHER -> FALSE
    /\ UNCHANGED S!vars

Commits(c) == tx[c].state = "running" /\ tx'[c].state = "done"

\* However their statements interleave, what a request commits is what its own
\* handler in Settlement does by itself to the books it finds at its commit, with
\* every check of that handler holding there; and nothing else changes the books.
EachCommitIsOneHandler ==
    [][/\ S!vars' # S!vars => \E c \in Clients : Commits(c)
       /\ \A c \in Clients : Commits(c) =>
             HandledAlone(tx[c].req) \/ NothingToDo(tx[c].req)]_vars

\* What the data audit says of the committed rows (rules/documents.ts:108 and 121,
\* rules/money.ts:95), as in Settlement: the paid amounts, the stored statuses, and
\* the bank transactions of each payment.
PaidMatchesAllocations == S!PaidMatchesAllocations
PaymentStatus == S!PaymentStatus
BankPosting == S!BankPosting

\* "Tax already deposited against a challan can not be re-worked", and "can not
\* disappear with the payment" (payment.ts:540 and 794): it stays deposited, and its
\* payment what it is, whoever got past that check before.
DepositedTaxIsFrozen ==
    [][\A p \in Payments :
          db[Tax(p)] = "deposited" =>
             db'[Tax(p)] = "deposited" /\ db'[Payment(p)] = db[Payment(p)]]_vars

\* "What reaches the invoice is capped at its balance" (webhook.ts:210): what an
\* online payment adds to the paid amount is no more than payments and notes have
\* left of the total.
OnlineWithinBalance ==
    [][\A c \in Clients : Commits(c) /\ tx[c].req.op = "online" =>
          LET before == db[Invoice(tx[c].req.invoice)]
              after  == db'[Invoice(tx[c].req.invoice)]
              noted  == S!AdjustedBy([n \in Notes |-> db[Note(n)]], tx[c].req.invoice)
          IN  after.paid - before.paid <= Greater(before.total - before.paid - noted, 0)]_vars

\* Every request is answered, even one that meets a deadlock.
EveryRequestEnds ==
    \A c \in Clients : <>(tx[c].state \in {"done", "refused", "aborted"})
=============================================================================
