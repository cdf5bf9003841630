# Verification of fintranzact

TLA+ models, TLC runs and TLAPS proofs about the server of fintranzact, an
accounting, invoicing and tax application for small Indian businesses
(`packages/api`, TypeScript on PostgreSQL). Every definition is translated from
the source; `PROJECT.json` maps each one to the lines it stands for. Paths below
are relative to `packages/api/src` unless they start with `packages/`, `apps/` or
`docs/`.

Contents: [the system](#the-system) · [modules](#modules) · [runs](#runs) ·
[fairness](#fairness) · [proofs](#proofs) · [what the checks found](#what-the-checks-found) ·
[known behaviour left out of the runs](#known-behaviour-left-out-of-the-runs) ·
[not modelled](#not-modelled) · [plan](#plan)

## The system

One Node process (or several) serves tRPC and a few REST routes. A *control*
database holds organisations, members, subscriptions and quotas; each
organisation has a *tenant* database with its businesses and their books. Nothing
is shared between processes except the databases and the gateways outside
(Razorpay, government portals). A handler usually runs one READ COMMITTED
transaction; it locks rows with `SELECT ... FOR UPDATE`, advisory locks and unique
indexes, each handler choosing its own. Schedulers are timers inside the process.

What is stored twice is where it gets hard. `invoices.amount_paid` and
`invoices.status` repeat what payments, allocation rows and notes say;
`bank_accounts.current_balance` repeats the bank transactions;
`recurring_invoice_templates.total_runs` repeats the invoices raised;
`store_orders.refunded_amount` repeats the refund rows, which repeat what Razorpay
did. The repository has a *data audit* (`lib/data-audit/rules`) that states many of
these relations as SQL over the rows; its rules are the first source of the
properties here.

### Components

| Component | State | Operations | Talks to | Hard because | Correct when |
|---|---|---|---|---|---|
| Invoice settlement: `routers/payment.ts`, `lib/invoice-status.ts` | `payments`, `payment_allocations`, `invoices.amount_paid`, `.status` | create, update, delete, assign an account | invoices, bank, TDS | an edit is a reversal and a new payment; only some rows are locked | paid = what live payments hold; nothing overpaid; status follows the rows |
| Invoices: `routers/invoice.ts` | `invoices`, lines | create, update, change status, delete | settlement, stock, recurring, store | totals and statuses change under payments | as above |
| Credit notes and returns: `lib/document-router-factory.ts` | `invoices` rows of other types | create, change status, delete | invoices, stock | the cap is a sum over rows, read then inserted | notes within the invoice's total |
| Business Razorpay webhook: `lib/razorpay/webhook.ts` | `razorpay_payments` | record a captured payment | Razorpay, settlement, store orders | delivered again, at the same time, or late | each payment recorded once, capped at the balance |
| Bank accounts and gateways: `lib/gateway.ts`, `routers/bankAccount.ts` | `bank_accounts`, `bank_transactions` | post, charge a fee, settle into another account, reverse | payments, refunds, expenses | running balances; two accounts per payment; gateways configured anew in between | balances reconcile; a reversal leaves nothing |
| Expenses: `routers/expense.ts`, `bankRecon.createExpense` | `expenses`, their `tax_deductions` and withdrawals | create, update, delete, from a statement line | bank, TDS, gateways | an edit takes back and posts anew; gateway charges are expenses posted by someone else | one withdrawal, net, where it is pinned; none when deleted |
| TDS on payments: `lib/tds-service.ts`, `routers/tds.ts` | `tax_deductions`, `tds_challans` | withhold, deposit, remove a challan | payments, purchase bills | a deposit freezes the payment under it | deposited tax does not change |
| Store refunds: `lib/store-payments/refund.ts` | `store_order_refunds`, an order's `refunded_amount` | refund an order | Razorpay, notes, settlement, bank | four commits and a call outside; retries, timeouts, crashes | each refund paid, credited and settled once, within what was captured |
| Recurring invoices: `lib/recurring-invoice-*.ts`, `routers/recurringInvoice.ts` | `recurring_invoice_templates`, `recurring_invoice_runs` | create, update, pause, resume, run, delete; the tick | invoices | generates after its locks are gone, from what it read | each occurrence once, within limits, none forgotten |
| Billing: `lib/billing/*`, `http/razorpayWebhook.ts`, `lib/entitlements.ts` | `billing_subscriptions`, `billing_payments`, `billing_events`, `tenants.plan` | checkout, activate, renew, fail, halt, end, change, cancel, grant, revoke, lapse on read | Razorpay, tenants | every statement commits by itself; callback, webhook and reads interleave | each charge invoiced once; paid time given; nothing ended is charged |
| Payment links: `lib/razorpay/payment-link.ts` | `invoice_payment_links` | make, reuse, supersede, close | Razorpay, invoices, orders | balance read before the lock; Razorpay is told after the row is written | a link asks for what is due, none of a cancelled order can be paid |
| Store orders: `routers/store.ts`, `lib/store-payments/order-*.ts` | `store_orders`, their invoice and stock movements | check out, confirm, move along, deliver, refund, cancel | invoices, stock, links, refunds | read, then written by id; refund and cancellation are two transactions | the sale undone once, stock given back, the money asked about |
| Period locks, year close: `lib/period-lock.ts`, `lib/year-close.ts` | lock dates, snapshots | lock, close, reopen | every handler that dates an entry | checked without a lock | no entry after the snapshot |
| Inventory: `lib/inventory-service.ts`, `lib/batches.ts` | `stock_balances`, movements, batches | every document with goods | documents, store | read, then insert or update | balance = sum of movements |
| AI assistant: `lib/ai/*` | `ai_pending_actions`, quota counters, credits | ask, propose, confirm | most routers | claim, execute, record are three commits | an action is executed at most once and reported truly |
| Payroll: `lib/payroll/*` | runs, slips, loans, attendance | a system of its own | journals, bank | works under a lock of the run's row | dues settled once |

The rest (trials, plan limits, government usage, order fulfilment, barcodes,
parties, journals, sign-in and two-factor, members and roles, TDS, TCS and GST
returns, e-invoices, bank reconciliation, import and export, key rotation,
lookups, reminders, rate limits, reports and PDFs, the platform console, the apps,
the CLI and the MCP server) is listed in `PROJECT.json` with the reason it is not
modelled. The same file lists the hazards of the code, each at its line, with the
property that covers it or the reason that none does.

## Modules

Money is a natural number of units: the code's comparisons tolerate 0.01, and no
property here is about paise. `Units` has the arithmetic that all modules share, the
sum `TotalOf` over a function.

### Settlement

One action per handler, run to its commit.

| Variable | Stands for |
|---|---|
| `invoice` | `invoices` rows of type invoice: total, `amount_paid`, status, deleted |
| `payment` | `payments` rows, with the state of their `tax_deductions` row |
| `alloc` | `payment_allocations`: what payment *p* allocates to invoice *i* |
| `note` | credit notes and returns, with the invoice they adjust |
| `posting` | the `bank_transactions` made for each payment |
| `balance` | `bank_accounts.current_balance` |

`CreatePayment`, `UpdatePayment`, `DeletePayment` and `AssignAccount` are the four
mutations of `routers/payment.ts`; `RecordOnlinePayment` is `recordPayment` of the
webhook; `DepositTax` and `RemoveChallan` are those of `routers/tds.ts` as seen from
one payment; `SetInvoiceStatus`, `EditInvoice` and `DeleteInvoice` are those of
`routers/invoice.ts`; `CreateNote`, `SetNoteStatus`, `DeleteNote` and `EditNote` are
those of notes. `Applied` and `Reversed` are `applyInvoicePayment` with a positive and
a negative delta, including the `GREATEST(.., 0)` that keeps a paid amount from going
negative; `Recomputed` is `recomputeInvoiceStatus`; `Held` is the reversal with its
fallback for payments without allocation rows; `Postings` is the payment's own bank
transaction and what `processGatewayPayment` adds.

The statuses "sent", "overdue" and "unfulfilled" are one status, "open": they differ
by the clock and by stock, and the data audit treats them alike.

### SettlementRaces

The same handlers as the database runs them. `db` holds the committed rows, `work`
what running transactions wrote, `holder` who has each row's lock, `tx` what is left
of each client's transaction: a sequence of statements (`CreateSteps`, `UpdateSteps`
and so on, in the order of the source). A statement sees what was committed when it
runs and what its own transaction wrote (READ COMMITTED); a written or
`FOR UPDATE` row stays locked to the end; of transactions that wait for one another the
database aborts one (`AbortDeadlocked`). Statements that nobody can tell apart, because
the row they work on is locked, are one step. `Scenarios` says where the clients
start: the payments that exist, the total of the invoice, and what each client may send.

`S == INSTANCE Settlement WITH ...` reads the committed rows as the variables of
`Settlement`. `EachCommitIsOneHandler` says that what a request commits is what its own
handler of `Settlement` (`HandledAlone`) does by itself to the books it finds at its commit,
with every check of that handler holding there, and that nothing else changes the books. For
some pairs of handlers this is true and for others it is not; the bounds below list both, the
run `races` has the former, and each of the latter has a configuration that shows what goes wrong.

### CashAndBank

The accounts themselves, where `Settlement` takes them and their gateways as given, and
the expenses paid from them. `account` is `bank_accounts` with opening and running
balance, `config` the `payment_gateway_configs`, `expense` the expenses that users enter
and the one that the charge of a payment is booked as (it goes by the payment's name),
`rows` the `bank_transactions`, by what they were made for.

`CreateAccount`, `SetOpening`, `AddTransaction`, `Transfer`, `SetConfig` and `DropConfig` are
`routers/bankAccount.ts`, and `CountRows` and `DeleteAccount` the two halves of its
deletion, with the foreign keys that refuse it (an expense pinned to the account, a gateway
that settles into it) or follow it. `CreateExpense`, `EditExpense` and `DeleteExpense`
are `routers/expense.ts`; `ExpenseFromLine` is `bankRecon.createExpense`; `DepositTax` and
`RemoveChallan` put its TDS on a challan and take it off. The account an expense without a
pin is paid from is one of its mode's kind, or none (`ByMode`). `Receive`, `EditPayment` and
`DeletePayment` are the bank's part of `routers/payment.ts`, for customers: what is posted
(`Incoming`) goes by the configuration in force, what is undone (`Reversible`) by what was
posted. Handlers look for what to take back by its reference, `LIMIT 1`, and delete all
that has it: `References` are the rows with that reference, `Rebook` takes back one of them
and deletes the rest, which only an entry by hand with the same reference
(`handReference`) tells apart. `PostedOnce` is the data audit's rules on the postings of expenses
and payments, for the calls that keep them (`ExpensesPosted` and `PaymentsPosted` are its halves).

### StoreRefund and RefundLedger

`StoreRefund` is `refundStoreOrder` for one order, one action per commit or outside
call: `New` and `Insert` (the row, under the order's advisory lock), `CarryOn` (one
update claims a row that failed, or that has been pending for 60 seconds), `Ask`
(Razorpay: done, refused, or no answer after doing it or not), `RecordRefund` or
`RecordFailure`, `MakeNote`, `RecordNote`, `Settle`. `Crash` ends a request between any
two steps; `GoQuiet` is the passing of 60 seconds since the row was touched. Razorpay
is external: it makes one refund per idempotency key, and none beyond the capture.

`RefundLedger` is what refunding promises, with nothing of how: claims are opened
within what a payment has left, closed and reopened, and paid once, within the
capture. `ImplementsLedger` maps each row to its claim.

### RecurringInvoices

Templates (`tpl`), each tick's place (`tick`) and each request's place (`request`).
A tick (`StartTick`) either skips what is due (`Skip`, the organisation is
read-only) or selects it (`Select`), then for each template (`TakeUp`) generates
(`GenerateDue`), re-reads (`Reread`) and catches up to `MaxCatchup` invoices; `Fail` and
`Crash` stop it anywhere. `Create`, `Update`, `Delete` and `Pause` are one transaction
each. `ReadToResume` and `Resume`, and `ReadToRun` and `Run`, are two steps each, as in
the router, which reads the template first and then writes from what it read. Time is
in days, and a period is a number of days. `raised`, `lastDue`, `skipped` and `invoiced` are
history for the properties. `invoiced` has the dates that had come when they were invoiced:
`runNow` may invoice a date that is still to come, and a pause and a resume before that date may
set the next run back to it, so that it is invoiced once more. No text of the repository says
whether that may be, and `OncePerDate` does not speak of such dates.

### Billing

The subscriptions of one organisation, either to a plan or to the tiers of one add-on.
No statement of `lib/billing/service.ts` shares a transaction with another, but for
`Insert`, so each is a step of its own (`task[h]` says where handler *h* is) and other
requests run in between.

| Variable | Stands for |
|---|---|
| `sub` | `billing_subscriptions`: status, tier, period end, grace deadline, what is scheduled or replaced |
| `plan` | `tenants.plan` |
| `invoices`, `credits` | the captured and the credit rows of `billing_payments`, per charge and per subscription |
| `seen` | the `billing_events` row that makes a redelivery stop |
| `rzp`, `queue` | Razorpay: the mandate of each subscription, and its events not yet acknowledged |
| `task` | what each handler has read and does next |

`Deliver` is the webhook: the event row is committed, then `ReadToActivate`,
`Renew`, `Fail`, `Halt` or `End` is what `handleRazorpayEvent` does with the event;
`Callback` is `verifyCheckout`, on the same path. `Activate`, `SetPlan`,
`CancelReplaced`, `Retire`, `CreditReplaced`, `Invoice` are the statements of
`activateSubscription` and `retireReplacedAddon`. `Browse`, `DropOpen`, `Subscribe`,
`Insert`, `Release` are those of `startCheckout`, which `Buy`, `ChangePlan`,
`ChangeAddon` and a scheduled change share. `Overdue` is `applyLazyTransitions`, run by
whatever reads the entitlements. `Cancel`, `Grant`, `Revoke` are the owner's and the
administrator's other requests. `Pay`, `Charge`, `Decline`, `GiveUp` and `CycleEnds`
are the customer and Razorpay, which is external: events of one subscription arrive in
order, and again until they are acknowledged. A first payment is told as activated or as
charged or, with the fault `toldTwice`, as both, in either order (`TellBoth`), as
`http/razorpayWebhook.ts:178-188` is ready for. `Tick` passes a day.

### StoreOrder

One order of the online store, from the moment checkout saved it and its invoice.
`AskForLink`, then `ReuseLink`, `MakeLink` or `GiveUpLink`, is
`ensureInvoicePaymentLink` for a page of the shopper (`tab`): the balance is read
before the lock. `Expire`, `NoticeClosed`, `Pay` and `Record` are Razorpay and its
webhook (`recordPayment` with `markStoreOrderPaidTx`); `PayByHand` is `payment.create`
on the order's invoice. `ReadToMove` and `Move` are `confirmOrder` and
`updateOrderStatus`, which read the order and then write it by its id. A cancellation
is `ReadToCancel`, the refund (`Claim` or `CarryOn`, `AskRazorpay`, `MakeNote`,
`Settle`) if it asks for one, `Cancel` and `CloseLinks`; `AskRefund` starts a refund by
hand. `Crash` ends a request between two steps. The refund is told by what the order
sees of it; `StoreRefund` has the detail.

## Runs

A `violation` run checks the one property a statement of the repository makes and the
code breaks.

| Run | Instance | Checks | Distinct states |
|---|---|---|---|
| `settle_books` | 2 invoices, 2 payments, 2 notes, amounts 1-2, discounts, totals 2-3; notes and totals edited freely | `TypeOK`, `PaidMatchesAllocations`, `PaymentStatus`, `PaymentsFit` | 79 000 (symmetric) |
| `settle_bank` | a sale and a purchase, customer and supplier, TDS, a gateway settling into cash | `BankPosting`, `BalanceReconciles`, `DepositedTaxIsFrozen` | 38 000 |
| `races` | 3 clients, 4 starting points: payments made, received, edited, deleted, assigned and put on a challan; one payment edited twice; the webhook twice; two notes | `TypeOK`, `EachCommitIsOneHandler`, `EveryRequestEnds` | 49 000 |
| `store_refund` | 2 online payments and 1 by hand, 2 keys, 2 processes, 2 crashes at any step | `TypeOK`, `OneRequestAtATime`, `BooksFollowMoney`, `CreditedOnce`, `PaidMatchesAllocations`, `ImplementsLedger`, `EveryRefundEnds` | 136 000 |
| `recurring` | 1 template, 1 tick, 1 request, 4 days, periods 1-2, end on day 3, 2 runs | `TypeOK`, `RunsCountInvoices`, `OncePerDate`, `NeverPastLimits`, `DroppedForGood`, `DueIsHandled` | 187 000 |
| `billing` | 2 subscriptions of 2 tiers, 2 charges each, 2 handlers, 4 days, a cycle of 2; plan or add-on; requests of the owner, the administrator and readers may die halfway | `ChargesInvoicedOnce`, `EndedIsNotCharged`, `PlanInForce`, `BilledOnce` | 1 261 000 |
| `billing_ends` | 1 subscription, 2 charges, 2 failed attempts, events 2 days late, 5 days | `TypeOK`, `PaidTimeIsGiven`, `OnlyForward`, `UnpaidGoesReadOnly`, `EndsHereToo` | 270 000 |
| `orders` | an order of 2, 2 links, 1 page, 2 requests of the staff, 1 crash, a payment of 1 by hand | `TypeOK`, `SaleUndoneOnce`, `MoneyAnswered`, `NotPayable` | 409 000 (symmetric) |
| `cash_and_bank` | a gateway and two accounts, 1 expense, 1 payment, 1 entry by hand, amounts 1-2, a charge of 1, TDS of 1 | `TypeOK`, `PostedOnce`, `BalanceReconciles` | 156 000 (symmetric) |
| `recurring_two_ticks` | violation | `OncePerDate` | |
| `billing_event_lost` | violation | `ChargesInvoicedOnce` | |
| `refund_after_cancel` | violation | `SaleUndoneOnce` | |

Beside the runs there are configurations for single questions, to be run by hand
(`tlc -config X.cfg M`). Most of them end in a counterexample; "What the checks found" says of which.
Two pass: `MCBillingTold.cfg` checks `ChargesInvoiced` with `toldTwice`,
`callbackRace` and `chargedFirst` (no charge goes without an invoice, and those after the first are
invoiced once; 1 949 000 states), and `MCBillingBothOpen.cfg` checks `BilledOnce` with
`bothOpen` (441 000 states).

Every property of a passing run has a mutant in `PROJECT.json`: a definition of the
model changed the way a bug in the mapped code would change it (a dropped guard, a
missing lock, a status not recomputed), with which the run finds the property violated.
The mutated forms stand next to what they mutate, marked "a mistake for a run to find".

Why the bounds are enough:

- Two invoices and two payments are the least with which a payment spreads over
  invoices, an edit moves money from one to another, and a double reversal shows in
  spite of `GREATEST(.., 0)`, which needs a second payment on the same invoice. Amounts 1
  and 2 against totals 2 and 3 give paid in part, exactly, and refused. Handlers never
  relate three payments other than by sums, and the theorem `PaidMatches` removes the
  bound for the invariant that depends on it most.
- In the races each client sends one request out of a small set; three clients are enough for a
  deadlock with a bystander. Two starting points have existing payments (one through the
  gateway, one with TDS, one untracked), so that requests undo something; two have an invoice
  alone. `races` has the pairs of handlers for which `EachCommitIsOneHandler` holds: creations,
  online payments, edits, deletions, assignments and a challan of *different* payments, two edits
  of one payment, one webhook delivered twice, and two notes beside each other and beside a
  new payment. It does not hold, and `races` therefore does not have it, for a deletion beside a deletion or an
  edit of the same payment; an assignment beside another one (to another account), an edit (to
  another account or none) or a deletion of that payment; a challan beside an edit or a deletion of
  the payment whose tax it has; and a note beside an edit or a deletion of a payment
  of its invoice, or beside an online payment. Two assignments to the same account, two challans
  of one tax, and two edits were found to hold.
- `settle_books` makes notes only where the other invoice is untouched and nothing was
  discounted (the constraint `NotesOfOneInvoice`): a note works on its own invoice only.
- In `cash_and_bank` an amount of 1 is all charge and one of 2 leaves something to settle; an
  account is opened with 1 or gets 1 later. Entries by hand come beside payments and not
  beside expenses (the constraint `HandOrExpense`): they meet only in the balance, which is
  a sum.
- Two keys and two processes give two requests on one refund and two refunds on one
  payment; 2 crashes let a request die, be repeated, and die again.
- One template: another template's work in the same tick is, for this one, a delay between
  two of its steps, which interleaving has already. Two templates make liveness too slow
  to check and add no behaviour. Four days with periods of 1 and 2 days give catch-up of
  several occurrences beyond `MaxCatchup = 2` (12 in the code), which then end in a later
  tick. `MaxByHand = 2` bounds the invoices raised by hand.
- Two subscriptions are one and the one that replaces it. Two charges are the first,
  which activates, and a renewal. Four days with a cycle of two hold both, the grace of
  one day and a late charge. `MaxLate = 0` in `billing` has every event delivered on the
  day it is made (with one late event it passes too, with 3.9 million states); in
  `billing_ends` two may be days late. Two handlers let any two requests interleave.
- An order of two units is paid in full or in half, and refunded in two parts; two links
  are one and its replacement; two requests of the staff are a refund and a cancellation, or
  either with a move. One crash lets a cancellation die before or after its refund and be
  sent again. The staff's refunds by hand have one key (`Keys`); the page takes any number of them.
- An entry by hand in `cash_and_bank` is of its own amount, unlike any that an expense or a payment has,
  in for a payment and out for an expense; its reference is free only with `handReference`.

`CHECK_DEADLOCK FALSE` everywhere: finitely many payments, keys, requests and days
are used up, and the system then rests.

## Fairness

Only liveness properties use it.

- `SettlementRaces`: weak fairness of each client's next statement. The database runs a
  statement whose lock is free, and its deadlock detector aborts one of a cycle;
  without `AbortDeadlocked` the property `EveryRequestEnds` fails, since webhook and
  `payment.create` take the invoice and the counters in opposite orders.
- `StoreRefund`: weak fairness of a running request's steps (the call to Razorpay ends by
  itself after `REQUEST_TIMEOUT_MS`, 10 s) and of the 60 seconds passing; strong
  fairness of someone sending the request again. The last is what the code offers a way
  to do, not something the server does by itself: without a client that retries, an
  interrupted refund stays pending, as there is no sweeper. `EveryRefundEnds` gives up once a
  request died between making a note and recording it: the note that nothing refers to uses up
  what can be credited, and a later one may be refused for good.
- `RecurringInvoices`: ticks come every minute (`StartTick`, `EndTick`, `Reread`, strongly,
  since a crash or lapse can disable them), a generation in hand ends in success or
  failure (weakly), and for each template selection, taking up and generating succeed
  again and again if they are possible again and again: failures and skipped locks are
  transient. The limit of fifty per tick without an order does not by itself guarantee
  this (see the hazards).
- `Billing`: weak fairness of each handler's next statement, as requests end. Strong
  fairness, for each subscription, of deliveries, since Razorpay repeats an event until it
  is acknowledged, and of `Overdue`, since whoever uses the organisation reads its
  entitlements. The last is an assumption about use: nothing runs at midnight, and what
  nobody reads stays as it was. Neither charges nor payments nor the clock are fair.

## Proofs

TLAPS checks these for every value of the constants allowed by the assumptions in the
modules, which TLC evaluates on the runs. The last column lists the members of `Uses` or
`Faults` that the theorem excludes. The table under "Known behaviour left out" has
what they are, and which properties are known to fail with them. Some theorems of `Billing` exclude
more than that, because their invariant does; where, is said below.
`Orderly` is the absence of `payReplaced`, `callbackRace` and `toldTwice` and, where add-ons are looked at, of `bothOpen` and
`ownerTwice`; `Reliable` that of `crashAtEvent`, `gatewayDown` and `grantHalted`.

| Theorem | Says | Without |
|---|---|---|
| `SettlementProofs!TypeCorrect` | `TypeOK` | |
| `SettlementProofs!PaidMatches` | `PaidMatchesAllocations` | `editDeleted`, `onlineWhenSettled` |
| `SettlementProofs!PaymentsAlwaysFit` | `PaymentsFit` | |
| `SettlementProofs!StatusFollowsRows` | `PaymentStatus` | `statusByHand` |
| `SettlementProofs!PostedToAccount` | `BankPosting` | `editDeleted`, `assignWithheld` |
| `SettlementProofs!BalancesReconcile` | `BalanceReconciles` | |
| `SettlementProofs!DepositedTaxFrozen` | `DepositedTaxIsFrozen` | |
| `CashAndBankProofs!TypeCorrect` | `TypeOK` | `handReference` |
| `CashAndBankProofs!BalanceAlwaysReconciles` | `BalanceReconciles` | `handReference` |
| `CashAndBankProofs!ExpensesArePosted` | half of `PostedOnce`, for expenses | all but `deleteInUse` |
| `CashAndBankProofs!PaymentsArePosted` | half of `PostedOnce`, for payments | all but `editDeleted`, `taxOnLine` |
| `CashAndBankProofs!AllPostedOnce` | `PostedOnce` | all |
| `StoreRefundProofs!LedgerTypeCorrect`, `LedgerPaysWithinCaptured`, `LedgerPaysOnce` | the ledger pays each claim once and within the capture | |
| `StoreRefundProofs!TypeCorrect` | `TypeOK` | |
| `StoreRefundProofs!NothingBookedUnmoved` | `BooksFollowMoney` | |
| `StoreRefundProofs!OneRequestWorks` | `OneRequestAtATime` | `slow` |
| `StoreRefundProofs!NotedOnce` | `CreditedOnce` | `slow` |
| `StoreRefundProofs!NeverTwoNotes` | `OneNotePerRefund` | `slow`, `crashAfterNote` |
| `StoreRefundProofs!PaidIsAllocated` | `PaidMatchesAllocations`, if `Allocated = Captured` | `slow` |
| `StoreRefundProofs!RefundImplementsLedger` | `Spec => Ledger!Spec` | `slow` |
| `StoreRefundProofs!SettledOnceWithinCaptured` | so what the rows say was settled is paid once and within the capture | `slow` |
| `RecurringInvoicesProofs!TypeCorrect` | `TypeOK` | |
| `RecurringInvoicesProofs!RunsAreCounted` | `RunsCountInvoices`, with one scheduler | `requestDuringTick` |
| `RecurringInvoicesProofs!DatesInvoicedOnce` | `OncePerDate`, with one scheduler | `requestDuringTick` |
| `RecurringInvoicesProofs!LimitsAreKept` | `NeverPastLimits`, with one scheduler | `requestDuringTick`, `pastLimits` |
| `RecurringInvoicesProofs!SkippedIsDropped` | `DroppedForGood`, with one scheduler | `requestDuringTick` |
| `StoreOrderProofs!TypeCorrect` | `TypeOK` | |
| `StoreOrderProofs!CancelledIsNotPayable` | `NotPayable` | `linkLeftOpen`, `lateLink` |
| `StoreOrderProofs!CancelledIsUndoneOnce` | `SaleUndoneOnce` | `overlap`, `refundCancelled`, `cancelDuringRefund` |
| `StoreOrderProofs!CancelledMoneyIsAnswered` | `MoneyAnswered` | `advance`, `payDuringCancel`, `overlap`, `cancelDuringRefund` |
| `BillingProofs!TypeCorrect` | `TypeOK` | |
| `BillingProofs!PaidIsGiven` | `PaidTimeIsGiven` | `crashAtEvent` |
| `BillingOrderProofs!GoesOnlyForward` | `OnlyForward` | `Orderly` |
| `BillingOrderProofs!PlanIsInForce` | `PlanInForce` | `Orderly`, `crashAtEvent` |
| `BillingOrderProofs!EndedStaysUncharged` | `EndedIsNotCharged` | `Orderly`, `Reliable` |
| `BillingOrderProofs!InvoicesOnce` | `ChargesInvoicedOnce` | `Orderly`, `crashAtEvent`, `chargedFirst` |
| `BillingOrderProofs!PlanIsBilledOnce` | `BilledOnce`, for plans | `Orderly`, `Reliable`; `Kinds` has no add-on |

What a theorem does not exclude may happen, also together with all the rest: crashes, events
out of order and late, requests sent again, any number of each.

- **Sums.** `TotalOf` is a fold over a function, and induction over data is beyond the
  prover. `UnitsProofs` therefore reads a sum as the cardinality of the set of units that
  the function counts (`ColumnSize`) and derives from facts about finite sets what the
  other proofs use: a sum is a natural number, changing one term changes it by the
  difference (`TotalUpdate`), a term is within it, it is monotone, and a sum over two
  disjoint sets is the two sums (`TotalDisjoint`). Sums over sets are finite, which
  `BankAssumption` and `OrderAssumption` therefore state.
- **PaidMatches.** `PaidMatchesAllocations` is inductive together with `TypeOK`. The step
  that matters is the reversal: a payment's held amount is a term of the sum
  (`HeldWithinPaid`), so `GREATEST(paid - held, 0)` never cuts anything off, and taking the
  term out of the sum takes the same amount off the invoice. `Held` reads a payment with
  an invoice and no allocation rows as fully allocated; the two excluded calls are those
  after which that reading is wrong.
- **The other books.** `PaymentsFit` is about a step: the rows that are added were checked
  against the balance left when what the payment held was taken off (`GREATEST` never leaves less than
  that), and the total is that of the same step; it needs `TypeOK` only, and holds of overpaid invoices too. `PaymentStatus` is inductive with `TypeOK`
  alone, since each handler that touches what the status is made of stores it anew.
  Every step replaces the postings of one payment or none (`BankSteps`), and the balances
  move by the difference, which is `BalanceReconciles` with no call excluded: even a
  wrong posting moves the balance it is on. For `BankPosting` an invariant says that what
  has no account has no postings (`AccountlessUnposted`), as an edit takes back postings by the
  account that the row has, not the one they are on. `DepositedTaxIsFrozen` needs that a payment
  not made yet has no tax row, as only making one is not guarded by `assertTdsNotDeposited`.
- **CashAndBank.** `BooksInv` has, besides the types, that what an expense or a payment has on the
  accounts under its own reference is at most one transaction (`PostedByOne`), that a thing not entered yet has no
  transactions, that a payment without an account has none of its own, and that
  transactions and settlements refer to open accounts. With it every step is a new
  opening, a new or deleted account, or the replacement of the transactions of one expense,
  payment or entry (`RepostStep`), and both theorems follow from that. `PostedOnce` is proved in halves
  because the halves need different exclusions; that an expense is taken back by its pin,
  and a charge by its payment, is `ChargesInv` (a booked charge is pinned to the account
  its transaction is on).
- **StoreRefund.** `Inv == TypeOK /\ WorkIsClaimed /\ BookedIsMoved /\ MovedWithinCaptured`.
  `OneRequestAtATime` is not inductive by itself: it needs that a row under work is pending
  and not quiet (`WorkIsClaimed`), so that `CarryOn` cannot take it. `BookedIsMoved` ties what
  is recorded, and the step a request is at, to what Razorpay has done. That a settled
  claim fits (`Ledger!Pay`) follows because settled rows are among the moved ones, and
  those are within the capture, although `CarryOn` re-opens a failed row without a
  second look at what the payment has left. `NotesInOrder` says where the notes of a
  refund are on record: on its row, with the request about to store it, or with one that died there (`lost`). `BooksInOrder` says that
  a payment's allocation and what was settled of it make up what was captured, so that
  no settlement is cut off at zero. A payment above the balance of its invoice is allocated in
  part, and refunding it takes more off the paid amount than off the allocation, hence
  `Allocated = Captured`.
- **RecurringInvoices.** The invariant `Apart` says that what a tick or a request has read of a
  template is still what its row says, and that no two of them have read the same one.
  It is `OneAtATime` that keeps it: the app runs one scheduler per process, and the
  violation `recurring_two_ticks` shows what happens with two. From `Apart`, each step either raises
  one invoice off a snapshot that is current, or none.
- **StoreOrder.** `BooksInv` has that a refund's row goes through its steps in order, that at most one request
  works on it and finds it at its step (`WorkInOrder`, `OneWorker`), and that credit and refunded amount
  are the sums of the rows (`SumsInOrder`). Only with it is `TypeOK` inductive: that `refunded`
  stays within `Total` is because it is within the credit, which is capped. `NotPayable` needs that a link
  which is not live in the books is not open at Razorpay. For the other two, nobody is at
  the order beside a cancellation (`Alone`). `SaleUndoneOnce` then needs what a cancellation knows of
  refunds until it commits (`KnowsRefunds`). `MoneyAnswered` needs five things (`MoneyInv`): an order is unpaid as
  long as nothing was recorded, and paid by one link, which covers what was due
  (`PaidAtOnce`); refunds are of what was received, Razorpay sends back no more than it got,
  and the refund of a cancellation takes all that earlier ones left (`SentBack`); and a cancellation about to
  commit has either seen all of it sent back or was told to keep it (`KnowsMoney`).

- **Billing.** Each action is first summed up by what it does (`PayDoes`, `DeliverDoes` and the like), and the
  proofs are about these summaries: `HandlersMove` (a handler stays, leaves, goes on or starts),
  `RowsMove` (what a step can do to a row) and `RazorpayMovesAlways` (to a mandate and its
  events). Two invariants hold with nothing excluded. `TypeInv` adds to `TypeOK` what a handler at
  a step has read. `Struct` adds how a row and its mandate go together (what
  is in force was paid or given by the administrator), that a row which is replaced was in force
  (`Replacing`), that a handler works on rows that fit its step (`WorksInOrder`), and what the unique
  indexes keep (`Unique`).
  - `PaidIsGiven`: `PaidInv` says that an active row runs to the next charge, or that
    the last charge is still on its way, in the queue or with the handler that adds it (`Owed`,
    `Given`), and that an event being applied has its `billing_events` row (`Noted`), so that no redelivery
    acknowledges it meanwhile.
  - `GoesOnlyForward`: the danger is `Activate`, which writes a row that was read before.
    `Core` says that when a handler is about to activate, the row is still a checkout
    (`Activations`), which needs that no buyer is left who could take a checkout away once it is paid
    (`NoBuyers`), that no two handlers activate one row (`OneActivates`), that the first payment
    is the next event (`FirstsAreFirst`), that no failed attempt comes before
    it is told (`YoungOnes`), and, for add-ons, that one checkout at a time can be paid, and replaces what is held
    (`OffersInOrder`). Every further theorem rests on `Core`.
  - `PlanIsInForce`: `PlanInv` says that the plan is that of the row which is held, or a
    handler is about to write it, and that nothing else is held or paid then (`Alone`).
  - `EndedStaysUncharged`: `EndInv` says that whoever ends a row has told Razorpay before (`Ender`,
    `Ending`), or is about to let go of it (`LetGo`).
  - `InvoicesOnce`: `Booked` says exactly when a charge has its invoice: the first one once
    its row was activated and nobody is between that and the invoice, a later one
    once its event is gone. That each charge is told by one event (`Distinct`), that one request
    at a time is at a first payment (`OneFirst`), and that a redelivery finds the first delivery
    at work or its row cancelled (`SeenServed`) keep it.
  - `PlanIsBilledOnce`: the unique index lets one row be held, so that of two that are charged
    at least one was cancelled. `BilledInv` says that at most one was and is still charged
    (`OneEnded`): when the next one can be bought, nothing is held any more (`Cleared`).

Each strengthened invariant was first checked by TLC on the instances of the runs or on
smaller ones, for plans and for add-ons (`BilledInv` for plans).

Only model-checked:

- `EachCommitIsOneHandler` and `TypeOK` of `SettlementRaces`. The former compares a committed state
  with what a handler computes from a state recorded at its start, statement by statement; its
  inductive invariant would restate every lock at every statement, and the instance with
  three clients says as much.
- `BilledOnce` for the tiers of an add-on (a tier and the one it replaces). There two tiers are charged for a while, and the
  invariant has to name the handler or the event that will retire one of them, through
  scheduled changes too; that proof is left to the plan.
- All liveness (`EveryRequestEnds`, `EveryRefundEnds`, `DueIsHandled`, `UnpaidGoesReadOnly`,
  `EndsHereToo`), which is out of the prover's reach, as is `ENABLED`.

## What the checks found

Three disagreements between what the repository says and what the code does are
runs with a counterexample, and findings of `PROJECT.json`.

1. `recurring_two_ticks`: the row locks that are said to prevent duplicate processing end
   before anything is generated (`lib/recurring-invoice-scheduler.ts:118`).
2. `billing_event_lost`: the row that makes a redelivered event stop is committed before
   the event is applied (`http/razorpayWebhook.ts:149`). If applying it fails, the
   redelivery is acknowledged without being applied, and a charge has neither an invoice
   nor a period.
3. `refund_after_cancel`: an order cancelled with its money kept has its invoice
   cancelled; a refund sent later (`lib/store-payments/refund.ts:175`) credits the cancelled
   invoice, so that the sale is taken back twice.

Twenty more are configurations beside the runs. `tlc -config X.cfg M` ends each of them in a
counterexample to the property named; M is `MCSettlement`, `MCSettlementRaces`, `MCStoreRefund`,
`MCRecurringInvoices`, `MCBilling`, `MCStoreOrder` or `MCCashAndBank`.

| Configuration | Violated | The code does | The repository says |
|---|---|---|---|
| `MCSettlementLowered` | `NotOverpaid` | `invoice.update` compares the new total with nothing (`routers/invoice.ts:1185`) | "invoice.update must not shrink a total below what was paid" (`lib/data-audit/rules/documents.ts:116`) |
| `MCSettlementRaised` | `AdjustmentsWithinTotal` | the cap on notes is checked when one is created (`lib/document-router-factory.ts:478`), not when it is edited (`routers/invoice.ts:1205`) or reinstated (`lib/document-router-factory.ts:614`) | notes "never add up to more than its total" (`documents.ts:156`) |
| `MCRacesDeleted` | `PaidMatchesAllocations` | a deletion reads payment and rows without a lock (`routers/payment.ts:780`, `799`) and, beside a deletion or an edit, takes them off twice: another payment's money is lost | "amount_paid equals what live payments allocated" (`documents.ts:108`) |
| `MCRacesAssigned` | `BankPosting` | `assignAccount` picks an untracked payment without a lock (`payment.ts:1000`) and posts it although it was assigned, edited or deleted since | "exactly one 'payment' bank transaction" (`rules/money.ts:95`) |
| `MCRacesChallan` | `DepositedTaxIsFrozen` | whether the tax is deposited is read without a lock (`lib/tds-service.ts:567`); an edit removes what a challan has taken up since | "Tax already deposited against a challan can not be re-worked." (`payment.ts:540`) |
| `MCRacesNoted` | `PaymentStatus` | a note works the status out from an invoice it has not locked (`lib/invoice-status.ts:62`), beside an edit or a deletion of a payment | the stored status is what `invoice-status.ts` works out (`documents.ts:121`) |
| `MCRacesOnlineNoted` | `OnlineWithinBalance` | the webhook locks the invoice, a note does not (`lib/razorpay/webhook.ts:195`) | "What reaches the invoice is capped at its balance" (`webhook.ts:210`) |
| `MCStoreRefundNoted` | `OneNotePerRefund` | the credit note is committed before its id is stored (`lib/store-payments/refund.ts:305`); a request that dies in between leaves a note that nothing refers to | "each step safe to repeat with the same idempotency key" (`refund.ts:5`) |
| `MCRecurringByHand` | `RunsCountInvoices` | `runNow` beside a tick: both write the count they read plus one (`lib/recurring-invoice-generator.ts:283`) | "total_runs equals the number of successful runs recorded" (`documents.ts:450`) |
| `MCRecurringPastMax` | `NeverPastLimits` | `update` lowers `maxRuns` below what was raised (`routers/recurringInvoice.ts:222`) | "never exceeds max_runs" (`documents.ts:450`) |
| `MCBillingToldTwice` | `ChargesInvoicedOnce` | a first payment told as activated and as charged: the second finds the row active and is booked as a renewal (`http/razorpayWebhook.ts:180`) | "The very first charge can also arrive as "charged": activate then." (`razorpayWebhook.ts:179`) |
| `MCBillingChargedFirst` | `ChargesInvoicedOnce` | the same, when the callback has activated it before | "webhook + callback can both fire" (`lib/billing/service.ts:444`) |
| `MCBillingRace` | `ChargesInvoicedOnce` | callback and webhook both read a row that is not active, and both invoice (`service.ts:442`) | the same |
| `MCBillingTwoTiers` | `TiersBilledOnce` | a checkout of an add-on lets only one of the same tier give way (`service.ts:295`); two tiers checked out before either is paid both go on | "never billed for both tiers" (`lib/billing/addon-service.ts:9`) |
| `MCStoreOrderLateLink` | `NotPayable` | the order is not read again under the lock (`lib/razorpay/payment-link.ts:144`) | "A cancelled order must not be payable" (`routers/store.ts:747`) |
| `MCBankEdited` | `ExpensesPosted` | `expense.update` looks for a withdrawal of kind "expense" (`routers/expense.ts:211`), and that of a gateway's charge is of another; `expense.delete` does so too (line 370) | "at most one withdrawal", "a deleted expense has none" (`money.ts:159`) |
| `MCBankDeletedEdited` | `ExpensesPosted` | a deleted expense can be edited (`expense.ts:182`), and is posted again | the same |
| `MCBankTaxedLine` | `ExpensesPosted` | an expense from a statement line keeps its TDS and is withdrawn gross (`routers/bankRecon.ts:836`) | "less any TDS deducted" (`money.ts:159`) |
| `MCBankDeletedInUse` | `PaymentsPosted` | an account's transactions are counted without a lock (`routers/bankAccount.ts:210`); what is posted before it is deleted goes with it | "exactly one 'payment' bank transaction" (`money.ts:95`) |
| `MCBankByHand` | `PaymentsPosted` | an entry by hand may name a payment (`bankAccount.ts:383`) | the same |

## Known behaviour left out of the runs

Some calls are accepted by the API but not made by the web app, or need an unlikely
order of events; with them a property is false for a reason that is known. `Uses` and
`Faults` name them; a passing run allows those under which its properties hold. Apart from
the bounds given above, and from the pairs of handlers that `races` does not have, the
guards that consult them are the only place where a model says less than the code. The last column names
the configuration that shows it, where there is one.

| Module | Name | What it allows | What it breaks | Shown by |
|---|---|---|---|---|
| Settlement | `editDeleted` | edit a deleted payment (`payment.update` does not look at `deletedAt`, `routers/payment.ts:526`) | `PaidMatchesAllocations`: its amount is taken off the invoice a second time | |
| | `onlineWhenSettled` | online payment with nothing due: it keeps the invoice's id without an allocation row (`lib/razorpay/webhook.ts:230`) | `PaidMatchesAllocations`: deleting it takes other payments' money off; allowed in `races` | |
| | `statusByHand` | store any status, revive a deleted invoice | `PaymentStatus` | |
| | `assignWithheld` | assign a payment with TDS: posts the gross | `BankPosting` | |
| CashAndBank | `editCharge` | edit the expense of a gateway's charge: `expense.update` (`routers/expense.ts:211`) looks for a withdrawal of kind "expense", and the charge's is of another | `PostedOnce`: it posts a second one, which the data audit forbids (`lib/data-audit/rules/money.ts:159`) | `MCBankEdited.cfg` |
| | `deleteCharge` | delete such an expense | `PostedOnce`: its withdrawal stays | |
| | `editDeleted` | edit a deleted expense (`routers/expense.ts:182` does not look at `deletedAt`) | `PostedOnce`: it is withdrawn again | `MCBankDeletedEdited.cfg` |
| | `taxOnLine` | make an expense with TDS from a line of a bank statement (`routers/bankRecon.ts:807`) | `PostedOnce`: the tax is stored, but nothing is deducted, and the bank moves the gross | `MCBankTaxedLine.cfg` |
| | `deleteInUse` | post to an account while it is deleted (`routers/bankAccount.ts:210` counts without a lock) | `PostedOnce`: what was posted goes with the account (`packages/db/src/tenant-schema.ts:1182`) | `MCBankDeletedInUse.cfg` |
| | `handReference` | an entry by hand that refers to a payment or an expense | `PostedOnce`: the payment is posted twice; `BalanceReconciles`: an edit deletes all that has the reference and takes back one amount | `MCBankByHand.cfg` |
| StoreRefund | `crashAfterNote` | die between making the credit note and storing its id (`lib/store-payments/refund.ts:305`); the passing run allows it | `OneNotePerRefund`: the retry makes a second note, or stays pending when the cap on notes refuses it; `CreditedOnce` and `EveryRefundEnds` say what is left | `MCStoreRefundNoted.cfg` |
| | `slow` | a request at work 60 s after its last update | `OneRequestAtATime`, `ImplementsLedger`: a late answer overwrites a processed row. The calls end after 10 s, so this needs a stalled process | |
| RecurringInvoices | `requestDuringTick` | `runNow`, `resume`, `update` overlap a tick or each other | as finding 1: an occurrence raised twice, a completed template revived | `MCRecurringByHand.cfg` |
| | `pastLimits` | resume or edit so that the next run is past the limits | `NeverPastLimits`: one more invoice is raised | `MCRecurringPastMax.cfg` |
| Billing | `crashAtEvent` | the webhook or a callback stops between two steps, or a purchase before it lets go of what was halted | finding 2, and `ChargesInvoicedOnce` when the callback activates and does not come to invoice; `PlanInForce` and `PaidTimeIsGiven`, as the plan or the renewal is never written; `EndedIsNotCharged` | `billing_event_lost` |
| | `gatewayDown` | a call to Razorpay fails | `EndedIsNotCharged`, `BilledOnce`: a replaced or halted subscription is let go of in the books only; an error event is recorded | |
| | `callbackRace` | callback and webhook of one payment at the same moment | `ChargesInvoicedOnce`: both read a subscription that is not active, both invoice; `OnlyForward`: the slower one activates what was ended meanwhile | `MCBillingRace.cfg` |
| | `chargedFirst` | Razorpay tells a first payment as a charge, and the browser calls back | `ChargesInvoicedOnce`: activated by the callback, renewed by the charge | `MCBillingChargedFirst.cfg` |
| | `toldTwice` | Razorpay tells a first payment both as activated and as charged | `ChargesInvoicedOnce`: the second is booked as a renewal; `OnlyForward`, `PlanInForce`, `EndedIsNotCharged` and `BilledOnce` are proved without it | `MCBillingToldTwice.cfg` |
| | `ownerTwice` | two requests of the owner at the same moment | `BilledOnce` for add-ons; nothing was found for plans, and the theorems allow it there | |
| | `bothOpen` | checkouts of two tiers of an add-on open at once | `TiersBilledOnce`: both are paid and go on; `BilledOnce` does not speak of them. `EndedIsNotCharged` and `ChargesInvoicedOnce`, as a scheduled change lets a checkout give way that is paid already | `MCBillingTwoTiers.cfg` |
| | `payReplaced` | pay a checkout after another was started | `EndedIsNotCharged`, `ChargesInvoicedOnce`, `BilledOnce`: the row is cancelled and cannot be activated, the mandate runs | |
| | `grantHalted` | grant an add-on while another tier is halted (`lib/billing/addon-service.ts:137`) | `EndedIsNotCharged`: Razorpay is not told, a late charge goes through | |
| StoreOrder | `advance` | a payment above what is due | `MoneyAnswered`: the order stays unpaid, and its cancellation does not ask about the money | |
| | `payDuringCancel` | a payment recorded while a cancellation runs | `MoneyAnswered` | |
| | `linkLeftOpen` | Razorpay does not hear that a link is closed | `NotPayable` | |
| | `lateLink` | a page gets a link that it asked for before a cancellation | `NotPayable` | `MCStoreOrderLateLink.cfg` |
| | `cancelDuringRefund` | cancel while a refund is pending | `SaleUndoneOnce`, `MoneyAnswered`: after a crash, the retry counts the pending row, finds nothing left to refund, cancels the credited invoice and forgets the refund | |
| | `refundCancelled` | refund an order whose invoice is cancelled | finding 3 | `refund_after_cancel` |
| | `overlap` | a cancellation beside another request of the staff | `SaleUndoneOnce`, `MoneyAnswered`: `Move` writes over a cancellation | |

A payment that was made just before the order was cancelled, and is told after it, is recorded
nowhere but in the audit trail (`lib/razorpay/webhook.ts:204`); `MoneyAnswered` speaks of recorded
money only.

A scheduled downgrade starts a checkout on read, but nobody is shown it (`Release`), and if
Razorpay's "cancelled" event comes before the read, nothing is started at all. No property
here says that a scheduled change takes place.

`lapses` of `RecurringInvoices` (the organisation becomes read-only and recovers) is
allowed in the passing run and left out of the violation only to keep it short.

## Not modelled

`CashAndBank` leaves out which account is the default, cheque fields, what statement lines
are matched to, supplier payments and TDS on payments (both in `Settlement`), and the fee that
Razorpay reports for an online payment, which replaces the configured charge.

Inside the modelled components: numbering beyond its lock, lines, stock and tax rates of
documents, dates other than those of recurring invoices, period locks (an entry in a
locked period is refused like any other refused request), the audit log, permissions,
emails. `SettlementRaces` leaves out edits of invoices, which take no part in the locks it
is about, and TDS on the payments that its requests make; it does not cut a single
SQL statement apart. `StoreRefund` does not model the bank withdrawal of the
settlement, which is in the same transaction and equal to the refunded amount, and
starts from payments that came in before the first refund and were allocated in full
(one above the balance of its invoice can be refunded in full too, which takes more off the
paid amount than off the allocation).

`Billing` leaves out the demo gateway, monthly and yearly cycles and their prices, proration
amounts, failed payment rows (they have no invoice number), AI packs, government usage
statements and events without a subscription row; `applyLazyTransitions` takes one row at a
time there, and `Clear` makes one step of the updates of `grantAddonByAdmin`. A browser calls
back on the day of the payment or never, and a customer pays between requests, not in the
middle of one. `StoreOrder` leaves out the checkout itself, cash on delivery, partial payments of a
link and emails, and "ready" is part of "preparing". It takes the stock of the order as one
fact, held or given back.

Components not modelled are in `PROJECT.json` with their reason: most are queries,
parsers and layouts, or wrap a portal whose behaviour the repository does not define.

## Plan

The modules above were written in the order of their importance to the books. Next:

1. **Proofs** of `Billing` for two tiers of an add-on (`BilledOnce`), and without the exclusions that only the
   proof of `Core` needs: `payReplaced`, `bothOpen` and `ownerTwice` were not found to break `OnlyForward`.
2. **Period locks** (an entry racing a close) and **purchase TDS** (`syncBillTds`).
3. **AI actions and quota**, then **stock balances** against movements.
