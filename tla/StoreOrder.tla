----------------------------- MODULE StoreOrder -----------------------------
(***************************************************************************)
(* The life of one order of the online store (routers/store.ts): the       *)
(* payment links its shopper asks for, what Razorpay reports of them, what *)
(* the staff does with the order, and the stock it holds.  A request is a  *)
(* series of statements and calls, and others run in between.              *)
(*                                                                         *)
(* A refund is told here by what the order sees of it; module StoreRefund  *)
(* has the detail.                                                         *)
(***************************************************************************)
EXTENDS Units

CONSTANTS
    Total,       \* what the order comes to
    Links,       \* payment links that can be made
    Tabs,        \* open pages of the shopper
    Staff,       \* requests of the staff that can run at once
    Cash,        \* amounts the staff may record as paid by hand
    MaxCrashes,  \* requests that may die halfway
    Uses         \* what may happen besides, see below

ASSUME OrderAssumption ==
    /\ Total \in Nat \ {0} /\ MaxCrashes \in Nat
    /\ IsFiniteSet(Links)
    /\ Cash \subseteq 1 .. Total
    /\ Uses \subseteq {
          "advance",             \* more is paid online than is due
          "payDuringCancel",     \* a payment is recorded while a cancellation runs
          "linkLeftOpen",        \* Razorpay is not told to close a link
          "lateLink",            \* a page gets a link it asked for before a cancellation
          "cancelDuringRefund",  \* a cancellation is sent while a refund is pending
          "refundCancelled",     \* a refund is sent when the invoice is cancelled
          "overlap"}             \* a cancellation runs besides another request of the staff

VARIABLES
    order,    \* the store_orders row
    invoice,  \* its invoice: cancelled or not, paid, and credited by notes
    held,     \* the stock movements of the invoice hold what was ordered
    link,     \* each payment link: its row, and the link at Razorpay
    refund,   \* the store_order_refunds row of each key
    tab,      \* what each page of the shopper is waiting for
    job,      \* what each request of the staff is at
    kept,     \* the owner chose to keep the money of the cancelled order
    crashes

vars == <<order, invoice, held, link, refund, tab, job, kept, crashes>>

\* A cancellation has one key of its own per order; by hand, a key is the client's.
\* Bound: the staff refund by hand with one key, sent any number of times.
Keys == {"cancel", "byHand"}

Idle == [op |-> "none"]
NoLink == [row |-> "none", amount |-> 0, rzp |-> "none", recorded |-> FALSE]
NoRefund == [state |-> "none", of |-> "none", amount |-> 0,
             moved |-> FALSE, known |-> FALSE, noted |-> FALSE]

-----------------------------------------------------------------------------
(* What handlers work out.                                                 *)

\* loadInvoiceBalance.
Balance == Greater(Total - invoice.paid - invoice.credit, 0)

Active == {l \in Links : link[l].row = "created"}

\* What was received through link l.
Received(l) == IF link[l].recorded THEN link[l].amount ELSE 0

\* The refunds that count against what was received.
Claims(k) == refund[k].state \in {"pending", "processed"}

\* refundableForOrder.
Refundable ==
    Greater(TotalOf([l \in Links |-> Received(l)])
            - TotalOf([k \in Keys |-> IF Claims(k) THEN refund[k].amount ELSE 0]), 0)

Cancelling == \E s \in Staff : job[s].op = "cancel"

-----------------------------------------------------------------------------
(* Payment links (ensureInvoicePaymentLink), and what Razorpay does.       *)

\* The order and its balance are read; the lock comes after.
AskForLink(t) ==
    /\ tab[t] = Idle
    /\ order.status # "cancelled" /\ order.pay = "unpaid"
    /\ ~invoice.cancelled /\ Balance > 0
    /\ tab' = [tab EXCEPT ![t] = [op |-> "link", amount |-> Balance]]
    /\ UNCHANGED <<order, invoice, held, link, refund, job, kept, crashes>>

\* A live link of the same amount is the answer.
ReuseLink(t) ==
    /\ tab[t].op = "link"
    /\ \E l \in Active : link[l].amount = tab[t].amount
    /\ tab' = [tab EXCEPT ![t] = Idle]
    /\ UNCHANGED <<order, invoice, held, link, refund, job, kept, crashes>>

\* A mistake for a run to find: the links are closed in the books alone.
CloseInBooks(l) == [link[l] EXCEPT !.row = "cancelled"]

\* A link is closed in the books, and Razorpay told.
CloseLink(l) ==
    [link[l] EXCEPT !.row = "cancelled", !.rzp = IF @ = "open" THEN "closed" ELSE @]

\* Every live link closed, but for those of which Razorpay does not hear.
Closed(lost) ==
    [l \in Links |-> CASE l \in lost   -> [link[l] EXCEPT !.row = "cancelled"]
                       [] l \in Active -> CloseLink(l)
                       [] OTHER        -> link[l]]

\* The live links of which Razorpay may not hear.
MayBeLost == IF "linkLeftOpen" \in Uses THEN Active ELSE {}

\* Otherwise a new one replaces those there are, for what was read before the lock: with
\* lateLink the order may be cancelled by now.  If Razorpay does not answer, or the
\* request dies, no row tells of the new one.
MakeLink(t) ==
    /\ tab[t].op = "link"
    /\ \A l \in Active : link[l].amount # tab[t].amount
    /\ "lateLink" \in Uses \/ (~Cancelling /\ order.status # "cancelled")
    /\ \E l \in Links, lost \in SUBSET MayBeLost :
          LET new == [NoLink EXCEPT !.row = "created", !.amount = tab[t].amount, !.rzp = "open"]
          IN  /\ link[l] = NoLink
              /\ \/ link' = [Closed(lost) EXCEPT ![l] = new] /\ UNCHANGED crashes
                 \/ /\ crashes < MaxCrashes /\ crashes' = crashes + 1
                    /\ link' = [link EXCEPT ![l] = [new EXCEPT !.row = "none"]]
    /\ tab' = [tab EXCEPT ![t] = Idle]
    /\ UNCHANGED <<order, invoice, held, refund, job, kept>>

GiveUpLink(t) ==
    /\ tab[t].op = "link"
    /\ tab' = [tab EXCEPT ![t] = Idle]
    /\ UNCHANGED <<order, invoice, held, link, refund, job, kept, crashes>>

Expire(l) ==
    /\ link[l].rzp = "open"
    /\ link' = [link EXCEPT ![l].rzp = "closed"]
    /\ UNCHANGED <<order, invoice, held, refund, tab, job, kept, crashes>>

\* The event payment_link.expired or .cancelled.
NoticeClosed(l) ==
    /\ link[l].rzp = "closed" /\ link[l].row = "created"
    /\ link' = [link EXCEPT ![l].row = "expired"]
    /\ UNCHANGED <<order, invoice, held, refund, tab, job, kept, crashes>>

Pay(l) ==
    /\ link[l].rzp = "open"
    /\ link' = [link EXCEPT ![l].rzp = "paid"]
    /\ UNCHANGED <<order, invoice, held, refund, tab, job, kept, crashes>>

\* recordPayment and markStoreOrderPaidTx, by payment_link.paid or payment.captured
\* (which leaves the link's row); on a cancelled invoice nothing is recorded.
Record(l) ==
    LET allocated == Lesser(link[l].amount, Balance)
    IN  /\ link[l].rzp = "paid" /\ ~link[l].recorded /\ ~invoice.cancelled
        /\ "payDuringCancel" \in Uses \/ ~Cancelling
        /\ "advance" \in Uses \/ link[l].amount <= Balance
        /\ \E row \in {link[l].row, IF link[l].row = "none" THEN "none" ELSE "paid"} :
              link' = [link EXCEPT ![l].recorded = TRUE, ![l].row = row]
        /\ invoice' = [invoice EXCEPT !.paid = @ + allocated]
        /\ order' = IF allocated > 0 /\ allocated = Balance /\ order.pay = "unpaid"
                    THEN [order EXCEPT !.pay = "paid"] ELSE order
        /\ UNCHANGED <<held, refund, tab, job, kept, crashes>>

\* payment.create on the order's invoice, also a cancelled one; the order's own payment
\* state stays.
PayByHand(amount) ==
    /\ amount <= Total - invoice.paid
    /\ invoice' = [invoice EXCEPT !.paid = @ + amount]
    /\ UNCHANGED <<order, held, link, refund, tab, job, kept, crashes>>

-----------------------------------------------------------------------------
(* Confirming and moving an order along: read without a lock, written by   *)
(* its id.  What is "ready" is like what is "preparing" to every handler.  *)

ReadToMove(s, to) ==
    /\ job[s] = Idle /\ ("overlap" \in Uses \/ ~Cancelling)
    /\ IF to = "confirmed" THEN order.status = "pending" ELSE order.status # "cancelled"
    /\ job' = [job EXCEPT ![s] = [op |-> "move", to |-> to]]
    /\ UNCHANGED <<order, invoice, held, link, refund, tab, kept, crashes>>

\* Confirming also makes the invoice one that is sent, whatever it was.
Move(s) ==
    /\ job[s].op = "move"
    /\ order' = [order EXCEPT !.status = job[s].to]
    /\ invoice' = IF job[s].to = "confirmed" THEN [invoice EXCEPT !.cancelled = FALSE] ELSE invoice
    /\ job' = [job EXCEPT ![s] = Idle]
    /\ UNCHANGED <<held, link, refund, tab, kept, crashes>>

-----------------------------------------------------------------------------
(* Refunds (refundStoreOrder), as a step of a cancellation or by hand.     *)

AskRefund(s, amount) ==
    /\ job[s] = Idle
    /\ "overlap" \in Uses \/ ~Cancelling
    /\ "refundCancelled" \in Uses \/ ~invoice.cancelled
    /\ job' = [job EXCEPT ![s] = [op |-> "refund", step |-> "claim", key |-> "byHand",
                                  amount |-> amount]]
    /\ UNCHANGED <<order, invoice, held, link, refund, tab, kept, crashes>>

\* What a request of the staff comes back to.
Finish(s) == job' = [job EXCEPT ![s] = Idle]
Step(s, step) == job' = [job EXCEPT ![s].step = step]

At(s, step) == job[s].op \in {"refund", "cancel"} /\ job[s].step = step

\* Another request is at the refund of key k, or was less than 60 s ago.
AtWork(k) ==
    \E s \in Staff : job[s].op \in {"refund", "cancel"}
                     /\ job[s].key = k /\ job[s].step \in {"ask", "note", "settle"}

\* What refunds leave of the payment of link l.
Left(l) ==
    Received(l) - TotalOf([k \in Keys |-> IF refund[k].of = l /\ Claims(k)
                                          THEN refund[k].amount ELSE 0])

\* A mistake for a run to find: a finished refund is taken up again.
MayCarryOnFinished(k) == refund[k].state # "none" /\ ~AtWork(k)

\* A row that is there is taken up again if it failed or nobody is at it.
MayCarryOn(k) == refund[k].state \in {"pending", "failed"} /\ ~AtWork(k)

CarryOn(s) ==
    LET k == job[s].key
    IN  /\ At(s, "claim") /\ MayCarryOn(k)
        /\ job[s].amount \in {0, refund[k].amount}
        /\ refund' = [refund EXCEPT ![k].state = "pending"]
        /\ Step(s, IF refund[k].noted THEN "settle" ELSE IF refund[k].known THEN "note" ELSE "ask")
        /\ UNCHANGED <<order, invoice, held, link, tab, kept, crashes>>

\* A finished refund answers again.
Replay(s) ==
    /\ At(s, "claim") /\ refund[job[s].key].state = "processed"
    /\ IF job[s].op = "cancel" THEN Step(s, "commit") ELSE Finish(s)
    /\ UNCHANGED <<order, invoice, held, link, refund, tab, kept, crashes>>

\* A new row, within what one payment has left; all of the most that one has left,
\* if no amount is given.
Claim(s) ==
    LET k == job[s].key
    IN  /\ At(s, "claim") /\ refund[k].state = "none"
        /\ \E l \in Links :
              /\ Left(l) > 0 /\ Left(l) >= job[s].amount
              /\ job[s].amount = 0 => \A m \in Links : Left(m) <= Left(l)
              /\ refund' = [refund EXCEPT ![k] = [NoRefund EXCEPT
                     !.state = "pending", !.of = l,
                     !.amount = IF job[s].amount = 0 THEN Left(l) ELSE job[s].amount]]
        /\ Step(s, "ask")
        /\ UNCHANGED <<order, invoice, held, link, tab, kept, crashes>>

RefuseRefund(s) ==
    LET k == job[s].key
    IN  /\ At(s, "claim")
        /\ \/ refund[k].state \in {"pending", "failed"}
              /\ (~MayCarryOn(k) \/ job[s].amount \notin {0, refund[k].amount})
           \/ refund[k].state = "none"
              /\ \A l \in Links : Left(l) <= 0 \/ Left(l) < job[s].amount
        /\ Finish(s)
        /\ UNCHANGED <<order, invoice, held, link, refund, tab, kept, crashes>>

\* Razorpay refunds once per row, no more than it captured; it may refuse, and its
\* answer may not come.
RoomAtRazorpay(k) ==
    LET l == refund[k].of
    IN  link[l].amount - TotalOf([m \in Keys |-> IF refund[m].of = l /\ refund[m].moved
                                                 THEN refund[m].amount ELSE 0])

AskRazorpay(s) ==
    LET k == job[s].key
        possible == refund[k].moved \/ RoomAtRazorpay(k) >= refund[k].amount
    IN  /\ At(s, "ask")
        /\ \/ /\ possible
              /\ refund' = [refund EXCEPT ![k].moved = TRUE, ![k].known = TRUE]
              /\ Step(s, "note")
           \/ /\ \E moved \in {refund[k].moved, possible} :
                    refund' = [refund EXCEPT ![k].moved = moved, ![k].state = "failed"]
              /\ Finish(s)
        /\ UNCHANGED <<order, invoice, held, link, tab, kept, crashes>>

\* The credit note, within what other notes leave of the invoice.
MakeNote(s) ==
    LET k == job[s].key
    IN  /\ At(s, "note")
        /\ IF refund[k].amount <= Total - invoice.credit
           THEN /\ invoice' = [invoice EXCEPT !.credit = @ + refund[k].amount]
                /\ refund' = [refund EXCEPT ![k].noted = TRUE]
                /\ Step(s, "settle")
           ELSE Finish(s) /\ UNCHANGED <<invoice, refund>>
        /\ UNCHANGED <<order, held, link, tab, kept, crashes>>

\* applyInvoicePayment, and what the order says of its money.
Settled(amount) ==
    LET all == order.refunded + amount
    IN  /\ invoice' = [invoice EXCEPT !.paid = Greater(@ - amount, 0)]
        /\ order' = [order EXCEPT !.refunded = all,
                                  !.pay = IF all >= Total THEN "refunded" ELSE "partially_refunded"]

\* restoreInvoiceStock: what the movements hold, if the invoice is not cancelled.
Restocked == IF invoice.cancelled THEN held ELSE FALSE

Settle(s) ==
    LET k == job[s].key
    IN  /\ At(s, "settle")
        /\ Settled(refund[k].amount)
        /\ held' = IF job[s].op = "cancel" THEN Restocked ELSE held
        /\ refund' = [refund EXCEPT ![k].state = "processed"]
        /\ IF job[s].op = "cancel" THEN Step(s, "commit") ELSE Finish(s)
        /\ UNCHANGED <<link, tab, kept, crashes>>

-----------------------------------------------------------------------------
(* Cancelling (cancelOrder).                                               *)

\* A mistake for a run to find: a cancellation that does not ask what happens to
\* the money.
NothingToAsk(choice) == TRUE

\* What the owner has to say of money that is left, and may say.
Answered(choice) ==
    LET remaining == IF order.pay = "unpaid" THEN 0 ELSE Refundable
    IN  remaining > 0 => /\ choice # "unsaid"
                         /\ choice = "none" => order.refunded = 0

\* The order and what is left of its money are read; the refund comes first.
ReadToCancel(s, choice) ==
    LET remaining == IF order.pay = "unpaid" THEN 0 ELSE Refundable
        refundNow == choice = "full" /\ remaining > 0
    IN  /\ job[s] = Idle
        /\ "overlap" \in Uses \/ \A other \in Staff : job[other] = Idle
        /\ "cancelDuringRefund" \in Uses \/ \A k \in Keys : refund[k].state # "pending"
        /\ order.status \notin {"delivered", "cancelled"} /\ Answered(choice)
        /\ job' = [job EXCEPT ![s] =
               [op |-> "cancel", step |-> IF refundNow THEN "claim" ELSE "commit", key |-> "cancel",
                amount |-> 0, refundNow |-> refundNow, byNote |-> refundNow \/ order.refunded > 0,
                keep |-> choice = "none" /\ remaining > 0]]
        /\ UNCHANGED <<order, invoice, held, link, refund, tab, kept, crashes>>

\* A mistake for a run to find: the invoice of a refunded order is cancelled too.
CancelsInvoiceAlways(s) == TRUE

\* A credit note reverses the sale of an order that was refunded; otherwise the
\* invoice is cancelled.
CancelsInvoice(s) == ~job[s].byNote

\* The stock that is held once the order is cancelled, with its invoice or not.
StockAfter(s) ==
    IF CancelsInvoice(s) THEN held /\ invoice.cancelled
    ELSE IF job[s].refundNow THEN held ELSE Restocked

Cancel(s) ==
    /\ At(s, "commit")
    /\ IF order.status \in {"delivered", "cancelled"}
       THEN Finish(s) /\ UNCHANGED <<order, invoice, held, kept>>
       ELSE /\ order' = [order EXCEPT !.status = "cancelled"]
            /\ held' = StockAfter(s)
            /\ invoice' = [invoice EXCEPT !.cancelled = @ \/ CancelsInvoice(s)]
            /\ kept' = job[s].keep
            /\ Step(s, "closeLinks")
    /\ UNCHANGED <<link, refund, tab, crashes>>

CloseLinks(s) ==
    /\ At(s, "closeLinks")
    /\ \E lost \in SUBSET MayBeLost : link' = Closed(lost)
    /\ Finish(s)
    /\ UNCHANGED <<order, invoice, held, refund, tab, kept, crashes>>

\* A request dies between two steps.
Crash(s) ==
    /\ crashes < MaxCrashes /\ job[s] # Idle
    /\ "linkLeftOpen" \in Uses \/ ~At(s, "closeLinks")
    /\ crashes' = crashes + 1 /\ Finish(s)
    /\ UNCHANGED <<order, invoice, held, link, refund, tab, kept>>

-----------------------------------------------------------------------------
Init ==
    /\ order = [status |-> "pending", pay |-> "unpaid", refunded |-> 0]
    /\ invoice = [cancelled |-> FALSE, paid |-> 0, credit |-> 0]
    /\ held = TRUE
    /\ link = [l \in Links |-> NoLink]
    /\ refund = [k \in Keys |-> NoRefund]
    /\ tab = [t \in Tabs |-> Idle]
    /\ job = [s \in Staff |-> Idle]
    /\ kept = FALSE
    /\ crashes = 0

Shopper == \E t \in Tabs : AskForLink(t) \/ ReuseLink(t) \/ MakeLink(t) \/ GiveUpLink(t)

Razorpay == \E l \in Links : Expire(l) \/ NoticeClosed(l) \/ Pay(l) \/ Record(l)

Refunding(s) ==
    \/ \E amount \in 1 .. Total : AskRefund(s, amount)
    \/ CarryOn(s) \/ Replay(s) \/ Claim(s) \/ RefuseRefund(s)
    \/ AskRazorpay(s) \/ MakeNote(s) \/ Settle(s)

Request(s) ==
    \/ \E to \in {"confirmed", "preparing", "delivered"} : ReadToMove(s, to)
    \/ Move(s)
    \/ Refunding(s)
    \/ \E choice \in {"unsaid", "full", "none"} : ReadToCancel(s, choice)
    \/ Cancel(s) \/ CloseLinks(s) \/ Crash(s)

Next ==
    \/ Shopper \/ Razorpay
    \/ \E s \in Staff : Request(s)
    \/ \E amount \in Cash : PayByHand(amount)

Spec == Init /\ [][Next]_vars

-----------------------------------------------------------------------------
(* Correctness.                                                            *)

TypeOK ==
    /\ order \in [status: {"pending", "confirmed", "preparing", "delivered", "cancelled"},
                  pay: {"unpaid", "paid", "partially_refunded", "refunded"}, refunded: 0 .. Total]
    /\ invoice \in [cancelled: BOOLEAN, paid: 0 .. Total, credit: 0 .. Total]
    /\ held \in BOOLEAN /\ kept \in BOOLEAN /\ crashes \in 0 .. MaxCrashes
    /\ link \in [Links -> [row: {"none", "created", "paid", "cancelled", "expired"},
                           amount: 0 .. Total, rzp: {"none", "open", "paid", "closed"},
                           recorded: BOOLEAN]]
    /\ refund \in [Keys -> [state: {"none", "pending", "processed", "failed"},
                            of: Links \cup {"none"}, amount: 0 .. Total,
                            moved: BOOLEAN, known: BOOLEAN, noted: BOOLEAN]]

\* However often it was refunded in part, and its cancellation failed and was sent
\* again, a cancelled order has its sale undone once, as cancelOrder has it: its
\* invoice is cancelled or its refunds are credited, never both, and its stock is
\* back; an order that is not cancelled holds its stock, unless its cancellation has
\* refunded it.
SaleUndoneOnce ==
    /\ order.status = "cancelled" => ~held /\ (invoice.cancelled <=> invoice.credit = 0)
    /\ order.status # "cancelled" /\ ~held => refund["cancel"].state = "processed"

\* The shopper's money of a cancelled order went back, unless its owner chose to
\* keep it: cancelOrder asks of any "money the shopper paid online and that has not
\* been refunded yet".
MoneyAnswered ==
    order.status = "cancelled" =>
        \/ kept
        \/ \A l \in Links :
              Received(l) = TotalOf([k \in Keys |-> IF refund[k].of = l /\ refund[k].moved
                                                    THEN refund[k].amount ELSE 0])

\* Once it has been cancelled, no link that was made for the order can be paid (cancelOrder,
\* store.ts:747), whatever it was replaced by or expired (one without a row is out of
\* reach), unless Razorpay does not hear of it, or a page gets its link late (Uses).
NotPayable ==
    order.status = "cancelled" /\ ~Cancelling =>
        \A l \in Links : link[l].row # "none" => link[l].rzp # "open"
=============================================================================
