-------------------------- MODULE StoreOrderProofs --------------------------
(***************************************************************************)
(* What is proved of an order of the online store, for any number of       *)
(* links, pages, requests and crashes and any total.                       *)
(*                                                                         *)
(* First what the rows of the refunds, the requests at work on them and    *)
(* the sums kept of them have to do with one another (BooksInv), from      *)
(* which the books are well typed.  Then that a cancelled order cannot be  *)
(* paid any more, that its sale is undone once, and that the shopper's     *)
(* money is answered for, each with the invariant it needs besides.        *)
(***************************************************************************)
EXTENDS StoreOrder, UnitsProofs, TLAPS

-----------------------------------------------------------------------------
(* The requests and the pages.                                             *)

Working == {"ask", "note", "settle"}

MoveJob == [op: {"move"}, to: {"confirmed", "preparing", "delivered"}]

RefundJob == [op: {"refund"}, step: {"claim", "ask", "note", "settle"}, key: {"byHand"},
              amount: 1 .. Total]

CancelJob == [op: {"cancel"}, step: {"claim", "ask", "note", "settle", "commit", "closeLinks"},
              key: {"cancel"}, amount: {0},
              refundNow: BOOLEAN, byNote: BOOLEAN, keep: BOOLEAN]

JobsOK == job \in [Staff -> {Idle} \cup MoveJob \cup RefundJob \cup CancelJob]

TabsOK == tab \in [Tabs -> {Idle} \cup [op: {"link"}, amount: 1 .. Total]]

-----------------------------------------------------------------------------
(* The rows of the refunds, who is at work on them, and their sums.        *)

\* A refund goes from claimed to moved, known, noted and processed; one that failed
\* was not known to have moved.
RowInOrder(r) ==
    /\ IF r.state = "none" THEN r = NoRefund ELSE r.of \in Links /\ r.amount \in 1 .. Total
    /\ r.known => r.moved
    /\ r.noted => r.known
    /\ r.state = "processed" => r.noted
    /\ r.state = "failed" => ~r.known

RowsInOrder == \A k \in Keys : RowInOrder(refund[k])

\* Request s is at work on the refund of key k.
WorksOn(s, k) == job[s].op \in {"refund", "cancel"} /\ job[s].key = k /\ job[s].step \in Working

\* The row of a refund that is at a step.
Fits(r, step) ==
    /\ r.state = "pending"
    /\ step = "ask" => ~r.known
    /\ step = "note" => r.known /\ ~r.noted
    /\ step = "settle" => r.noted

WorkInOrder == \A k \in Keys, s \in Staff : WorksOn(s, k) => Fits(refund[k], job[s].step)

OneWorker == \A k \in Keys, s, other \in Staff : WorksOn(s, k) /\ WorksOn(other, k) => s = other

NotedOf(r) == IF r.noted THEN r.amount ELSE 0

ProcessedOf(r) == IF r.state = "processed" THEN r.amount ELSE 0

\* The invoice is credited what was noted, and the order counts what was processed.
SumsInOrder ==
    /\ invoice.credit = NotedOf(refund["cancel"]) + NotedOf(refund["byHand"])
    /\ order.refunded = ProcessedOf(refund["cancel"]) + ProcessedOf(refund["byHand"])

BooksInv ==
    /\ TypeOK /\ JobsOK /\ TabsOK
    /\ RowsInOrder /\ WorkInOrder /\ OneWorker /\ SumsInOrder

-----------------------------------------------------------------------------
(* The links of a cancelled order.                                         *)

\* A request has still to close the links.
Closing == \E s \in Staff : At(s, "closeLinks")

\* What is not live in the books is not open at Razorpay either, and of a cancelled
\* order nothing is live.
LinksClosed ==
    /\ \A l \in Links : link[l].row \in {"cancelled", "expired", "paid"} => link[l].rzp # "open"
    /\ order.status = "cancelled" /\ ~Closing =>
          \A l \in Links : link[l].row = "created" => link[l].rzp # "open"

LinksInv == BooksInv /\ LinksClosed

-----------------------------------------------------------------------------
(* A cancellation that runs alone.                                         *)

\* Nobody else is at the order during a cancellation, and whoever is at it, but to
\* close the links, finds it not cancelled.
Alone ==
    /\ \A s, other \in Staff : job[s].op = "cancel" => other = s \/ job[other] = Idle
    /\ \A s \in Staff :
          job[s].op = "move" \/ (job[s].op = "cancel" /\ job[s].step # "closeLinks")
             => order.status # "cancelled"
    /\ invoice.cancelled => order.status = "cancelled"

\* What a cancellation knows of the refunds until it commits.
KnowsRefunds(s) ==
    /\ job[s].refundNow => job[s].byNote
    /\ ~job[s].refundNow => job[s].step \notin {"claim"} \cup Working
    /\ job[s].step = "commit" =>
          /\ job[s].refundNow => refund["cancel"].state = "processed"
          /\ job[s].byNote /\ ~job[s].refundNow => order.refunded > 0
          /\ ~job[s].byNote => invoice.credit = 0

Reversed ==
    /\ \A s \in Staff : job[s].op = "cancel" => KnowsRefunds(s)
    /\ \A s \in Staff : job[s].op = "refund" => ~invoice.cancelled
    /\ refund["cancel"].state = "processed" => ~held

SaleInv == BooksInv /\ Alone /\ Reversed /\ SaleUndoneOnce

-----------------------------------------------------------------------------
(* The shopper's money.                                                    *)

MovedOf(r, l) == IF r.of = l /\ r.moved THEN r.amount ELSE 0

\* What Razorpay has sent back of link l.
Moved(l) == MovedOf(refund["cancel"], l) + MovedOf(refund["byHand"], l)

\* What is noted and not yet processed.
Unsettled(r) == NotedOf(r) - ProcessedOf(r)

\* As long as an order is unpaid nothing was received, and each link asks at least
\* for what is due; a link that was paid covers the invoice.
PaidAtOnce ==
    /\ \A l \in Links : link[l].rzp # "none" =>
          link[l].amount > 0 /\ (order.pay = "unpaid" => link[l].amount >= Balance)
    /\ \A t \in Tabs : tab[t].op = "link" /\ order.pay = "unpaid" => tab[t].amount >= Balance
    /\ order.pay = "unpaid" => \A l \in Links : ~link[l].recorded
    /\ order.pay # "unpaid" =>
          invoice.paid + invoice.credit
             >= Total + Unsettled(refund["cancel"]) + Unsettled(refund["byHand"])
    /\ \A l, m \in Links : link[l].recorded /\ link[m].recorded => l = m

\* A refund is of what was received; Razorpay sends no more back than it has; the
\* refund of a cancellation takes all that is left.
SentBack ==
    /\ \A k \in Keys : refund[k].state # "none" => link[refund[k].of].recorded
    /\ \A l \in Links : Moved(l) <= link[l].amount
    /\ refund["cancel"].state # "none" =>
          \A l \in Links : Received(l) <= refund["cancel"].amount + ProcessedOf(refund["byHand"])

AllSentBack == \A l \in Links : Received(l) = Moved(l)

\* What a cancellation knows of the money until it commits.
KnowsMoney(s) ==
    /\ order.pay = "unpaid" => ~job[s].byNote
    /\ job[s].step \in {"claim"} \cup Working => refund["byHand"].state # "pending"
    /\ job[s].step = "commit" => job[s].keep \/ AllSentBack

Answerable ==
    /\ \A s \in Staff : job[s].op = "cancel" => KnowsMoney(s)
    /\ order.status = "cancelled" /\ order.pay = "unpaid" => invoice.cancelled

CancelledIsAnswered == order.status = "cancelled" => kept \/ AllSentBack

MoneyInv == BooksInv /\ Alone /\ PaidAtOnce /\ SentBack /\ Answerable /\ CancelledIsAnswered

-----------------------------------------------------------------------------
(* What follows from the assumptions, and sums over the two keys.          *)

RowType == [state: {"none", "pending", "processed", "failed"},
            of: Links \cup {"none"}, amount: 0 .. Total,
            moved: BOOLEAN, known: BOOLEAN, noted: BOOLEAN]

LinkType == [row: {"none", "created", "paid", "cancelled", "expired"},
             amount: 0 .. Total, rzp: {"none", "open", "paid", "closed"},
             recorded: BOOLEAN]

OrderType == [status: {"pending", "confirmed", "preparing", "delivered", "cancelled"},
              pay: {"unpaid", "paid", "partially_refunded", "refunded"}, refunded: 0 .. Total]

InvoiceType == [cancelled: BOOLEAN, paid: 0 .. Total, credit: 0 .. Total]

\* The state is of the types of TypeOK.
Typed ==
    /\ order \in OrderType /\ invoice \in InvoiceType
    /\ held \in BOOLEAN /\ kept \in BOOLEAN /\ crashes \in 0 .. MaxCrashes
    /\ link \in [Links -> LinkType] /\ refund \in [Keys -> RowType]

LEMMA TypeIs == TypeOK <=> Typed
BY DEF TypeOK, Typed, OrderType, InvoiceType, LinkType, RowType

LEMMA KeysAre == IsFiniteSet(Keys) /\ "cancel" \in Keys /\ "byHand" \in Keys
<1>1. IsFiniteSet({"cancel"}) /\ IsFiniteSet({"byHand"})
  BY FS_Singleton
<1>2. IsFiniteSet({"cancel"} \cup {"byHand"})
  BY <1>1, FS_Union
<1>3. Keys = {"cancel"} \cup {"byHand"}
  BY DEF Keys
<1> QED
  BY <1>2, <1>3

\* A sum over the keys has two terms.
LEMMA TotalOfKeys ==
    ASSUME NEW f \in [Keys -> Nat]
    PROVE  TotalOf(f) = f["cancel"] + f["byHand"]
<1> DEFINE S == {"cancel"}
           T == {"byHand"}
           g == [k \in S |-> f[k]]
           h == [k \in T |-> f[k]]
<1>1. IsFiniteSet(S) /\ IsFiniteSet(T) /\ S \cap T = {}
  BY FS_Singleton
<1>2. f \in [S \cup T -> Nat]
  BY DEF Keys
<1>3. TotalOf(f) = TotalOf(g) + TotalOf(h)
  BY <1>1, <1>2, TotalDisjoint
<1>4. g \in [{"cancel"} -> Nat] /\ h \in [{"byHand"} -> Nat]
  BY <1>2
<1>5. TotalOf(g) = g["cancel"] /\ TotalOf(h) = h["byHand"]
  BY <1>4, TotalOfOne
<1> QED
  BY <1>3, <1>5

-----------------------------------------------------------------------------
(* What a request does to its job.                                         *)

LEMMA WorkerIs ==
    ASSUME JobsOK, NEW s \in Staff, job[s].op \in {"refund", "cancel"}
    PROVE  /\ job[s] \in RefundJob \cup CancelJob
           /\ job[s].key \in Keys
           /\ job[s].op = "cancel" => job[s] \in CancelJob /\ job[s].key = "cancel"
           /\ job[s].op = "refund" => job[s] \in RefundJob /\ job[s].key = "byHand"
<1>1. job[s] \in {Idle} \cup MoveJob \cup RefundJob \cup CancelJob
  BY DEF JobsOK
<1> QED
  BY <1>1 DEF Idle, MoveJob, RefundJob, CancelJob, Keys

\* A request takes its next step, and is the same in all else.
LEMMA StepTaken ==
    ASSUME JobsOK, NEW s \in Staff, job[s].op \in {"refund", "cancel"},
           NEW step \in {"claim", "ask", "note", "settle", "commit", "closeLinks"},
           job[s].op = "refund" => step \in {"claim", "ask", "note", "settle"},
           Step(s, step)
    PROVE  /\ JobsOK'
           /\ job'[s].op = job[s].op /\ job'[s].key = job[s].key /\ job'[s].step = step
           /\ job'[s].amount = job[s].amount
           /\ job[s].op = "cancel" =>
                 /\ job'[s].refundNow = job[s].refundNow /\ job'[s].byNote = job[s].byNote
                 /\ job'[s].keep = job[s].keep
           /\ \A other \in Staff \ {s} : job'[other] = job[other]
<1> DEFINE old == job[s]
           new == [old EXCEPT !.step = step]
<1>1. job' = [job EXCEPT ![s] = new]
  BY DEF Step
<1>2. job'[s] = new /\ \A other \in Staff \ {s} : job'[other] = job[other]
  BY <1>1 DEF JobsOK
<1>3. old \in RefundJob \cup CancelJob
  BY WorkerIs
<1>4. old.op = "cancel" => old \in CancelJob
  BY WorkerIs
<1>5. old.op = "refund" => old \in RefundJob
  BY WorkerIs
<1> HIDE DEF old
<1>6. old.op = "cancel" =>
         /\ new \in CancelJob /\ new.op = old.op /\ new.key = old.key /\ new.step = step
         /\ new.amount = old.amount /\ new.refundNow = old.refundNow
         /\ new.byNote = old.byNote /\ new.keep = old.keep
  BY <1>4 DEF CancelJob
<1>7. old.op = "refund" =>
         /\ new \in RefundJob /\ new.op = old.op /\ new.key = old.key /\ new.step = step
         /\ new.amount = old.amount
  <2> HAVE old.op = "refund"
  <2>1. step \in {"claim", "ask", "note", "settle"}
    BY DEF old
  <2> QED
    BY <1>5, <2>1 DEF RefundJob
<1>8. old.op \in {"refund", "cancel"}
  BY DEF old
<1> HIDE DEF new
<1>9. JobsOK'
  BY <1>1, <1>6, <1>7, <1>8 DEF JobsOK
<1>10. job'[s].op = old.op /\ job'[s].key = old.key /\ job'[s].step = step
       /\ job'[s].amount = old.amount
  BY <1>2, <1>6, <1>7, <1>8
<1>11. old.op = "cancel" => /\ job'[s].refundNow = old.refundNow /\ job'[s].byNote = old.byNote
                            /\ job'[s].keep = old.keep
  BY <1>2, <1>6
<1> QED
  BY <1>2, <1>9, <1>10, <1>11 DEF old

LEMMA Finished ==
    ASSUME JobsOK, NEW s \in Staff, Finish(s)
    PROVE  /\ JobsOK' /\ job'[s] = Idle
           /\ \A other \in Staff \ {s} : job'[other] = job[other]
BY DEF JobsOK, Finish

-----------------------------------------------------------------------------
(* The books are in order.                                                 *)

\* As long as no refund changes, and nobody newly works on one, the work is in order.
LEMMA NoNewWork ==
    ASSUME BooksInv, refund' = refund,
           \A s \in Staff : \/ job'[s] = job[s]
                            \/ job'[s].op \notin {"refund", "cancel"}
                            \/ job'[s].step \notin Working
    PROVE  RowsInOrder' /\ WorkInOrder' /\ OneWorker'
<1>1. \A s \in Staff, k \in Keys :
         WorksOn(s, k)' => WorksOn(s, k) /\ job'[s] = job[s]
  BY DEF WorksOn
<1>2. RowsInOrder'
  BY DEF BooksInv, RowsInOrder, RowInOrder
<1>3. WorkInOrder'
  BY <1>1 DEF BooksInv, WorkInOrder, Fits
<1>4. OneWorker'
  BY <1>1 DEF BooksInv, OneWorker
<1> QED
  BY <1>2, <1>3, <1>4

\* A request changes the row of its key, on which nobody else works.
LEMMA RowWork ==
    ASSUME BooksInv, NEW s \in Staff, NEW k \in Keys, NEW row \in RowType,
           refund' = [refund EXCEPT ![k] = row],
           RowInOrder(row),
           \A other \in Staff \ {s} : job'[other] = job[other] /\ ~WorksOn(other, k),
           \A c \in Keys : WorksOn(s, c)' => c = k /\ Fits(row, job'[s].step)
    PROVE  /\ refund' \in [Keys -> RowType]
           /\ RowsInOrder' /\ WorkInOrder' /\ OneWorker'
           /\ refund'[k] = row
           /\ \A c \in Keys \ {k} : refund'[c] = refund[c]
<1>1. refund \in [Keys -> RowType]
  BY TypeIs DEF BooksInv, Typed
<1>2. refund' \in [Keys -> RowType] /\ refund'[k] = row
      /\ \A c \in Keys \ {k} : refund'[c] = refund[c]
  BY <1>1
<1>3. RowsInOrder'
  <2> SUFFICES ASSUME NEW c \in Keys PROVE RowInOrder(refund[c])'
    BY DEF RowsInOrder
  <2>1. CASE c = k
    BY <2>1, <1>2 DEF RowInOrder
  <2>2. CASE c # k
    BY <2>2, <1>2 DEF BooksInv, RowsInOrder, RowInOrder
  <2> QED
    BY <2>1, <2>2
<1>4. \A other \in Staff \ {s}, c \in Keys : WorksOn(other, c)' => WorksOn(other, c) /\ c # k
  BY DEF WorksOn
<1>5. WorkInOrder'
  <2> SUFFICES ASSUME NEW c \in Keys, NEW o \in Staff, WorksOn(o, c)'
               PROVE  Fits(refund[c], job[o].step)'
    BY DEF WorkInOrder
  <2>1. CASE o = s
    BY <2>1, <1>2 DEF Fits
  <2>2. CASE o # s
    <3>1. WorksOn(o, c) /\ c # k /\ job'[o] = job[o] /\ refund'[c] = refund[c]
      BY <2>2, <1>2, <1>4
    <3> QED
      BY <3>1 DEF BooksInv, WorkInOrder, Fits
  <2> QED
    BY <2>1, <2>2
<1>6. OneWorker'
  BY <1>4 DEF BooksInv, OneWorker
<1> QED
  BY <1>2, <1>3, <1>5, <1>6

\* A row changes neither what was noted nor what was processed of its refund.
LEMMA SameSums ==
    ASSUME BooksInv, NEW k \in Keys,
           invoice'.credit = invoice.credit, order'.refunded = order.refunded,
           \A c \in Keys \ {k} : refund'[c] = refund[c],
           NotedOf(refund'[k]) = NotedOf(refund[k]),
           ProcessedOf(refund'[k]) = ProcessedOf(refund[k])
    PROVE  SumsInOrder'
<1>1. k = "cancel" \/ k = "byHand"
  BY DEF Keys
<1>2. SumsInOrder
  BY DEF BooksInv
<1>3. \A c \in Keys : NotedOf(refund'[c]) = NotedOf(refund[c])
                      /\ ProcessedOf(refund'[c]) = ProcessedOf(refund[c])
  OBVIOUS
<1>4. NotedOf(refund["cancel"])' = NotedOf(refund["cancel"])
      /\ NotedOf(refund["byHand"])' = NotedOf(refund["byHand"])
      /\ ProcessedOf(refund["cancel"])' = ProcessedOf(refund["cancel"])
      /\ ProcessedOf(refund["byHand"])' = ProcessedOf(refund["byHand"])
  BY <1>3, KeysAre DEF NotedOf, ProcessedOf
<1> QED
  BY <1>2, <1>4 DEF SumsInOrder

LEMMA BalanceIs == TypeOK => Balance \in 0 .. Total
<1> SUFFICES ASSUME TypeOK PROVE Balance \in 0 .. Total
  OBVIOUS
<1>1. Total \in Nat /\ invoice.paid \in 0 .. Total /\ invoice.credit \in 0 .. Total
  BY OrderAssumption, TypeIs DEF Typed, InvoiceType
<1> QED
  BY <1>1 DEF Balance, Greater

LEMMA CloseLinkType ==
    ASSUME TypeOK, NEW l \in Links
    PROVE  /\ link[l] \in LinkType
           /\ CloseLink(l) \in LinkType
           /\ [link[l] EXCEPT !.row = "cancelled"] \in LinkType
<1> DEFINE old == link[l]
<1>1. old \in LinkType
  BY TypeIs DEF Typed
<1> HIDE DEF old
<1>2. [old EXCEPT !.row = "cancelled"] \in LinkType
  BY <1>1 DEF LinkType
<1>3. [old EXCEPT !.row = "cancelled", !.rzp = IF @ = "open" THEN "closed" ELSE @] \in LinkType
  BY <1>1 DEF LinkType
<1> QED
  BY <1>1, <1>2, <1>3 DEF CloseLink, old

LEMMA ClosedType ==
    ASSUME TypeOK, NEW lost
    PROVE  Closed(lost) \in [Links -> LinkType]
BY CloseLinkType DEF Closed

\* A new link, with its row and without.
LEMMA NewLinkIs ==
    ASSUME NEW a \in 0 .. Total
    PROVE  LET new == [NoLink EXCEPT !.row = "created", !.amount = a, !.rzp = "open"]
           IN  /\ new \in LinkType /\ [new EXCEPT !.row = "none"] \in LinkType
               /\ new.row = "created" /\ new.amount = a /\ new.rzp = "open" /\ ~new.recorded
               /\ [new EXCEPT !.row = "none"].row = "none"
               /\ [new EXCEPT !.row = "none"].amount = a
               /\ [new EXCEPT !.row = "none"].rzp = "open"
               /\ ~[new EXCEPT !.row = "none"].recorded
<1>1. NoLink \in LinkType /\ NoLink.recorded = FALSE
  BY OrderAssumption DEF NoLink, LinkType
<1> DEFINE new == [NoLink EXCEPT !.row = "created", !.amount = a, !.rzp = "open"]
<1>2. /\ new \in LinkType
      /\ new.row = "created" /\ new.amount = a /\ new.rzp = "open" /\ new.recorded = FALSE
  BY <1>1 DEF LinkType
<1> HIDE DEF new
<1>3. /\ [new EXCEPT !.row = "none"] \in LinkType
      /\ [new EXCEPT !.row = "none"].row = "none"
      /\ [new EXCEPT !.row = "none"].amount = a
      /\ [new EXCEPT !.row = "none"].rzp = "open"
      /\ [new EXCEPT !.row = "none"].recorded = FALSE
  BY <1>2 DEF LinkType
<1> QED
  BY <1>2, <1>3 DEF new

\* The pages of the shopper.
LEMMA ShopperBooks == ASSUME BooksInv, Shopper PROVE BooksInv'
<1> USE DEF BooksInv
<1>1. PICK t \in Tabs : AskForLink(t) \/ ReuseLink(t) \/ MakeLink(t) \/ GiveUpLink(t)
  BY DEF Shopper
<1>2. UNCHANGED <<order, invoice, held, refund, job, kept>>
  BY <1>1 DEF AskForLink, ReuseLink, MakeLink, GiveUpLink
<1>3. RowsInOrder' /\ WorkInOrder' /\ OneWorker'
  BY <1>2, NoNewWork
<1>4. SumsInOrder' /\ JobsOK'
  BY <1>2 DEF SumsInOrder, JobsOK, NotedOf, ProcessedOf
<1>5. CASE AskForLink(t)
  <2>1. Balance \in 1 .. Total
    BY <1>5, BalanceIs DEF AskForLink
  <2>2. [op |-> "link", amount |-> Balance] \in [op: {"link"}, amount: 1 .. Total]
    BY <2>1
  <2>3. TabsOK'
    BY <1>5, <2>2 DEF AskForLink, TabsOK
  <2>4. TypeOK'
    BY <1>5 DEF AskForLink, TypeOK
  <2> QED
    BY <1>3, <1>4, <2>3, <2>4
<1>6. CASE ReuseLink(t) \/ GiveUpLink(t)
  <2>1. TabsOK'
    BY <1>6 DEF ReuseLink, GiveUpLink, TabsOK
  <2>2. TypeOK'
    BY <1>6 DEF ReuseLink, GiveUpLink, TypeOK
  <2> QED
    BY <1>3, <1>4, <2>1, <2>2
<1>7. CASE MakeLink(t)
  <2>1. TabsOK'
    BY <1>7 DEF MakeLink, TabsOK
  <2>2. PICK l \in Links, lost \in SUBSET MayBeLost :
           LET new == [NoLink EXCEPT !.row = "created", !.amount = tab[t].amount, !.rzp = "open"]
           IN  /\ link[l] = NoLink
               /\ \/ link' = [Closed(lost) EXCEPT ![l] = new] /\ UNCHANGED crashes
                  \/ /\ crashes < MaxCrashes /\ crashes' = crashes + 1
                     /\ link' = [link EXCEPT ![l] = [new EXCEPT !.row = "none"]]
    BY <1>7 DEF MakeLink
  <2> DEFINE new == [NoLink EXCEPT !.row = "created", !.amount = tab[t].amount, !.rzp = "open"]
  <2>3. tab[t] \in [op: {"link"}, amount: 1 .. Total]
    BY <1>7 DEF MakeLink, TabsOK, Idle
  <2>4. Total \in Nat /\ MaxCrashes \in Nat /\ crashes \in 0 .. MaxCrashes
        /\ link \in [Links -> LinkType] /\ Closed(lost) \in [Links -> LinkType]
    BY OrderAssumption, TypeIs, ClosedType DEF Typed
  <2>5. new \in LinkType /\ [new EXCEPT !.row = "none"] \in LinkType
    <3>1. tab[t].amount \in 0 .. Total
      BY <2>3, <2>4
    <3> QED
      BY <3>1, NewLinkIs
  <2> HIDE DEF new
  <2>6. \/ link' = [Closed(lost) EXCEPT ![l] = new] /\ UNCHANGED crashes
        \/ /\ crashes < MaxCrashes /\ crashes' = crashes + 1
           /\ link' = [link EXCEPT ![l] = [new EXCEPT !.row = "none"]]
    BY <2>2 DEF new
  <2>7. link' \in [Links -> LinkType] /\ crashes' \in 0 .. MaxCrashes
    BY <2>4, <2>5, <2>6
  <2>8. TypeOK'
    BY <1>2, <2>7, TypeIs DEF TypeOK, Typed, LinkType
  <2> QED
    BY <1>3, <1>4, <2>1, <2>8
<1> QED
  BY <1>1, <1>5, <1>6, <1>7

\* What Razorpay does, and what is recorded of it.
LEMMA RazorpayBooks == ASSUME BooksInv, Razorpay PROVE BooksInv'
<1> USE DEF BooksInv
<1>1. PICK l \in Links : Expire(l) \/ NoticeClosed(l) \/ Pay(l) \/ Record(l)
  BY DEF Razorpay
<1>2. UNCHANGED <<held, refund, tab, job, kept, crashes>>
  BY <1>1 DEF Expire, NoticeClosed, Pay, Record
<1>3. RowsInOrder' /\ WorkInOrder' /\ OneWorker'
  BY <1>2, NoNewWork
<1>4. JobsOK' /\ TabsOK'
  BY <1>2 DEF JobsOK, TabsOK
<1> DEFINE old == link[l]
<1>5. old \in LinkType /\ link \in [Links -> LinkType]
      /\ order \in OrderType /\ invoice \in InvoiceType
  BY TypeIs DEF Typed
<1>6. CASE Expire(l) \/ NoticeClosed(l) \/ Pay(l)
  <2>1. \/ link' = [link EXCEPT ![l] = [old EXCEPT !.rzp = "closed"]]
        \/ link' = [link EXCEPT ![l] = [old EXCEPT !.row = "expired"]]
        \/ link' = [link EXCEPT ![l] = [old EXCEPT !.rzp = "paid"]]
    BY <1>5, <1>6 DEF Expire, NoticeClosed, Pay
  <2> HIDE DEF old
  <2>2. /\ [old EXCEPT !.rzp = "closed"] \in LinkType
        /\ [old EXCEPT !.row = "expired"] \in LinkType
        /\ [old EXCEPT !.rzp = "paid"] \in LinkType
    BY <1>5 DEF LinkType
  <2>3. link' \in [Links -> LinkType]
    BY <1>5, <2>1, <2>2
  <2>4. UNCHANGED <<order, invoice>>
    BY <1>6 DEF Expire, NoticeClosed, Pay
  <2>5. TypeOK' /\ SumsInOrder'
    BY <1>2, <2>3, <2>4, TypeIs DEF TypeOK, Typed, LinkType, SumsInOrder, NotedOf, ProcessedOf
  <2> QED
    BY <1>3, <1>4, <2>5
<1>7. CASE Record(l)
  <2> DEFINE allocated == Lesser(link[l].amount, Balance)
  <2>1. PICK row \in {link[l].row, IF link[l].row = "none" THEN "none" ELSE "paid"} :
           link' = [link EXCEPT ![l].recorded = TRUE, ![l].row = row]
    BY <1>7 DEF Record
  <2>2. link' = [link EXCEPT ![l] = [old EXCEPT !.recorded = TRUE, !.row = row]]
    BY <1>5, <2>1
  <2>3. row \in {"none", "created", "paid", "cancelled", "expired"}
    BY <1>5 DEF LinkType
  <2> HIDE DEF old
  <2>4. [old EXCEPT !.recorded = TRUE, !.row = row] \in LinkType
    BY <1>5, <2>3 DEF LinkType
  <2>5. link' \in [Links -> LinkType]
    BY <1>5, <2>2, <2>4
  <2>6. Total \in Nat /\ Balance \in 0 .. Total /\ link[l].amount \in 0 .. Total
        /\ invoice.paid \in 0 .. Total /\ invoice.credit \in 0 .. Total
    BY OrderAssumption, BalanceIs, <1>5 DEF LinkType, InvoiceType
  <2>7. allocated \in 0 .. Balance
    BY <2>6 DEF Lesser
  <2>8. invoice.paid + allocated \in 0 .. Total
    BY <2>6, <2>7 DEF Balance, Greater
  <2>9. invoice' = [invoice EXCEPT !.paid = invoice.paid + allocated]
    BY <1>7 DEF Record
  <2>10. order' = [order EXCEPT !.pay = "paid"] \/ order' = order
    BY <1>7 DEF Record
  <2> HIDE DEF allocated
  <2>11. invoice' \in InvoiceType /\ invoice'.credit = invoice.credit
    BY <1>5, <2>8, <2>9 DEF InvoiceType
  <2>12. order' \in OrderType /\ order'.refunded = order.refunded
    BY <1>5, <2>10 DEF OrderType
  <2>13. SumsInOrder'
    BY <1>2, <2>11, <2>12 DEF SumsInOrder, NotedOf, ProcessedOf
  <2>14. TypeOK'
    BY <1>2, <2>5, <2>11, <2>12, TypeIs DEF TypeOK, Typed, LinkType, OrderType, InvoiceType
  <2> QED
    BY <1>3, <1>4, <2>13, <2>14
<1> QED
  BY <1>1, <1>6, <1>7

LEMMA ByHandBooks ==
    ASSUME BooksInv, NEW amount \in Cash, PayByHand(amount)
    PROVE  BooksInv'
<1> USE DEF BooksInv
<1>1. UNCHANGED <<order, held, link, refund, tab, job, kept, crashes>>
      /\ invoice' = [invoice EXCEPT !.paid = invoice.paid + amount]
      /\ amount <= Total - invoice.paid
  BY DEF PayByHand
<1>2. invoice \in InvoiceType /\ amount \in 1 .. Total /\ Total \in Nat
  BY TypeIs, OrderAssumption DEF Typed
<1>3. invoice.paid + amount \in 0 .. Total
  BY <1>1, <1>2 DEF InvoiceType
<1>4. invoice' \in InvoiceType /\ invoice'.credit = invoice.credit
  BY <1>1, <1>2, <1>3 DEF InvoiceType
<1>5. RowsInOrder' /\ WorkInOrder' /\ OneWorker'
  BY <1>1, NoNewWork
<1>6. TypeOK' /\ JobsOK' /\ TabsOK' /\ SumsInOrder'
  BY <1>1, <1>4 DEF TypeOK, JobsOK, TabsOK, SumsInOrder, InvoiceType, NotedOf, ProcessedOf
<1> QED
  BY <1>5, <1>6

\* What a request does that touches no refund: moving the order, reading what there is
\* to refund or to cancel, being refused or answered again, cancelling, dying.
LEMMA RequestBooks ==
    ASSUME BooksInv, NEW s \in Staff,
           \/ \E to \in {"confirmed", "preparing", "delivered"} : ReadToMove(s, to)
           \/ Move(s)
           \/ \E amount \in 1 .. Total : AskRefund(s, amount)
           \/ Replay(s) \/ RefuseRefund(s)
           \/ \E choice \in {"unsaid", "full", "none"} : ReadToCancel(s, choice)
           \/ Cancel(s) \/ CloseLinks(s) \/ Crash(s)
    PROVE  BooksInv'
<1> USE DEF BooksInv
<1>1. UNCHANGED <<refund, tab>>
  BY DEF ReadToMove, Move, AskRefund, Replay, RefuseRefund, ReadToCancel, Cancel, CloseLinks, Crash
<1>2. TabsOK'
  BY <1>1 DEF TabsOK
<1>3. JobsOK /\ Typed
  BY TypeIs
<1>4. ASSUME JobsOK', TypeOK', invoice'.credit = invoice.credit, order'.refunded = order.refunded,
             \A other \in Staff \ {s} : job'[other] = job[other],
             job'[s].op \notin {"refund", "cancel"} \/ job'[s].step \notin Working
      PROVE  BooksInv'
  <2>1. RowsInOrder' /\ WorkInOrder' /\ OneWorker'
    BY <1>1, <1>4, NoNewWork
  <2>2. SumsInOrder'
    BY <1>1, <1>4 DEF SumsInOrder, NotedOf, ProcessedOf
  <2> QED
    BY <1>2, <1>4, <2>1, <2>2
<1>5. ASSUME UNCHANGED <<order, invoice, held, link, kept, crashes>>
      PROVE  TypeOK' /\ invoice'.credit = invoice.credit /\ order'.refunded = order.refunded
  BY <1>1, <1>5 DEF TypeOK
<1>6. CASE \E to \in {"confirmed", "preparing", "delivered"} : ReadToMove(s, to)
  <2>1. PICK to \in {"confirmed", "preparing", "delivered"} : ReadToMove(s, to)
    BY <1>6
  <2> DEFINE new == [op |-> "move", to |-> to]
  <2>2. job' = [job EXCEPT ![s] = new] /\ UNCHANGED <<order, invoice, held, link, kept, crashes>>
    BY <2>1 DEF ReadToMove
  <2>3. new \in MoveJob /\ new.op = "move"
    BY DEF MoveJob
  <2> HIDE DEF new
  <2>4. JobsOK' /\ job'[s] = new /\ \A other \in Staff \ {s} : job'[other] = job[other]
    BY <1>3, <2>2, <2>3 DEF JobsOK
  <2> QED
    BY <1>4, <1>5, <2>2, <2>3, <2>4
<1>7. CASE Move(s)
  <2>1. JobsOK' /\ job'[s] = Idle /\ \A other \in Staff \ {s} : job'[other] = job[other]
    BY <1>3, <1>7 DEF Move, JobsOK
  <2>2. UNCHANGED <<held, link, kept, crashes>>
        /\ order' = [order EXCEPT !.status = job[s].to]
        /\ invoice' \in {invoice, [invoice EXCEPT !.cancelled = FALSE]}
    BY <1>7 DEF Move
  <2>3. job[s] \in MoveJob
    BY <1>3, <1>7 DEF Move, JobsOK, Idle, RefundJob, CancelJob
  <2>4. job[s].to \in {"confirmed", "preparing", "delivered"}
    BY <2>3 DEF MoveJob
  <2>5. order' \in OrderType /\ order'.refunded = order.refunded
    BY <1>3, <2>2, <2>4 DEF Typed, OrderType
  <2>6. invoice' \in InvoiceType /\ invoice'.credit = invoice.credit
    BY <1>3, <2>2 DEF Typed, InvoiceType
  <2>7. TypeOK'
    BY <1>1, <2>2, <2>5, <2>6, TypeIs DEF TypeOK, Typed, OrderType, InvoiceType
  <2> QED
    BY <1>4, <2>1, <2>5, <2>6, <2>7 DEF Idle
<1>8. CASE \E amount \in 1 .. Total : AskRefund(s, amount)
  <2>1. PICK amount \in 1 .. Total : AskRefund(s, amount)
    BY <1>8
  <2> DEFINE new == [op |-> "refund", step |-> "claim", key |-> "byHand", amount |-> amount]
  <2>2. job' = [job EXCEPT ![s] = new] /\ UNCHANGED <<order, invoice, held, link, kept, crashes>>
    BY <2>1 DEF AskRefund
  <2>3. new \in RefundJob /\ new.step = "claim"
    BY DEF RefundJob
  <2> HIDE DEF new
  <2>4. JobsOK' /\ job'[s] = new /\ \A other \in Staff \ {s} : job'[other] = job[other]
    BY <1>3, <2>2, <2>3 DEF JobsOK
  <2> QED
    BY <1>4, <1>5, <2>2, <2>3, <2>4 DEF Working
<1>9. CASE Replay(s) \/ RefuseRefund(s)
  <2>1. UNCHANGED <<order, invoice, held, link, kept, crashes>> /\ At(s, "claim")
    BY <1>9 DEF Replay, RefuseRefund
  <2>2. CASE Finish(s)
    BY <1>3, <1>4, <1>5, <2>1, <2>2, Finished DEF Idle
  <2>3. CASE job[s].op = "cancel" /\ Step(s, "commit")
    <3>1. JobsOK' /\ job'[s].step = "commit" /\ \A other \in Staff \ {s} : job'[other] = job[other]
      BY <1>3, <2>3, StepTaken
    <3> QED
      BY <1>4, <1>5, <2>1, <3>1 DEF Working
  <2> QED
    BY <1>9, <2>2, <2>3 DEF Replay, RefuseRefund
<1>10. CASE \E choice \in {"unsaid", "full", "none"} : ReadToCancel(s, choice)
  <2>1. PICK choice \in {"unsaid", "full", "none"} : ReadToCancel(s, choice)
    BY <1>10
  <2> DEFINE remaining == IF order.pay = "unpaid" THEN 0 ELSE Refundable
             refundNow == choice = "full" /\ remaining > 0
             byNote == refundNow \/ order.refunded > 0
             keep == choice = "none" /\ remaining > 0
             step == IF refundNow THEN "claim" ELSE "commit"
             new == [op |-> "cancel", step |-> step, key |-> "cancel", amount |-> 0,
                     refundNow |-> refundNow, byNote |-> byNote, keep |-> keep]
  <2>2. job' = [job EXCEPT ![s] = new] /\ UNCHANGED <<order, invoice, held, link, kept, crashes>>
    BY <2>1 DEF ReadToCancel
  <2>3. refundNow \in BOOLEAN /\ byNote \in BOOLEAN /\ keep \in BOOLEAN
        /\ step \in {"claim", "commit"}
    OBVIOUS
  <2> HIDE DEF refundNow, byNote, keep, step
  <2>4. new \in CancelJob /\ new.step \in {"claim", "commit"}
    BY <2>3 DEF CancelJob
  <2> HIDE DEF new
  <2>5. JobsOK' /\ job'[s] = new /\ \A other \in Staff \ {s} : job'[other] = job[other]
    BY <1>3, <2>2, <2>4 DEF JobsOK
  <2> QED
    BY <1>4, <1>5, <2>2, <2>4, <2>5 DEF Working
<1>11. CASE Cancel(s)
  <2>1. JobsOK' /\ (\A other \in Staff \ {s} : job'[other] = job[other])
        /\ (job'[s].op \notin {"refund", "cancel"} \/ job'[s].step \notin Working)
    <3>1. CASE Finish(s)
      BY <1>3, <3>1, Finished DEF Idle
    <3>2. CASE Step(s, "closeLinks")
      <4>1. job[s].op = "cancel"
        <5>1. job[s].op \in {"refund", "cancel"} /\ job[s].step = "commit"
          BY <1>11 DEF Cancel, At
        <5> QED
          BY <1>3, <5>1, WorkerIs DEF RefundJob
      <4>2. JobsOK' /\ job'[s].step = "closeLinks"
            /\ \A other \in Staff \ {s} : job'[other] = job[other]
        BY <1>3, <3>2, <4>1, StepTaken
      <4> QED
        BY <4>2 DEF Working
    <3> QED
      BY <1>11, <3>1, <3>2 DEF Cancel
  <2>2. /\ order' \in {order, [order EXCEPT !.status = "cancelled"]}
        /\ \/ invoice' = invoice
           \/ invoice' = [invoice EXCEPT !.cancelled = invoice.cancelled \/ CancelsInvoice(s)]
        /\ held' \in {held, StockAfter(s)} /\ kept' \in {kept, job[s].keep}
        /\ UNCHANGED <<link, crashes>>
    BY <1>11 DEF Cancel
  <2>3. order' \in OrderType /\ order'.refunded = order.refunded
    BY <1>3, <2>2 DEF Typed, OrderType
  <2>4. job[s] \in CancelJob
    <3>1. job[s].op \in {"refund", "cancel"} /\ job[s].step = "commit"
      BY <1>11 DEF Cancel, At
    <3> QED
      BY <1>3, <3>1, WorkerIs DEF RefundJob
  <2>5. job[s].keep \in BOOLEAN /\ job[s].byNote \in BOOLEAN
    BY <2>4 DEF CancelJob
  <2>6. invoice.cancelled \in BOOLEAN /\ held \in BOOLEAN /\ kept \in BOOLEAN
    BY <1>3 DEF Typed, InvoiceType
  <2>7. held' \in BOOLEAN
    BY <2>2, <2>5, <2>6, Zenon DEF StockAfter, Restocked
  <2>8. kept' \in BOOLEAN
    BY <2>2, <2>5, <2>6
  <2>9. (invoice.cancelled \/ CancelsInvoice(s)) \in BOOLEAN
    OBVIOUS
  <2>10. invoice' \in InvoiceType /\ invoice'.credit = invoice.credit
    <3> DEFINE b == invoice.cancelled \/ CancelsInvoice(s)
    <3>1. b \in BOOLEAN /\ invoice \in InvoiceType
          /\ (invoice' = invoice \/ invoice' = [invoice EXCEPT !.cancelled = b])
      BY <1>3, <2>2 DEF Typed
    <3> HIDE DEF b
    <3> QED
      BY <3>1 DEF InvoiceType
  <2>11. TypeOK'
    BY <1>1, <1>3, <2>2, <2>3, <2>7, <2>8, <2>10, TypeIs
       DEF TypeOK, Typed, OrderType, InvoiceType
  <2> QED
    BY <1>4, <2>1, <2>3, <2>10, <2>11
<1>12. CASE CloseLinks(s) \/ Crash(s)
  <2>1. Finish(s) /\ UNCHANGED <<order, invoice, held, kept>>
    BY <1>12 DEF CloseLinks, Crash
  <2>2. \/ UNCHANGED crashes /\ \E lost \in SUBSET MayBeLost : link' = Closed(lost)
        \/ UNCHANGED link /\ crashes < MaxCrashes /\ crashes' = crashes + 1
    BY <1>12 DEF CloseLinks, Crash
  <2>3. link' \in [Links -> LinkType] /\ crashes' \in 0 .. MaxCrashes
    BY <1>3, <2>2, ClosedType, OrderAssumption DEF Typed
  <2>4. TypeOK' /\ invoice'.credit = invoice.credit /\ order'.refunded = order.refunded
    BY <1>1, <2>1, <2>3, TypeIs DEF TypeOK, Typed, LinkType
  <2> QED
    BY <1>3, <1>4, <2>1, <2>4, Finished DEF Idle
<1> QED
  BY <1>6, <1>7, <1>8, <1>9, <1>10, <1>11, <1>12

\* A request that works on a refund is the only one, and finds its row as it should be.
LEMMA WorkerFinds ==
    ASSUME BooksInv, NEW s \in Staff, NEW step \in Working, At(s, step)
    PROVE  /\ job[s].key \in Keys /\ WorksOn(s, job[s].key)
           /\ Fits(refund[job[s].key], step)
           /\ \A other \in Staff \ {s} : ~WorksOn(other, job[s].key)
<1>1. JobsOK /\ WorkInOrder /\ OneWorker
  BY DEF BooksInv
<1>2. job[s].key \in Keys
  BY <1>1, WorkerIs DEF At
<1>3. WorksOn(s, job[s].key)
  BY DEF WorksOn, At
<1>4. Fits(refund[job[s].key], job[s].step)
  BY <1>1, <1>2, <1>3 DEF WorkInOrder
<1>5. Fits(refund[job[s].key], step)
  BY <1>4 DEF At
<1> QED
  BY <1>1, <1>2, <1>3, <1>5 DEF OneWorker

\* A request that is at one step of the refund of its key is at work on no other.
LEMMA WorksOnItsOwn ==
    ASSUME NEW s \in Staff, job'[s].key = job[s].key, NEW c \in Keys, WorksOn(s, c)'
    PROVE  c = job[s].key
BY DEF WorksOn

LEMMA RowIs ==
    ASSUME BooksInv, NEW k \in Keys
    PROVE  refund[k] \in RowType /\ RowInOrder(refund[k]) /\ refund \in [Keys -> RowType]
BY TypeIs DEF BooksInv, Typed, RowsInOrder

\* The rest of the books, once the rows and the sums are in order.
LEMMA RowBooks ==
    ASSUME BooksInv, refund' \in [Keys -> RowType], order' \in OrderType, invoice' \in InvoiceType,
           held' \in BOOLEAN, UNCHANGED <<link, tab, kept, crashes>>,
           JobsOK', RowsInOrder', WorkInOrder', OneWorker', SumsInOrder'
    PROVE  BooksInv'
<1>1. TypeOK'
  BY TypeIs DEF BooksInv, TypeOK, Typed, OrderType, InvoiceType, RowType
<1>2. TabsOK'
  BY DEF BooksInv, TabsOK
<1> QED
  BY <1>1, <1>2 DEF BooksInv

\* A refund is taken up again.
LEMMA CarryOnBooks ==
    ASSUME BooksInv, NEW s \in Staff, CarryOn(s)
    PROVE  /\ BooksInv'
           /\ \A c \in Keys \ {job[s].key} : refund'[c] = refund[c]
           /\ refund'[job[s].key] = [refund[job[s].key] EXCEPT !.state = "pending"]
           /\ refund[job[s].key].state \in {"pending", "failed"}
           /\ At(s, "claim")
           /\ At(s, "ask")' \/ At(s, "note")' \/ At(s, "settle")'
<1>1. JobsOK /\ Typed
  BY TypeIs DEF BooksInv
<1>2. At(s, "claim") /\ job[s].op \in {"refund", "cancel"}
  BY DEF CarryOn, At
<1>3. PICK k \in Keys : k = job[s].key
  BY <1>1, <1>2, WorkerIs
<1> DEFINE old == refund[k]
           row == [old EXCEPT !.state = "pending"]
           step == IF old.noted THEN "settle" ELSE IF old.known THEN "note" ELSE "ask"
<1>4. /\ MayCarryOn(k) /\ Step(s, step)
      /\ refund' = [refund EXCEPT ![k].state = "pending"]
      /\ UNCHANGED <<order, invoice, held, link, tab, kept, crashes>>
  BY <1>3 DEF CarryOn
<1>5. old \in RowType /\ RowInOrder(old)
  BY RowIs
<1>6. old.state \in {"pending", "failed"} /\ \A other \in Staff : ~WorksOn(other, k)
  BY <1>4 DEF MayCarryOn, AtWork, WorksOn, Working
<1>7. refund' = [refund EXCEPT ![k] = row]
  BY <1>4
<1>8. step \in Working
  BY DEF Working
<1>9. /\ JobsOK' /\ job'[s].op = job[s].op /\ job'[s].key = job[s].key /\ job'[s].step = step
      /\ \A other \in Staff \ {s} : job'[other] = job[other]
  BY <1>1, <1>2, <1>4, StepTaken
<1> HIDE DEF old
<1>10. row \in RowType /\ RowInOrder(row) /\ row.state = "pending"
       /\ NotedOf(row) = NotedOf(old) /\ ProcessedOf(row) = ProcessedOf(old)
  BY <1>5, <1>6 DEF RowType, RowInOrder, NotedOf, ProcessedOf, NoRefund
<1>11. Fits(row, step)
  BY <1>5, <1>10 DEF RowType, RowInOrder, Fits
<1> HIDE DEF row, step
<1>12. \A c \in Keys : WorksOn(s, c)' => c = k /\ Fits(row, job'[s].step)
  BY <1>3, <1>9, <1>11, WorksOnItsOwn
<1>13. /\ refund' \in [Keys -> RowType] /\ RowsInOrder' /\ WorkInOrder' /\ OneWorker'
       /\ refund'[k] = row /\ \A c \in Keys \ {k} : refund'[c] = refund[c]
  BY <1>6, <1>7, <1>9, <1>10, <1>12, RowWork
<1>14. SumsInOrder'
  BY <1>4, <1>10, <1>13, SameSums DEF old
<1>15. BooksInv'
  BY <1>1, <1>4, <1>9, <1>13, <1>14, RowBooks DEF Typed
<1>16. At(s, "ask")' \/ At(s, "note")' \/ At(s, "settle")'
  BY <1>2, <1>8, <1>9 DEF At, Working
<1> QED
  BY <1>2, <1>3, <1>6, <1>13, <1>15, <1>16 DEF old, row

-----------------------------------------------------------------------------
(* What one payment has left for refunds.                                  *)

ClaimedOf(r, l) == IF r.of = l /\ r.state \in {"pending", "processed"} THEN r.amount ELSE 0

LEMMA LeftIs ==
    ASSUME BooksInv, NEW l \in Links
    PROVE  /\ Left(l) = Received(l) - (ClaimedOf(refund["cancel"], l) + ClaimedOf(refund["byHand"], l))
           /\ Received(l) \in 0 .. Total
           /\ \A k \in Keys : ClaimedOf(refund[k], l) \in 0 .. Total
           /\ Left(l) \in Int /\ Left(l) <= Total
<1> DEFINE f == [k \in Keys |-> IF refund[k].of = l /\ Claims(k) THEN refund[k].amount ELSE 0]
<1>1. Typed /\ Total \in Nat
  BY TypeIs, OrderAssumption DEF BooksInv
<1>2. \A k \in Keys : refund[k].amount \in 0 .. Total
  BY <1>1 DEF Typed, RowType
<1>3. \A k \in Keys : f[k] = ClaimedOf(refund[k], l) /\ ClaimedOf(refund[k], l) \in 0 .. Total
  <2> SUFFICES ASSUME NEW k \in Keys
               PROVE  f[k] = ClaimedOf(refund[k], l) /\ ClaimedOf(refund[k], l) \in 0 .. Total
    OBVIOUS
  <2>1. f[k] = ClaimedOf(refund[k], l)
    BY DEF ClaimedOf, Claims
  <2>2. ClaimedOf(refund[k], l) \in {refund[k].amount, 0}
    BY DEF ClaimedOf
  <2> QED
    BY <1>1, <1>2, <2>1, <2>2
<1>4. f \in [Keys -> Nat]
  BY <1>1, <1>3
<1>5. TotalOf(f) = f["cancel"] + f["byHand"]
  BY <1>4, TotalOfKeys
<1>6. Received(l) \in 0 .. Total
  BY <1>1 DEF Typed, LinkType, Received
<1>7. Left(l) = Received(l) - TotalOf(f)
  BY DEF Left
<1> HIDE DEF f
<1>8. f["cancel"] = ClaimedOf(refund["cancel"], l) /\ f["byHand"] = ClaimedOf(refund["byHand"], l)
      /\ f["cancel"] \in 0 .. Total /\ f["byHand"] \in 0 .. Total
  BY <1>3, KeysAre
<1>9. Left(l) = Received(l) - (ClaimedOf(refund["cancel"], l) + ClaimedOf(refund["byHand"], l))
  BY <1>5, <1>7, <1>8
<1>10. Left(l) \in Int /\ Left(l) <= Total
  BY <1>1, <1>5, <1>6, <1>7, <1>8
<1> QED
  BY <1>3, <1>6, <1>9, <1>10

\* A new row is claimed, of a payment that has as much left.
LEMMA ClaimBooks ==
    ASSUME BooksInv, NEW s \in Staff, Claim(s)
    PROVE  /\ BooksInv'
           /\ \A c \in Keys \ {job[s].key} : refund'[c] = refund[c]
           /\ refund[job[s].key] = NoRefund
           /\ LET row == refund'[job[s].key]
              IN  /\ row.state = "pending" /\ ~row.moved /\ ~row.known /\ ~row.noted
                  /\ row.of \in Links /\ Left(row.of) > 0 /\ row.amount <= Left(row.of)
                  /\ job[s].amount = 0 =>
                        row.amount = Left(row.of) /\ \A m \in Links : Left(m) <= Left(row.of)
           /\ At(s, "claim") /\ At(s, "ask")'
<1>1. JobsOK /\ Typed /\ Total \in Nat
  BY TypeIs, OrderAssumption DEF BooksInv
<1>2. At(s, "claim") /\ job[s].op \in {"refund", "cancel"}
  BY DEF Claim, At
<1>3. PICK k \in Keys : k = job[s].key
  BY <1>1, <1>2, WorkerIs
<1>4. PICK l \in Links :
         /\ Left(l) > 0 /\ Left(l) >= job[s].amount
         /\ job[s].amount = 0 => \A m \in Links : Left(m) <= Left(l)
         /\ refund' = [refund EXCEPT ![k] = [NoRefund EXCEPT
                !.state = "pending", !.of = l,
                !.amount = IF job[s].amount = 0 THEN Left(l) ELSE job[s].amount]]
  BY <1>3 DEF Claim
<1>5. refund[k].state = "none" /\ Step(s, "ask")
      /\ UNCHANGED <<order, invoice, held, link, tab, kept, crashes>>
  BY <1>3 DEF Claim
<1> DEFINE amount == IF job[s].amount = 0 THEN Left(l) ELSE job[s].amount
           row == [NoRefund EXCEPT !.state = "pending", !.of = l, !.amount = amount]
<1>6. job[s].amount \in 0 .. Total
  BY <1>1, <1>2, WorkerIs DEF RefundJob, CancelJob
<1>7. amount \in 1 .. Total /\ amount <= Left(l)
  BY <1>1, <1>4, <1>6, LeftIs
<1>8. refund[k] = NoRefund
  BY <1>5, RowIs DEF RowInOrder
<1>9. \A other \in Staff : ~WorksOn(other, k)
  BY <1>5 DEF BooksInv, WorkInOrder, Fits
<1>10. refund' = [refund EXCEPT ![k] = row]
  BY <1>4
<1>11. /\ JobsOK' /\ job'[s].op = job[s].op /\ job'[s].key = job[s].key /\ job'[s].step = "ask"
       /\ \A other \in Staff \ {s} : job'[other] = job[other]
  BY <1>1, <1>2, <1>5, StepTaken
<1>12. job[s].amount = 0 => amount = Left(l)
  OBVIOUS
<1> HIDE DEF amount
<1>13. /\ NoRefund \in RowType /\ NoRefund.moved = FALSE /\ NoRefund.known = FALSE
       /\ NoRefund.noted = FALSE /\ NoRefund.state = "none"
  BY <1>1 DEF NoRefund, RowType
<1>14. /\ row \in RowType /\ row.state = "pending" /\ row.of = l /\ row.amount = amount
       /\ row.moved = FALSE /\ row.known = FALSE /\ row.noted = FALSE
  <2>1. amount \in 0 .. Total
    BY <1>1, <1>7
  <2> QED
    BY <1>13, <2>1 DEF RowType
<1> HIDE DEF row
<1>15. RowInOrder(row) /\ Fits(row, "ask")
  BY <1>7, <1>14 DEF RowInOrder, Fits
<1>16. \A c \in Keys : WorksOn(s, c)' => c = k /\ Fits(row, job'[s].step)
  BY <1>3, <1>11, <1>15, WorksOnItsOwn
<1>17. /\ refund' \in [Keys -> RowType] /\ RowsInOrder' /\ WorkInOrder' /\ OneWorker'
       /\ refund'[k] = row /\ \A c \in Keys \ {k} : refund'[c] = refund[c]
  BY <1>9, <1>10, <1>11, <1>14, <1>15, <1>16, RowWork
<1>18. NotedOf(row) = NotedOf(refund[k]) /\ ProcessedOf(row) = ProcessedOf(refund[k])
  BY <1>8, <1>13, <1>14 DEF NotedOf, ProcessedOf
<1>19. SumsInOrder'
  BY <1>5, <1>17, <1>18, SameSums
<1>20. BooksInv'
  BY <1>1, <1>5, <1>11, <1>17, <1>19, RowBooks DEF Typed
<1>21. At(s, "ask")'
  BY <1>2, <1>11 DEF At
<1> QED
  BY <1>2, <1>3, <1>4, <1>7, <1>8, <1>12, <1>14, <1>17, <1>20, <1>21

\* Razorpay is asked, and either the answer is known or the refund failed.
LEMMA AskBooks ==
    ASSUME BooksInv, NEW s \in Staff, AskRazorpay(s)
    PROVE  /\ BooksInv'
           /\ At(s, "ask") /\ Fits(refund[job[s].key], "ask")
           /\ \A c \in Keys \ {job[s].key} : refund'[c] = refund[c]
           /\ LET k   == job[s].key
                  row == refund'[k]
              IN  /\ row.of = refund[k].of /\ row.amount = refund[k].amount
                  /\ row.noted = refund[k].noted
                  /\ row.moved => refund[k].moved \/ RoomAtRazorpay(k) >= refund[k].amount
                  /\ refund[k].moved => row.moved
                  /\ \/ row.state = "pending" /\ At(s, "note")'
                     \/ row.state = "failed" /\ Finish(s)
<1>1. JobsOK /\ Typed
  BY TypeIs DEF BooksInv
<1>2. At(s, "ask") /\ job[s].op \in {"refund", "cancel"}
  BY DEF AskRazorpay, At
<1>3. PICK k \in Keys : k = job[s].key
  BY <1>1, <1>2, WorkerIs
<1> DEFINE old == refund[k]
           possible == old.moved \/ RoomAtRazorpay(k) >= old.amount
           answered == [old EXCEPT !.moved = TRUE, !.known = TRUE]
           failed(moved) == [old EXCEPT !.moved = moved, !.state = "failed"]
<1>4. old \in RowType /\ RowInOrder(old) /\ refund \in [Keys -> RowType]
  BY RowIs
<1>5. "ask" \in Working
  BY DEF Working
<1>6. Fits(old, "ask") /\ \A other \in Staff \ {s} : ~WorksOn(other, k)
  BY <1>2, <1>3, <1>5, WorkerFinds
<1>7. UNCHANGED <<order, invoice, held, link, tab, kept, crashes>>
  BY DEF AskRazorpay
<1>8. \/ possible /\ Step(s, "note") /\ refund' = [refund EXCEPT ![k] = answered]
      \/ Finish(s) /\ \E moved \in {old.moved, possible} :
                         refund' = [refund EXCEPT ![k] = failed(moved)]
  BY <1>3, <1>4 DEF AskRazorpay
<1>9. possible \in BOOLEAN
  OBVIOUS
<1>10. ASSUME NEW row \in RowType, RowInOrder(row), refund' = [refund EXCEPT ![k] = row],
              row.of = old.of, row.amount = old.amount, row.noted = FALSE,
              row.state \in {"pending", "failed"}, JobsOK',
              \A other \in Staff \ {s} : job'[other] = job[other],
              \A c \in Keys : WorksOn(s, c)' => c = k /\ Fits(row, job'[s].step)
       PROVE  BooksInv' /\ refund'[k] = row /\ \A c \in Keys \ {k} : refund'[c] = refund[c]
  <2>1. /\ refund' \in [Keys -> RowType] /\ RowsInOrder' /\ WorkInOrder' /\ OneWorker'
        /\ refund'[k] = row /\ \A c \in Keys \ {k} : refund'[c] = refund[c]
    BY <1>6, <1>10, RowWork
  <2>2. old.state = "pending" /\ ~old.noted
    BY <1>4, <1>6 DEF Fits, RowInOrder
  <2>3. NotedOf(row) = NotedOf(refund[k]) /\ ProcessedOf(row) = ProcessedOf(refund[k])
    BY <1>10, <2>2 DEF NotedOf, ProcessedOf
  <2>4. SumsInOrder'
    BY <1>7, <2>1, <2>3, SameSums
  <2>5. BooksInv'
    BY <1>1, <1>7, <1>10, <2>1, <2>4, RowBooks DEF Typed
  <2> QED
    BY <2>1, <2>5
<1>11. old.state = "pending" /\ old.known = FALSE /\ old.noted = FALSE
  BY <1>4, <1>6 DEF Fits, RowInOrder, RowType
<1>12. CASE possible /\ Step(s, "note") /\ refund' = [refund EXCEPT ![k] = answered]
  <2>1. /\ JobsOK' /\ job'[s].op = job[s].op /\ job'[s].key = job[s].key /\ job'[s].step = "note"
        /\ \A other \in Staff \ {s} : job'[other] = job[other]
    BY <1>1, <1>2, <1>12, StepTaken
  <2> HIDE DEF old, possible
  <2>2. /\ answered \in RowType /\ answered.of = old.of /\ answered.amount = old.amount
        /\ answered.noted = FALSE /\ answered.state = "pending"
        /\ answered.known = TRUE /\ answered.moved = TRUE
    BY <1>4, <1>11 DEF RowType
  <2> HIDE DEF answered
  <2>3. RowInOrder(answered) /\ Fits(answered, "note")
    BY <1>4, <1>11, <2>2 DEF RowInOrder, Fits
  <2>4. \A c \in Keys : WorksOn(s, c)' => c = k /\ Fits(answered, job'[s].step)
    BY <1>3, <2>1, <2>3, WorksOnItsOwn
  <2>5. BooksInv' /\ refund'[k] = answered /\ \A c \in Keys \ {k} : refund'[c] = refund[c]
    BY <1>10, <1>12, <2>1, <2>2, <2>3, <2>4
  <2>6. At(s, "note")'
    BY <1>2, <2>1 DEF At
  <2> QED
    BY <1>2, <1>3, <1>6, <1>11, <1>12, <2>2, <2>5, <2>6 DEF old, possible
<1>13. ASSUME Finish(s), NEW moved \in {old.moved, possible},
              refund' = [refund EXCEPT ![k] = failed(moved)]
       PROVE  /\ BooksInv' /\ refund'[k].state = "failed"
              /\ \A c \in Keys \ {k} : refund'[c] = refund[c]
              /\ refund'[k].of = old.of /\ refund'[k].amount = old.amount
              /\ refund'[k].noted = FALSE /\ refund'[k].moved = moved
  <2>1. JobsOK' /\ job'[s] = Idle /\ \A other \in Staff \ {s} : job'[other] = job[other]
    BY <1>1, <1>13, Finished
  <2>2. moved \in BOOLEAN
    BY <1>4, <1>9, <1>13 DEF RowType
  <2> HIDE DEF old, possible
  <2>3. /\ failed(moved) \in RowType /\ failed(moved).of = old.of
        /\ failed(moved).amount = old.amount /\ failed(moved).noted = FALSE
        /\ failed(moved).state = "failed" /\ failed(moved).known = FALSE
        /\ failed(moved).moved = moved
    BY <1>4, <1>11, <2>2 DEF RowType
  <2> HIDE DEF failed
  <2>4. RowInOrder(failed(moved))
    BY <1>4, <1>11, <2>3 DEF RowInOrder
  <2>5. \A c \in Keys : ~WorksOn(s, c)'
    BY <2>1 DEF WorksOn, Idle
  <2>6. /\ BooksInv' /\ refund'[k] = failed(moved)
        /\ \A c \in Keys \ {k} : refund'[c] = refund[c]
    BY <1>10, <1>13, <2>1, <2>3, <2>4, <2>5
  <2> QED
    BY <2>3, <2>6
<1>14. CASE Finish(s) /\ \E moved \in {old.moved, possible} :
                            refund' = [refund EXCEPT ![k] = failed(moved)]
  <2>1. PICK moved \in {old.moved, possible} : refund' = [refund EXCEPT ![k] = failed(moved)]
    BY <1>14
  <2>2. /\ BooksInv' /\ refund'[k].state = "failed"
        /\ \A c \in Keys \ {k} : refund'[c] = refund[c]
        /\ refund'[k].of = old.of /\ refund'[k].amount = old.amount
        /\ refund'[k].noted = FALSE /\ refund'[k].moved = moved
    BY <1>13, <1>14, <2>1
  <2>3. (moved => possible) /\ (old.moved => moved)
    BY <2>1
  <2> QED
    BY <1>2, <1>3, <1>6, <1>11, <1>14, <2>2, <2>3
<1> QED
  BY <1>8, <1>12, <1>14

\* The credit note is made if the invoice has room for it; without, the request ends.
LEMMA NoteBooks ==
    ASSUME BooksInv, NEW s \in Staff, MakeNote(s)
    PROVE  /\ BooksInv'
           /\ At(s, "note") /\ Fits(refund[job[s].key], "note")
           /\ \A c \in Keys \ {job[s].key} : refund'[c] = refund[c]
           /\ UNCHANGED <<order, held, link, tab, kept, crashes>>
           /\ invoice'.cancelled = invoice.cancelled /\ invoice'.paid = invoice.paid
           /\ LET k   == job[s].key
                  row == refund'[k]
              IN  /\ row.of = refund[k].of /\ row.amount = refund[k].amount
                  /\ row.moved = refund[k].moved /\ row.state = "pending"
                  /\ \/ /\ At(s, "settle")' /\ row.noted
                        /\ invoice'.credit = invoice.credit + row.amount
                     \/ Finish(s) /\ UNCHANGED <<invoice, refund>>
<1>1. JobsOK /\ Typed /\ Total \in Nat
  BY TypeIs, OrderAssumption DEF BooksInv
<1>2. At(s, "note") /\ job[s].op \in {"refund", "cancel"}
  BY DEF MakeNote, At
<1>3. PICK k \in Keys : k = job[s].key
  BY <1>1, <1>2, WorkerIs
<1> DEFINE old == refund[k]
           row == [old EXCEPT !.noted = TRUE]
<1>4. old \in RowType /\ RowInOrder(old) /\ refund \in [Keys -> RowType]
  BY RowIs
<1>5. "note" \in Working
  BY DEF Working
<1>6. Fits(old, "note") /\ \A other \in Staff \ {s} : ~WorksOn(other, k)
  BY <1>2, <1>3, <1>5, WorkerFinds
<1>7. UNCHANGED <<order, held, link, tab, kept, crashes>>
  BY DEF MakeNote
<1>8. \/ /\ old.amount <= Total - invoice.credit
         /\ invoice' = [invoice EXCEPT !.credit = invoice.credit + old.amount]
         /\ refund' = [refund EXCEPT ![k] = row] /\ Step(s, "settle")
      \/ Finish(s) /\ UNCHANGED <<invoice, refund>>
  BY <1>3 DEF MakeNote
<1>9. old.state = "pending" /\ old.known = TRUE /\ old.noted = FALSE /\ old.amount \in 1 .. Total
  BY <1>4, <1>6 DEF Fits, RowInOrder, RowType
<1>10. CASE Finish(s) /\ UNCHANGED <<invoice, refund>>
  <2>1. JobsOK' /\ job'[s] = Idle /\ \A other \in Staff \ {s} : job'[other] = job[other]
    BY <1>1, <1>10, Finished
  <2>2. RowsInOrder' /\ WorkInOrder' /\ OneWorker'
    BY <1>10, <2>1, NoNewWork DEF Idle
  <2>3. SumsInOrder'
    BY <1>7, <1>10 DEF BooksInv, SumsInOrder, NotedOf, ProcessedOf
  <2>4. BooksInv'
    BY <1>1, <1>7, <1>10, <2>1, <2>2, <2>3, RowBooks DEF Typed
  <2> QED
    BY <1>2, <1>3, <1>6, <1>7, <1>9, <1>10, <2>4
<1>11. CASE /\ old.amount <= Total - invoice.credit
            /\ invoice' = [invoice EXCEPT !.credit = invoice.credit + old.amount]
            /\ refund' = [refund EXCEPT ![k] = row] /\ Step(s, "settle")
  <2>1. /\ JobsOK' /\ job'[s].op = job[s].op /\ job'[s].key = job[s].key /\ job'[s].step = "settle"
        /\ \A other \in Staff \ {s} : job'[other] = job[other]
    BY <1>1, <1>2, <1>11, StepTaken
  <2>2. /\ invoice' \in InvoiceType /\ invoice'.credit = invoice.credit + old.amount
        /\ invoice'.cancelled = invoice.cancelled /\ invoice'.paid = invoice.paid
    <3>1. invoice \in InvoiceType /\ invoice.credit \in 0 .. Total
      BY <1>1 DEF Typed, InvoiceType
    <3>2. invoice.credit + old.amount \in 0 .. Total
      BY <1>1, <1>9, <1>11, <3>1
    <3> QED
      BY <1>11, <3>1, <3>2 DEF InvoiceType
  <2> HIDE DEF old
  <2>3. /\ row \in RowType /\ row.of = old.of /\ row.amount = old.amount
        /\ row.noted = TRUE /\ row.state = "pending"
        /\ row.known = old.known /\ row.moved = old.moved
    BY <1>4, <1>9 DEF RowType
  <2>4. refund' = [refund EXCEPT ![k] = row]
    BY <1>11
  <2> HIDE DEF row
  <2>5. RowInOrder(row) /\ Fits(row, "settle")
    BY <1>4, <1>9, <2>3 DEF RowInOrder, Fits
  <2>6. \A c \in Keys : WorksOn(s, c)' => c = k /\ Fits(row, job'[s].step)
    BY <1>3, <2>1, <2>5, WorksOnItsOwn
  <2>7. /\ refund' \in [Keys -> RowType] /\ RowsInOrder' /\ WorkInOrder' /\ OneWorker'
        /\ refund'[k] = row /\ \A c \in Keys \ {k} : refund'[c] = refund[c]
    BY <1>6, <2>1, <2>3, <2>4, <2>5, <2>6, RowWork
  <2>8. NotedOf(row) = old.amount /\ NotedOf(old) = 0
        /\ ProcessedOf(row) = 0 /\ ProcessedOf(old) = 0
    BY <1>9, <2>3 DEF NotedOf, ProcessedOf
  <2>9. SumsInOrder'
    <3>1. SumsInOrder /\ order' = order /\ old = refund[k]
      BY <1>7 DEF BooksInv, old
    <3>2. NotedOf(refund["cancel"]) \in Nat /\ NotedOf(refund["byHand"]) \in Nat
          /\ old.amount \in Nat
      BY <1>1, <1>9, KeysAre DEF NotedOf, Typed, RowType
    <3>3. CASE k = "cancel"
      BY <2>2, <2>7, <2>8, <3>1, <3>2, <3>3, KeysAre DEF SumsInOrder, NotedOf, ProcessedOf
    <3>4. CASE k = "byHand"
      BY <2>2, <2>7, <2>8, <3>1, <3>2, <3>4, KeysAre DEF SumsInOrder, NotedOf, ProcessedOf
    <3> QED
      BY <3>3, <3>4 DEF Keys
  <2>10. BooksInv'
    BY <1>1, <1>7, <2>1, <2>2, <2>7, <2>9, RowBooks DEF Typed
  <2>11. At(s, "settle")'
    BY <1>2, <2>1 DEF At
  <2> QED
    BY <1>2, <1>3, <1>6, <1>7, <2>2, <2>3, <2>7, <2>10, <2>11 DEF old
<1> QED
  BY <1>8, <1>10, <1>11

\* The refund is settled: it is processed, and its amount counted.
LEMMA SettleBooks ==
    ASSUME BooksInv, NEW s \in Staff, Settle(s)
    PROVE  /\ BooksInv'
           /\ At(s, "settle") /\ Fits(refund[job[s].key], "settle")
           /\ \A c \in Keys \ {job[s].key} : refund'[c] = refund[c]
           /\ UNCHANGED <<link, tab, kept, crashes>>
           /\ invoice'.cancelled = invoice.cancelled /\ invoice'.credit = invoice.credit
           /\ order'.status = order.status
           /\ held' = IF job[s].op = "cancel" THEN Restocked ELSE held
           /\ order'.pay # "unpaid"
           /\ LET k   == job[s].key
                  row == refund'[k]
              IN  /\ row = [refund[k] EXCEPT !.state = "processed"]
                  /\ invoice'.paid = Greater(invoice.paid - row.amount, 0)
           /\ IF job[s].op = "cancel" THEN Step(s, "commit") ELSE Finish(s)
<1>1. JobsOK /\ Typed /\ Total \in Nat
  BY TypeIs, OrderAssumption DEF BooksInv
<1>2. At(s, "settle") /\ job[s].op \in {"refund", "cancel"}
  BY DEF Settle, At
<1>3. PICK k \in Keys : k = job[s].key
  BY <1>1, <1>2, WorkerIs
<1> DEFINE old == refund[k]
           row == [old EXCEPT !.state = "processed"]
           all == order.refunded + old.amount
           pay == IF all >= Total THEN "refunded" ELSE "partially_refunded"
           paid == Greater(invoice.paid - old.amount, 0)
<1>4. old \in RowType /\ RowInOrder(old) /\ refund \in [Keys -> RowType]
  BY RowIs
<1>5. "settle" \in Working
  BY DEF Working
<1>6. Fits(old, "settle") /\ \A other \in Staff \ {s} : ~WorksOn(other, k)
  BY <1>2, <1>3, <1>5, WorkerFinds
<1>7. /\ UNCHANGED <<link, tab, kept, crashes>>
      /\ refund' = [refund EXCEPT ![k] = row]
      /\ invoice' = [invoice EXCEPT !.paid = paid]
      /\ order' = [order EXCEPT !.refunded = all, !.pay = pay]
      /\ held' = IF job[s].op = "cancel" THEN Restocked ELSE held
      /\ IF job[s].op = "cancel" THEN Step(s, "commit") ELSE Finish(s)
  BY <1>3, <1>4 DEF Settle, Settled
<1>8. old.state = "pending" /\ old.noted = TRUE /\ old.amount \in 1 .. Total
  BY <1>4, <1>6 DEF Fits, RowInOrder, RowType
<1>9. /\ JobsOK' /\ \A other \in Staff \ {s} : job'[other] = job[other]
      /\ \A c \in Keys : ~WorksOn(s, c)'
  <2>1. CASE Step(s, "commit") /\ job[s].op = "cancel"
    <3>1. /\ JobsOK' /\ job'[s].step = "commit"
          /\ \A other \in Staff \ {s} : job'[other] = job[other]
      BY <1>1, <2>1, StepTaken
    <3> QED
      BY <3>1 DEF WorksOn, Working
  <2>2. CASE Finish(s)
    <3>1. JobsOK' /\ job'[s] = Idle /\ \A other \in Staff \ {s} : job'[other] = job[other]
      BY <1>1, <2>2, Finished
    <3> QED
      BY <3>1 DEF WorksOn, Idle
  <2> QED
    BY <1>7, <2>1, <2>2
<1> HIDE DEF old
<1>10. /\ row \in RowType /\ row.of = old.of /\ row.amount = old.amount
       /\ row.noted = TRUE /\ row.state = "processed"
       /\ row.known = old.known /\ row.moved = old.moved
  BY <1>4, <1>8 DEF RowType
<1> HIDE DEF row
<1>11. RowInOrder(row)
  BY <1>4, <1>8, <1>10 DEF RowInOrder
<1>12. /\ refund' \in [Keys -> RowType] /\ RowsInOrder' /\ WorkInOrder' /\ OneWorker'
       /\ refund'[k] = row /\ \A c \in Keys \ {k} : refund'[c] = refund[c]
  BY <1>6, <1>7, <1>9, <1>10, <1>11, RowWork
<1>13. NotedOf(row) = old.amount /\ NotedOf(old) = old.amount
       /\ ProcessedOf(row) = old.amount /\ ProcessedOf(old) = 0
  BY <1>8, <1>10 DEF NotedOf, ProcessedOf
<1>14. /\ invoice' \in InvoiceType /\ invoice'.credit = invoice.credit
       /\ invoice'.cancelled = invoice.cancelled /\ invoice'.paid = paid
  <2>1. invoice \in InvoiceType /\ invoice.paid \in 0 .. Total
    BY <1>1 DEF Typed, InvoiceType
  <2>2. paid \in 0 .. Total
    BY <1>1, <1>8, <2>1 DEF Greater
  <2> HIDE DEF paid
  <2> QED
    BY <1>7, <2>1, <2>2 DEF InvoiceType
<1>15. SumsInOrder /\ old = refund[k] /\ order \in OrderType /\ order.refunded \in 0 .. Total
       /\ invoice.credit \in 0 .. Total
  BY <1>1 DEF BooksInv, old, Typed, OrderType, InvoiceType
<1>16. \A c \in Keys : /\ refund[c].amount \in Nat /\ RowInOrder(refund[c])
                       /\ NotedOf(refund[c]) \in Nat /\ ProcessedOf(refund[c]) \in Nat
                       /\ ProcessedOf(refund[c]) <= NotedOf(refund[c])
  <2> SUFFICES ASSUME NEW c \in Keys
               PROVE  /\ refund[c].amount \in Nat /\ RowInOrder(refund[c])
                      /\ NotedOf(refund[c]) \in Nat /\ ProcessedOf(refund[c]) \in Nat
                      /\ ProcessedOf(refund[c]) <= NotedOf(refund[c])
    OBVIOUS
  <2>1. RowInOrder(refund[c]) /\ refund[c].amount \in Nat
    BY <1>1, RowIs DEF RowType
  <2>2. refund[c].state = "processed" => refund[c].noted
    BY <2>1 DEF RowInOrder
  <2> QED
    BY <2>1, <2>2 DEF NotedOf, ProcessedOf
<1>17. all \in 0 .. Total
  <2>1. k = "cancel" \/ k = "byHand"
    BY DEF Keys
  <2>2. all <= NotedOf(refund["cancel"]) + NotedOf(refund["byHand"])
    BY <1>13, <1>15, <1>16, <2>1, KeysAre DEF SumsInOrder
  <2> QED
    BY <1>1, <1>8, <1>15, <2>2 DEF SumsInOrder
<1>18. /\ order' \in OrderType /\ order'.refunded = all /\ order'.status = order.status
       /\ order'.pay = pay /\ pay # "unpaid"
  <2>1. pay \in {"refunded", "partially_refunded"}
    OBVIOUS
  <2> HIDE DEF all, pay
  <2> QED
    BY <1>7, <1>15, <1>17, <2>1 DEF OrderType, all
<1>19. SumsInOrder'
  <2>1. CASE k = "cancel"
    <3>1. /\ NotedOf(refund["cancel"])' = NotedOf(refund["cancel"])
          /\ NotedOf(refund["byHand"])' = NotedOf(refund["byHand"])
          /\ ProcessedOf(refund["cancel"])' = old.amount /\ ProcessedOf(refund["cancel"]) = 0
          /\ ProcessedOf(refund["byHand"])' = ProcessedOf(refund["byHand"])
      BY <1>12, <1>13, <1>15, <2>1, KeysAre DEF NotedOf, ProcessedOf
    <3> QED
      BY <1>8, <1>14, <1>15, <1>16, <1>18, <3>1, KeysAre DEF SumsInOrder
  <2>2. CASE k = "byHand"
    <3>1. /\ NotedOf(refund["cancel"])' = NotedOf(refund["cancel"])
          /\ NotedOf(refund["byHand"])' = NotedOf(refund["byHand"])
          /\ ProcessedOf(refund["byHand"])' = old.amount /\ ProcessedOf(refund["byHand"]) = 0
          /\ ProcessedOf(refund["cancel"])' = ProcessedOf(refund["cancel"])
      BY <1>12, <1>13, <1>15, <2>2, KeysAre DEF NotedOf, ProcessedOf
    <3> QED
      BY <1>8, <1>14, <1>15, <1>16, <1>18, <3>1, KeysAre DEF SumsInOrder
  <2> QED
    BY <2>1, <2>2 DEF Keys
<1>20. held' \in BOOLEAN
  BY <1>1, <1>7 DEF Typed, Restocked
<1>21. BooksInv'
  BY <1>7, <1>9, <1>12, <1>14, <1>18, <1>19, <1>20, RowBooks
<1> QED
  BY <1>2, <1>3, <1>6, <1>7, <1>10, <1>12, <1>14, <1>18, <1>21 DEF old, row

\* How a step of a request falls into the cases above.
LEMMA RequestIs ==
    ASSUME NEW s \in Staff, Request(s)
    PROVE  \/ \/ \E to \in {"confirmed", "preparing", "delivered"} : ReadToMove(s, to)
              \/ Move(s)
              \/ \E amount \in 1 .. Total : AskRefund(s, amount)
              \/ Replay(s) \/ RefuseRefund(s)
              \/ \E choice \in {"unsaid", "full", "none"} : ReadToCancel(s, choice)
              \/ Cancel(s) \/ CloseLinks(s) \/ Crash(s)
           \/ CarryOn(s) \/ Claim(s) \/ AskRazorpay(s) \/ MakeNote(s) \/ Settle(s)
BY Zenon DEF Request, Refunding

LEMMA BooksInit == Init => BooksInv
<1> SUFFICES ASSUME Init PROVE BooksInv
  OBVIOUS
<1> USE DEF Init
<1>1. TypeOK
  <2>1. order \in OrderType /\ invoice \in InvoiceType
    BY OrderAssumption DEF OrderType, InvoiceType
  <2>2. NoLink \in LinkType
    BY OrderAssumption DEF NoLink, LinkType
  <2>3. NoRefund \in RowType
    BY OrderAssumption DEF NoRefund, RowType
  <2>4. link \in [Links -> LinkType] /\ refund \in [Keys -> RowType]
    BY <2>2, <2>3
  <2>5. held \in BOOLEAN /\ kept \in BOOLEAN
    OBVIOUS
  <2>6. crashes \in 0 .. MaxCrashes
    BY OrderAssumption
  <2> HIDE DEF Init
  <2> QED
    BY <2>1, <2>4, <2>5, <2>6, TypeIs DEF Typed
<1>2. JobsOK /\ TabsOK
  BY DEF JobsOK, TabsOK
<1>3. RowsInOrder
  BY DEF RowsInOrder, RowInOrder, NoRefund
<1>4. WorkInOrder /\ OneWorker
  BY DEF WorkInOrder, OneWorker, WorksOn, Idle
<1>5. SumsInOrder
  BY KeysAre DEF SumsInOrder, NotedOf, ProcessedOf, NoRefund
<1> QED
  BY <1>1, <1>2, <1>3, <1>4, <1>5 DEF BooksInv

LEMMA BooksStep == BooksInv /\ [Next]_vars => BooksInv'
<1> SUFFICES ASSUME BooksInv, [Next]_vars PROVE BooksInv'
  OBVIOUS
<1>1. CASE Shopper
  BY <1>1, ShopperBooks
<1>2. CASE Razorpay
  BY <1>2, RazorpayBooks
<1>3. ASSUME NEW s \in Staff, Request(s) PROVE BooksInv'
  <2>1. CASE CarryOn(s) \/ Claim(s) \/ AskRazorpay(s) \/ MakeNote(s) \/ Settle(s)
    BY <2>1, CarryOnBooks, ClaimBooks, AskBooks, NoteBooks, SettleBooks
  <2>2. CASE ~(CarryOn(s) \/ Claim(s) \/ AskRazorpay(s) \/ MakeNote(s) \/ Settle(s))
    BY <1>3, <2>2, RequestIs, RequestBooks
  <2> QED
    BY <2>1, <2>2
<1>4. ASSUME NEW amount \in Cash, PayByHand(amount) PROVE BooksInv'
  BY <1>4, ByHandBooks
<1>5. CASE UNCHANGED vars
  BY <1>5 DEF vars, BooksInv, TypeOK, JobsOK, TabsOK, RowsInOrder, RowInOrder, WorkInOrder,
              WorksOn, Fits, OneWorker, SumsInOrder, NotedOf, ProcessedOf
<1> QED
  BY <1>1, <1>2, <1>3, <1>4, <1>5 DEF Next

LEMMA BooksAlways == Spec => []BooksInv
BY BooksInit, BooksStep, PTL DEF Spec

\* Whatever overlaps, dies or is sent again, the books stay well typed: no more is
\* credited, refunded or paid than the order comes to.
THEOREM TypeCorrect == Spec => []TypeOK
<1>1. BooksInv => TypeOK
  BY DEF BooksInv
<1> QED
  BY <1>1, BooksAlways, PTL

-----------------------------------------------------------------------------
(* A cancelled order cannot be paid.                                       *)

\* A request changes its own job alone.
LEMMA OthersStay ==
    ASSUME JobsOK, NEW s \in Staff, Request(s)
    PROVE  \A other \in Staff \ {s} : job'[other] = job[other]
<1>1. ASSUME NEW f, job' = [job EXCEPT ![s] = f]
      PROVE  \A other \in Staff \ {s} : job'[other] = job[other]
  BY <1>1 DEF JobsOK
<1>2. CASE Finish(s)
  BY <1>2 DEF JobsOK, Finish
<1>3. ASSUME NEW step, Step(s, step)
      PROVE  \A other \in Staff \ {s} : job'[other] = job[other]
  BY <1>3 DEF JobsOK, Step
<1>4. CASE \E to \in {"confirmed", "preparing", "delivered"} : ReadToMove(s, to)
  BY <1>1, <1>4 DEF ReadToMove
<1>5. CASE Move(s)
  BY <1>1, <1>5 DEF Move
<1>6. CASE \E amount \in 1 .. Total : AskRefund(s, amount)
  BY <1>1, <1>6 DEF AskRefund
<1>7. CASE Replay(s) \/ RefuseRefund(s) \/ CarryOn(s) \/ Claim(s)
  BY <1>2, <1>3, <1>7 DEF Replay, RefuseRefund, CarryOn, Claim
<1>8. CASE AskRazorpay(s) \/ MakeNote(s) \/ Settle(s)
  BY <1>2, <1>3, <1>8 DEF AskRazorpay, MakeNote, Settle
<1>9. CASE \E choice \in {"unsaid", "full", "none"} : ReadToCancel(s, choice)
  BY <1>1, <1>9 DEF ReadToCancel
<1>10. CASE Cancel(s) \/ CloseLinks(s) \/ Crash(s)
  BY <1>2, <1>3, <1>10 DEF Cancel, CloseLinks, Crash
<1> QED
  BY <1>4, <1>5, <1>6, <1>7, <1>8, <1>9, <1>10, RequestIs

\* A request that is about to close the links can do nothing else but die.
LEMMA NotClosing ==
    ASSUME JobsOK, NEW s \in Staff, Request(s), ~CloseLinks(s), ~Crash(s)
    PROVE  ~At(s, "closeLinks")
<1>1. CASE job[s] = Idle
  BY <1>1 DEF At, Idle
<1>2. CASE job[s].op = "move"
  BY <1>2 DEF At
<1>3. CASE \E step \in {"claim", "ask", "note", "settle", "commit"} : At(s, step)
  BY <1>3 DEF At
<1>4. \/ job[s] = Idle \/ job[s].op = "move"
      \/ At(s, "claim") \/ At(s, "ask") \/ At(s, "note") \/ At(s, "settle") \/ At(s, "commit")
  <2>1. CASE CarryOn(s) \/ Claim(s) \/ AskRazorpay(s) \/ MakeNote(s) \/ Settle(s)
    BY <2>1 DEF CarryOn, Claim, AskRazorpay, MakeNote, Settle
  <2>2. CASE ~(CarryOn(s) \/ Claim(s) \/ AskRazorpay(s) \/ MakeNote(s) \/ Settle(s))
    BY <2>2, RequestIs
       DEF ReadToMove, Move, AskRefund, Replay, RefuseRefund, ReadToCancel, Cancel
  <2> QED
    BY <2>1, <2>2
<1> QED
  BY <1>1, <1>2, <1>3, <1>4

\* Razorpay is told of every link that is closed.
LEMMA ClosedIs ==
    ASSUME TypeOK, "linkLeftOpen" \notin Uses, NEW lost \in SUBSET MayBeLost, NEW l \in Links
    PROVE  LET new == Closed(lost)[l]
           IN  /\ new.row # "created"
               /\ new.row \in {"cancelled", "expired", "paid"} /\ new.rzp = "open" =>
                     link[l].row = new.row /\ link[l].rzp = "open"
<1>1. l \notin lost
  BY DEF MayBeLost
<1> DEFINE old == link[l]
           new == Closed(lost)[l]
<1>2. old \in LinkType
  BY TypeIs DEF Typed
<1>3. new = IF l \in Active THEN CloseLink(l) ELSE old
  BY <1>1 DEF Closed
<1>4. l \in Active <=> old.row = "created"
  BY DEF Active
<1> HIDE DEF old
<1>5. CloseLink(l).row = "cancelled" /\ CloseLink(l).rzp # "open"
  <2> DEFINE closed == [old EXCEPT !.row = "cancelled", !.rzp = IF old.rzp = "open" THEN "closed" ELSE old.rzp]
  <2>1. CloseLink(l) = closed
    BY DEF CloseLink, old
  <2>2. closed.row = "cancelled" /\ closed.rzp # "open"
    BY <1>2 DEF LinkType
  <2> QED
    BY <2>1, <2>2
<1> HIDE DEF new
<1>6. CASE l \in Active
  BY <1>3, <1>5, <1>6 DEF new
<1>7. CASE l \notin Active
  BY <1>3, <1>4, <1>7 DEF new, old
<1> QED
  BY <1>6, <1>7

LEMMA SameLinks ==
    ASSUME LinksInv, link' = link,
           order'.status = "cancelled" /\ ~Closing' => order.status = "cancelled" /\ ~Closing
    PROVE  LinksClosed'
BY DEF LinksInv, LinksClosed

\* One link changes.
LEMMA OneLink ==
    ASSUME LinksInv, order'.status = order.status, job' = job, NEW l \in Links,
           \A m \in Links \ {l} : link'[m] = link[m],
           link'[l].rzp = "open" =>
              \/ link'[l].row = "none"
              \/ link'[l].row = "created" /\ (link[l].row = "created" /\ link[l].rzp = "open")
    PROVE  LinksClosed'
<1>1. Closing' = Closing
  BY DEF Closing, At
<1> QED
  BY <1>1 DEF LinksInv, LinksClosed

LEMMA LinksStep ==
    ASSUME "linkLeftOpen" \notin Uses, "lateLink" \notin Uses, LinksInv, [Next]_vars
    PROVE  LinksInv'
<1>1. JobsOK /\ TypeOK /\ Typed /\ LinksClosed /\ BooksInv
  BY TypeIs DEF LinksInv, BooksInv
<1>2. BooksInv'
  BY <1>1, BooksStep
<1> SUFFICES LinksClosed'
  BY <1>2 DEF LinksInv
<1>3. CASE Shopper
  <2>1. PICK t \in Tabs : AskForLink(t) \/ ReuseLink(t) \/ MakeLink(t) \/ GiveUpLink(t)
    BY <1>3 DEF Shopper
  <2>2. UNCHANGED <<order, job>>
    BY <2>1 DEF AskForLink, ReuseLink, MakeLink, GiveUpLink
  <2>3. Closing' = Closing
    BY <2>2 DEF Closing, At
  <2>4. CASE AskForLink(t) \/ ReuseLink(t) \/ GiveUpLink(t)
    <3>1. link' = link
      BY <2>4 DEF AskForLink, ReuseLink, GiveUpLink
    <3> QED
      BY <2>2, <2>3, <3>1, SameLinks
  <2>5. CASE MakeLink(t)
    <3>1. order.status # "cancelled"
      BY <2>5 DEF MakeLink
    <3> DEFINE new == [NoLink EXCEPT !.row = "created", !.amount = tab[t].amount, !.rzp = "open"]
    <3>2. PICK l \in Links, lost \in SUBSET MayBeLost :
             \/ link' = [Closed(lost) EXCEPT ![l] = new]
             \/ link' = [link EXCEPT ![l] = [new EXCEPT !.row = "none"]]
      BY <2>5 DEF MakeLink
    <3>3. tab[t].amount \in 0 .. Total
      <4>1. tab[t] \in [op: {"link"}, amount: 1 .. Total]
        BY <1>1, <2>5 DEF MakeLink, BooksInv, TabsOK, Idle
      <4> QED
        BY <4>1, OrderAssumption
    <3>4. new.row = "created" /\ [new EXCEPT !.row = "none"].row = "none"
      BY <3>3, NewLinkIs
    <3> HIDE DEF new
    <3>5. Closed(lost) \in [Links -> LinkType] /\ link \in [Links -> LinkType]
      BY <1>1, ClosedType DEF Typed
    <3>6. \A m \in Links : link'[m].row \in {"cancelled", "expired", "paid"} => link'[m].rzp # "open"
      <4> SUFFICES ASSUME NEW m \in Links, link'[m].row \in {"cancelled", "expired", "paid"}
                   PROVE  link'[m].rzp # "open"
        OBVIOUS
      <4>1. m # l
        BY <3>2, <3>4, <3>5
      <4>2. link'[m] = Closed(lost)[m] \/ link'[m] = link[m]
        BY <3>2, <3>5, <4>1
      <4> QED
        BY <1>1, <4>2, ClosedIs DEF LinksClosed
    <3> QED
      BY <2>2, <3>1, <3>6 DEF LinksClosed
  <2> QED
    BY <2>1, <2>4, <2>5
<1>4. CASE Razorpay
  <2>1. PICK l \in Links : Expire(l) \/ NoticeClosed(l) \/ Pay(l) \/ Record(l)
    BY <1>4 DEF Razorpay
  <2>2. job' = job /\ order'.status = order.status
    <3>1. order \in OrderType
      BY <1>1 DEF Typed
    <3> QED
      BY <2>1, <3>1 DEF Expire, NoticeClosed, Pay, Record, OrderType
  <2> DEFINE old == link[l]
  <2>3. old \in LinkType /\ link \in [Links -> LinkType]
    BY <1>1 DEF Typed
  <2>4. (\A m \in Links \ {l} : link'[m] = link[m]) /\ link'[l].rzp # "open"
    <3>1. \/ link' = [link EXCEPT ![l] = [old EXCEPT !.rzp = "closed"]]
          \/ old.rzp = "closed" /\ link' = [link EXCEPT ![l] = [old EXCEPT !.row = "expired"]]
          \/ link' = [link EXCEPT ![l] = [old EXCEPT !.rzp = "paid"]]
          \/ old.rzp = "paid"
             /\ \E row \in {old.row, "none", "paid"} :
                   link' = [link EXCEPT ![l] = [old EXCEPT !.recorded = TRUE, !.row = row]]
      BY <2>1, <2>3 DEF Expire, NoticeClosed, Pay, Record
    <3> HIDE DEF old
    <3>2. /\ [old EXCEPT !.rzp = "closed"].rzp = "closed"
          /\ [old EXCEPT !.row = "expired"].rzp = old.rzp
          /\ [old EXCEPT !.rzp = "paid"].rzp = "paid"
          /\ \A row : [old EXCEPT !.recorded = TRUE, !.row = row].rzp = old.rzp
      BY <2>3 DEF LinkType
    <3> QED
      BY <2>3, <3>1, <3>2
  <2> QED
    BY <2>2, <2>4, OneLink
<1>5. ASSUME NEW s \in Staff, Request(s) PROVE LinksClosed'
  <2>1. \A other \in Staff \ {s} : job'[other] = job[other]
    BY <1>1, <1>5, OthersStay
  <2>2. ASSUME ~At(s, "closeLinks") PROVE Closing => Closing'
    BY <2>1, <2>2 DEF Closing, At
  <2>3. CASE CloseLinks(s)
    <3>1. PICK lost \in SUBSET MayBeLost : link' = Closed(lost)
      BY <2>3 DEF CloseLinks
    <3> QED
      BY <1>1, <3>1, ClosedIs DEF LinksClosed
  <2>4. CASE Crash(s)
    <3>1. ~At(s, "closeLinks") /\ UNCHANGED <<order, link>>
      BY <2>4 DEF Crash
    <3> QED
      BY <2>2, <3>1, SameLinks
  <2>5. CASE ~CloseLinks(s) /\ ~Crash(s)
    <3>1. ~At(s, "closeLinks")
      BY <1>1, <1>5, <2>5, NotClosing
    <3>2. link' = link
      <4>1. CASE CarryOn(s) \/ Claim(s) \/ AskRazorpay(s) \/ MakeNote(s) \/ Settle(s)
        BY <4>1 DEF CarryOn, Claim, AskRazorpay, MakeNote, Settle
      <4>2. CASE ~(CarryOn(s) \/ Claim(s) \/ AskRazorpay(s) \/ MakeNote(s) \/ Settle(s))
        BY <1>5, <2>5, <4>2, RequestIs
           DEF ReadToMove, Move, AskRefund, Replay, RefuseRefund, ReadToCancel, Cancel
      <4> QED
        BY <4>1, <4>2
    <3>3. order'.status = "cancelled" => order.status = "cancelled" \/ At(s, "closeLinks")'
      <4>1. CASE Cancel(s)
        <5>1. CASE Step(s, "closeLinks")
          <6>1. At(s, "commit") /\ job[s].op \in {"refund", "cancel"} /\ job[s] \in CancelJob
            BY <1>1, <4>1, WorkerIs DEF Cancel, At, RefundJob
          <6>2. job'[s].op = job[s].op /\ job'[s].step = "closeLinks"
            BY <1>1, <5>1, <6>1, StepTaken DEF CancelJob
          <6> QED
            BY <6>1, <6>2 DEF At
        <5>2. CASE UNCHANGED order
          BY <5>2
        <5> QED
          BY <4>1, <5>1, <5>2 DEF Cancel
      <4>2. CASE Move(s)
        <5>1. job[s] \in MoveJob
          BY <1>1, <4>2 DEF Move, JobsOK, Idle, RefundJob, CancelJob
        <5>2. job[s].to # "cancelled"
          BY <5>1 DEF MoveJob
        <5>3. order \in OrderType /\ order' = [order EXCEPT !.status = job[s].to]
          BY <1>1, <4>2 DEF Typed, Move
        <5> QED
          BY <5>2, <5>3 DEF OrderType
      <4>3. CASE Settle(s)
        BY <1>1, <4>3, SettleBooks
      <4>4. CASE CarryOn(s) \/ Claim(s) \/ AskRazorpay(s) \/ MakeNote(s)
        BY <4>4 DEF CarryOn, Claim, AskRazorpay, MakeNote
      <4>5. CASE \/ \E to \in {"confirmed", "preparing", "delivered"} : ReadToMove(s, to)
                 \/ \E amount \in 1 .. Total : AskRefund(s, amount)
                 \/ Replay(s) \/ RefuseRefund(s)
                 \/ \E choice \in {"unsaid", "full", "none"} : ReadToCancel(s, choice)
        BY <4>5 DEF ReadToMove, AskRefund, Replay, RefuseRefund, ReadToCancel
      <4> QED
        BY <1>5, <2>5, <4>1, <4>2, <4>3, <4>4, <4>5, RequestIs, Zenon
    <3>4. At(s, "closeLinks")' => Closing'
      BY DEF Closing, At
    <3> QED
      BY <2>2, <3>1, <3>2, <3>3, <3>4, SameLinks
  <2> QED
    BY <2>3, <2>4, <2>5
<1>6. ASSUME NEW amount \in Cash, PayByHand(amount) PROVE LinksClosed'
  <2>1. UNCHANGED <<order, link, job>>
    BY <1>6 DEF PayByHand
  <2>2. Closing' = Closing
    BY <2>1 DEF Closing, At
  <2> QED
    BY <2>1, <2>2, SameLinks
<1>7. CASE UNCHANGED vars
  <2>1. UNCHANGED <<order, link, job>>
    BY <1>7 DEF vars
  <2>2. Closing' = Closing
    BY <2>1 DEF Closing, At
  <2> QED
    BY <2>1, <2>2, SameLinks
<1> QED
  BY <1>3, <1>4, <1>5, <1>6, <1>7 DEF Next

\* Once an order is cancelled no link that was made for it can be paid, whatever was
\* asked for, replaced, paid, refunded or cancelled at the same time, if Razorpay hears
\* of every link that is closed, and no page gets one that it asked for earlier.
THEOREM CancelledIsNotPayable ==
    ASSUME "linkLeftOpen" \notin Uses, "lateLink" \notin Uses
    PROVE  Spec => []NotPayable
<1>1. Init => LinksInv
  <2> SUFFICES ASSUME Init PROVE LinksClosed
    BY BooksInit DEF LinksInv
  <2>1. \A l \in Links : link[l].rzp # "open"
    BY DEF Init, NoLink
  <2> QED
    BY <2>1 DEF LinksClosed
<1>2. LinksInv /\ [Next]_vars => LinksInv'
  BY LinksStep
<1>3. LinksInv => NotPayable
  <2> SUFFICES ASSUME LinksInv, order.status = "cancelled", ~Cancelling,
                      NEW l \in Links, link[l].row # "none"
               PROVE  link[l].rzp # "open"
    BY DEF NotPayable
  <2>1. JobsOK /\ Typed /\ LinksClosed
    BY TypeIs DEF LinksInv, BooksInv
  <2>2. ~Closing
    BY <2>1, WorkerIs DEF Closing, At, Cancelling, RefundJob
  <2>3. link[l].row \in {"created", "paid", "cancelled", "expired"}
    BY <2>1 DEF Typed, LinkType
  <2> QED
    BY <2>1, <2>2, <2>3 DEF LinksClosed
<1> QED
  BY <1>1, <1>2, <1>3, PTL DEF Spec

-----------------------------------------------------------------------------
(* A cancellation runs alone.                                              *)

\* A request that is at something ends, or takes a step and stays what it is.
LEMMA JobAfter ==
    ASSUME JobsOK, NEW s \in Staff, Request(s), job[s] # Idle
    PROVE  \/ job'[s] = Idle
           \/ /\ job[s].op \in {"refund", "cancel"}
              /\ job'[s].op = job[s].op /\ job'[s].key = job[s].key
              /\ job[s].op = "cancel" =>
                    /\ job'[s].refundNow = job[s].refundNow /\ job'[s].byNote = job[s].byNote
                    /\ job'[s].keep = job[s].keep
<1>1. CASE Finish(s)
  BY <1>1, Finished
<1>2. CASE Move(s)
  BY <1>2 DEF Move, JobsOK
<1>3. ASSUME job[s].op \in {"refund", "cancel"},
             NEW step \in {"claim", "ask", "note", "settle", "commit", "closeLinks"},
             job[s].op = "refund" => step \in {"claim", "ask", "note", "settle"},
             Step(s, step)
      PROVE  /\ job'[s].op = job[s].op /\ job'[s].key = job[s].key
             /\ job[s].op = "cancel" =>
                   /\ job'[s].refundNow = job[s].refundNow /\ job'[s].byNote = job[s].byNote
                   /\ job'[s].keep = job[s].keep
  BY <1>3, StepTaken
<1>4. CASE CarryOn(s) \/ Claim(s) \/ AskRazorpay(s) \/ MakeNote(s)
  <2>1. job[s].op \in {"refund", "cancel"}
    BY <1>4 DEF CarryOn, Claim, AskRazorpay, MakeNote, At
  <2>2. Finish(s) \/ Step(s, "ask") \/ Step(s, "note") \/ Step(s, "settle")
    BY <1>4 DEF CarryOn, Claim, AskRazorpay, MakeNote
  <2> QED
    BY <1>1, <1>3, <2>1, <2>2
<1>5. CASE Replay(s) \/ Settle(s)
  <2>1. job[s].op \in {"refund", "cancel"}
    BY <1>5 DEF Replay, Settle, At
  <2>2. Finish(s) \/ (job[s].op = "cancel" /\ Step(s, "commit"))
    BY <1>5 DEF Replay, Settle
  <2> QED
    BY <1>1, <1>3, <2>1, <2>2
<1>6. CASE Cancel(s)
  <2>1. job[s].op = "cancel"
    BY <1>6, WorkerIs DEF Cancel, At, RefundJob
  <2>2. Finish(s) \/ Step(s, "closeLinks")
    BY <1>6 DEF Cancel
  <2> QED
    BY <1>1, <1>3, <2>1, <2>2
<1>7. CASE RefuseRefund(s) \/ CloseLinks(s) \/ Crash(s)
  BY <1>1, <1>7 DEF RefuseRefund, CloseLinks, Crash
<1>8. ~ \/ \E to \in {"confirmed", "preparing", "delivered"} : ReadToMove(s, to)
        \/ \E amount \in 1 .. Total : AskRefund(s, amount)
        \/ \E choice \in {"unsaid", "full", "none"} : ReadToCancel(s, choice)
  BY DEF ReadToMove, AskRefund, ReadToCancel
<1> QED
  BY <1>2, <1>4, <1>5, <1>6, <1>7, <1>8, RequestIs, Zenon

\* While one request cancels, no other does anything.
LEMMA NobodyElse ==
    ASSUME "overlap" \notin Uses, JobsOK, Alone, NEW s \in Staff, Request(s),
           NEW other \in Staff \ {s}
    PROVE  job[other].op # "cancel"
<1> SUFFICES ASSUME job[other].op = "cancel" PROVE FALSE
  OBVIOUS
<1>1. job[s] = Idle
  BY DEF Alone
<1>2. job[other] # Idle /\ Cancelling
  BY DEF Idle, Cancelling
<1>3. ~ \/ \E to \in {"confirmed", "preparing", "delivered"} : ReadToMove(s, to)
        \/ \E amount \in 1 .. Total : AskRefund(s, amount)
        \/ \E choice \in {"unsaid", "full", "none"} : ReadToCancel(s, choice)
  BY <1>2 DEF ReadToMove, AskRefund, ReadToCancel
<1>4. ~(Move(s) \/ Replay(s) \/ RefuseRefund(s) \/ Cancel(s) \/ CloseLinks(s) \/ Crash(s))
  BY <1>1 DEF Move, Replay, RefuseRefund, Cancel, CloseLinks, Crash, At, Idle
<1>5. ~(CarryOn(s) \/ Claim(s) \/ AskRazorpay(s) \/ MakeNote(s) \/ Settle(s))
  BY <1>1 DEF CarryOn, Claim, AskRazorpay, MakeNote, Settle, At, Idle
<1> QED
  BY <1>3, <1>4, <1>5, RequestIs

\* Only moving and cancelling change what an order and its invoice have come to.
LEMMA StatusStays ==
    ASSUME BooksInv, NEW s \in Staff, Request(s), ~Move(s), ~Cancel(s)
    PROVE  order'.status = order.status /\ invoice'.cancelled = invoice.cancelled
<1>1. CASE MakeNote(s)
  BY <1>1, NoteBooks
<1>2. CASE Settle(s)
  BY <1>2, SettleBooks
<1>3. CASE CarryOn(s) \/ Claim(s) \/ AskRazorpay(s)
  BY <1>3 DEF CarryOn, Claim, AskRazorpay
<1>4. CASE \/ \E to \in {"confirmed", "preparing", "delivered"} : ReadToMove(s, to)
           \/ \E amount \in 1 .. Total : AskRefund(s, amount)
           \/ Replay(s) \/ RefuseRefund(s)
           \/ \E choice \in {"unsaid", "full", "none"} : ReadToCancel(s, choice)
           \/ CloseLinks(s) \/ Crash(s)
  BY <1>4 DEF ReadToMove, AskRefund, Replay, RefuseRefund, ReadToCancel, CloseLinks, Crash
<1> QED
  BY <1>1, <1>2, <1>3, <1>4, RequestIs, Zenon

\* Nothing but the staff changes the order's status, or whether its invoice is cancelled.
LEMMA OutsideStays ==
    ASSUME Typed, Shopper \/ Razorpay \/ \E amount \in Cash : PayByHand(amount)
    PROVE  /\ UNCHANGED <<held, refund, job, kept>>
           /\ order'.status = order.status /\ order'.refunded = order.refunded
           /\ invoice'.cancelled = invoice.cancelled /\ invoice'.credit = invoice.credit
<1>1. order \in OrderType /\ invoice \in InvoiceType
  BY DEF Typed
<1>2. CASE Shopper
  BY <1>2 DEF Shopper, AskForLink, ReuseLink, MakeLink, GiveUpLink
<1>3. CASE Razorpay
  <2>1. PICK l \in Links : Expire(l) \/ NoticeClosed(l) \/ Pay(l) \/ Record(l)
    BY <1>3 DEF Razorpay
  <2>2. CASE Expire(l) \/ NoticeClosed(l) \/ Pay(l)
    BY <2>2 DEF Expire, NoticeClosed, Pay
  <2>3. CASE Record(l)
    <3> DEFINE paid == invoice.paid + Lesser(link[l].amount, Balance)
    <3>1. UNCHANGED <<held, refund, job, kept>>
          /\ order' \in {order, [order EXCEPT !.pay = "paid"]}
          /\ invoice' = [invoice EXCEPT !.paid = paid]
      BY <2>3 DEF Record
    <3> HIDE DEF paid
    <3> QED
      BY <1>1, <3>1 DEF OrderType, InvoiceType
  <2> QED
    BY <2>1, <2>2, <2>3
<1>4. CASE \E amount \in Cash : PayByHand(amount)
  <2>1. PICK amount \in Cash : PayByHand(amount)
    BY <1>4
  <2> DEFINE paid == invoice.paid + amount
  <2>2. UNCHANGED <<order, held, refund, job, kept>>
        /\ invoice' = [invoice EXCEPT !.paid = paid]
    BY <2>1 DEF PayByHand
  <2> HIDE DEF paid
  <2> QED
    BY <1>1, <2>2 DEF InvoiceType
<1> QED
  BY <1>2, <1>3, <1>4

LEMMA AloneStep ==
    ASSUME "overlap" \notin Uses, BooksInv, Alone, [Next]_vars
    PROVE  Alone'
<1>1. JobsOK /\ Typed
  BY TypeIs DEF BooksInv
<1>2. CASE UNCHANGED job /\ order'.status = order.status /\ invoice'.cancelled = invoice.cancelled
  BY <1>2 DEF Alone
<1>3. ASSUME NEW s \in Staff, Request(s) PROVE Alone'
  <2>1. \A other \in Staff \ {s} : job'[other] = job[other] /\ job[other].op # "cancel"
    BY <1>1, <1>3, OthersStay, NobodyElse
  <2>2. job'[s].op = "cancel" => \A other \in Staff \ {s} : job[other] = Idle
    <3>1. CASE job[s] # Idle
      BY <1>1, <1>3, <3>1, JobAfter DEF Alone, Idle
    <3>2. CASE job[s] = Idle
      <4>1. CASE \E choice \in {"unsaid", "full", "none"} : ReadToCancel(s, choice)
        BY <4>1 DEF ReadToCancel
      <4>2. CASE \E to \in {"confirmed", "preparing", "delivered"} : ReadToMove(s, to)
        BY <1>1, <4>2 DEF ReadToMove, JobsOK
      <4>3. CASE \E amount \in 1 .. Total : AskRefund(s, amount)
        BY <1>1, <4>3 DEF AskRefund, JobsOK
      <4>4. ~(Move(s) \/ Replay(s) \/ RefuseRefund(s) \/ Cancel(s) \/ CloseLinks(s) \/ Crash(s))
        BY <3>2 DEF Move, Replay, RefuseRefund, Cancel, CloseLinks, Crash, At, Idle
      <4>5. ~(CarryOn(s) \/ Claim(s) \/ AskRazorpay(s) \/ MakeNote(s) \/ Settle(s))
        BY <3>2 DEF CarryOn, Claim, AskRazorpay, MakeNote, Settle, At, Idle
      <4> QED
        BY <1>3, <4>1, <4>2, <4>3, <4>4, <4>5, RequestIs, Zenon
    <3> QED
      BY <3>1, <3>2
  <2>3. \A t, other \in Staff : job'[t].op = "cancel" => other = t \/ job'[other] = Idle
    BY <2>1, <2>2
  <2>4. CASE Cancel(s) /\ order' # order
    <3>1. At(s, "commit") /\ Step(s, "closeLinks") /\ job[s] \in CancelJob
          /\ order' = [order EXCEPT !.status = "cancelled"]
      BY <1>1, <2>4, WorkerIs DEF Cancel, At, RefundJob
    <3>2. job[s].op = "cancel"
      BY <3>1 DEF CancelJob
    <3>3. job'[s].op = "cancel" /\ job'[s].step = "closeLinks"
      BY <1>1, <3>1, <3>2, StepTaken
    <3>4. \A other \in Staff \ {s} : job'[other] = Idle
      BY <2>1, <3>2 DEF Alone
    <3>5. order'.status = "cancelled"
      BY <1>1, <3>1 DEF Typed, OrderType
    <3> QED
      BY <2>3, <3>3, <3>4, <3>5 DEF Alone, Idle
  <2>5. CASE Move(s)
    <3>1. job[s] \in MoveJob /\ order.status # "cancelled" /\ ~invoice.cancelled
      BY <1>1, <2>5 DEF Move, JobsOK, Idle, RefundJob, CancelJob, Alone
    <3>2. job[s].to # "cancelled"
      BY <3>1 DEF MoveJob
    <3>3. order \in OrderType /\ order' = [order EXCEPT !.status = job[s].to]
          /\ invoice \in InvoiceType
          /\ invoice' \in {invoice, [invoice EXCEPT !.cancelled = FALSE]}
      BY <1>1, <2>5 DEF Typed, Move
    <3>4. order'.status # "cancelled" /\ ~invoice'.cancelled
      BY <3>1, <3>2, <3>3 DEF OrderType, InvoiceType
    <3> QED
      BY <2>3, <3>4 DEF Alone
  <2>6. CASE ~Move(s) /\ ~(Cancel(s) /\ order' # order)
    <3>1. order'.status = order.status /\ (invoice'.cancelled => order.status = "cancelled")
      <4>1. CASE Cancel(s)
        <5>1. CASE UNCHANGED <<order, invoice>>
          BY <5>1 DEF Alone
        <5>2. CASE order' = [order EXCEPT !.status = "cancelled"]
          BY <1>1, <2>6, <4>1, <5>2 DEF Typed, OrderType
        <5> QED
          BY <4>1, <5>1, <5>2 DEF Cancel
      <4>2. CASE ~Cancel(s)
        BY <1>3, <2>6, <4>2, StatusStays DEF Alone
      <4> QED
        BY <4>1, <4>2
    <3>2. job'[s].op = "move" \/ (job'[s].op = "cancel" /\ job'[s].step # "closeLinks")
             => order.status # "cancelled"
      <4>1. CASE job[s] # Idle
        <5>1. SUFFICES ASSUME job'[s].op = job[s].op, job[s].op = "cancel" PROVE order.status # "cancelled"
          BY <1>1, <1>3, <4>1, JobAfter DEF Idle
        <5>2. ~CloseLinks(s) /\ ~Crash(s)
          BY <1>1, <5>1, Finished DEF CloseLinks, Crash, Idle
        <5>3. ~At(s, "closeLinks")
          BY <1>1, <1>3, <5>2, NotClosing
        <5> QED
          BY <5>1, <5>3 DEF Alone, At
      <4>2. CASE job[s] = Idle
        <5>1. CASE \E choice \in {"unsaid", "full", "none"} : ReadToCancel(s, choice)
          BY <5>1 DEF ReadToCancel
        <5>2. CASE \E to \in {"confirmed", "preparing", "delivered"} : ReadToMove(s, to)
          BY <5>2 DEF ReadToMove
        <5>3. CASE \E amount \in 1 .. Total : AskRefund(s, amount)
          BY <1>1, <5>3 DEF AskRefund, JobsOK
        <5>4. ~(Move(s) \/ Replay(s) \/ RefuseRefund(s) \/ Cancel(s) \/ CloseLinks(s) \/ Crash(s))
          BY <4>2 DEF Move, Replay, RefuseRefund, Cancel, CloseLinks, Crash, At, Idle
        <5>5. ~(CarryOn(s) \/ Claim(s) \/ AskRazorpay(s) \/ MakeNote(s) \/ Settle(s))
          BY <4>2 DEF CarryOn, Claim, AskRazorpay, MakeNote, Settle, At, Idle
        <5> QED
          BY <1>3, <5>1, <5>2, <5>3, <5>4, <5>5, RequestIs, Zenon
      <4> QED
        BY <4>1, <4>2
    <3>3. \A t \in Staff :
             job'[t].op = "move" \/ (job'[t].op = "cancel" /\ job'[t].step # "closeLinks")
                => order.status # "cancelled"
      BY <2>1, <3>2 DEF Alone
    <3> QED
      BY <2>3, <3>1, <3>3 DEF Alone
  <2> QED
    BY <2>4, <2>5, <2>6
<1>4. CASE Shopper \/ Razorpay \/ \E amount \in Cash : PayByHand(amount)
  BY <1>1, <1>2, <1>4, OutsideStays
<1>5. CASE UNCHANGED vars
  BY <1>2, <1>5 DEF vars
<1> QED
  BY <1>3, <1>4, <1>5 DEF Next

-----------------------------------------------------------------------------
(* The sale of a cancelled order is undone once.                           *)

\* What is noted and processed of a refund, and what is not.
LEMMA SumsAre ==
    ASSUME BooksInv, NEW k \in Keys
    PROVE  /\ NotedOf(refund[k]) \in Nat /\ ProcessedOf(refund[k]) \in Nat
           /\ ProcessedOf(refund[k]) <= NotedOf(refund[k])
           /\ refund[k].noted => NotedOf(refund[k]) > 0
           /\ refund[k].state # "pending" => ProcessedOf(refund[k]) = NotedOf(refund[k])
<1>1. refund[k] \in RowType /\ RowInOrder(refund[k]) /\ Total \in Nat
  BY RowIs, OrderAssumption
<1>2. refund[k].amount \in Nat
  BY <1>1 DEF RowType
<1>3. refund[k].state = "processed" => refund[k].noted
  BY <1>1 DEF RowInOrder
<1>4. refund[k].state = "failed" => ~refund[k].noted
  BY <1>1 DEF RowInOrder
<1>5. refund[k].state = "none" => ~refund[k].noted
  BY <1>1 DEF RowInOrder, NoRefund
<1>6. refund[k].noted => refund[k].amount > 0
  BY <1>1, <1>5 DEF RowInOrder
<1>7. refund[k].state \in {"none", "pending", "processed", "failed"}
  BY <1>1 DEF RowType
<1> QED
  BY <1>2, <1>3, <1>4, <1>5, <1>6, <1>7 DEF NotedOf, ProcessedOf

\* The credit covers the refunds, and is there as soon as one is noted.
LEMMA CreditIs ==
    ASSUME BooksInv
    PROVE  /\ invoice.credit \in Nat /\ order.refunded \in Nat /\ order.refunded <= invoice.credit
           /\ \A k \in Keys : refund[k].noted => invoice.credit > 0
           /\ (\A k \in Keys : refund[k].state # "pending") => invoice.credit = order.refunded
<1>1. SumsInOrder
  BY DEF BooksInv
<1>2. \A k \in Keys : k = "cancel" \/ k = "byHand"
  BY DEF Keys
<1>3. /\ NotedOf(refund["cancel"]) \in Nat /\ ProcessedOf(refund["cancel"]) \in Nat
      /\ ProcessedOf(refund["cancel"]) <= NotedOf(refund["cancel"])
      /\ refund["cancel"].noted => NotedOf(refund["cancel"]) > 0
      /\ refund["cancel"].state # "pending" =>
            ProcessedOf(refund["cancel"]) = NotedOf(refund["cancel"])
  BY KeysAre, SumsAre
<1>4. /\ NotedOf(refund["byHand"]) \in Nat /\ ProcessedOf(refund["byHand"]) \in Nat
      /\ ProcessedOf(refund["byHand"]) <= NotedOf(refund["byHand"])
      /\ refund["byHand"].noted => NotedOf(refund["byHand"]) > 0
      /\ refund["byHand"].state # "pending" =>
            ProcessedOf(refund["byHand"]) = NotedOf(refund["byHand"])
  BY KeysAre, SumsAre
<1>5. invoice.credit \in Nat /\ order.refunded \in Nat /\ order.refunded <= invoice.credit
  BY <1>1, <1>3, <1>4 DEF SumsInOrder
<1>6. \A k \in Keys : refund[k].noted => invoice.credit > 0
  BY <1>1, <1>2, <1>3, <1>4 DEF SumsInOrder
<1>7. (\A k \in Keys : refund[k].state # "pending") => invoice.credit = order.refunded
  BY <1>1, <1>3, <1>4, KeysAre DEF SumsInOrder
<1> QED
  BY <1>5, <1>6, <1>7

\* A step that leaves alone what the sale is about, and at most ends a request.
LEMMA SaleStays ==
    ASSUME SaleInv, held' = held, order'.status = order.status, order'.refunded = order.refunded,
           invoice'.cancelled = invoice.cancelled, invoice'.credit = invoice.credit,
           refund' = refund,
           \A s \in Staff : \/ job'[s] = job[s]
                            \/ job'[s].op \notin {"refund", "cancel"}
                            \/ job'[s].op = "refund" /\ ~invoice.cancelled
                            \/ job'[s].op = "cancel" /\ KnowsRefunds(s)'
    PROVE  Reversed' /\ SaleUndoneOnce'
<1>1. \A s \in Staff : job'[s].op = "cancel" => KnowsRefunds(s)'
  <2> SUFFICES ASSUME NEW s \in Staff, job'[s].op = "cancel" PROVE KnowsRefunds(s)'
    OBVIOUS
  <2>1. CASE job'[s] = job[s]
    BY <2>1 DEF SaleInv, Reversed, KnowsRefunds
  <2>2. CASE KnowsRefunds(s)'
    BY <2>2
  <2> QED
    BY <2>1, <2>2
<1>2. \A s \in Staff : job'[s].op = "refund" => ~invoice'.cancelled
  BY DEF SaleInv, Reversed
<1>3. refund'["cancel"].state = "processed" => ~held'
  BY DEF SaleInv, Reversed
<1>4. SaleUndoneOnce'
  BY DEF SaleInv, SaleUndoneOnce
<1> QED
  BY <1>1, <1>2, <1>3, <1>4 DEF Reversed

\* A cancellation that is at a refund found some, and goes on with a credit note.
LEMMA CancelAtRefund ==
    ASSUME SaleInv, NEW s \in Staff, job[s].op = "cancel", job[s].step \in {"claim"} \cup Working
    PROVE  /\ job[s].refundNow /\ job[s].byNote
           /\ order.status # "cancelled" /\ ~invoice.cancelled
<1>1. KnowsRefunds(s)
  BY DEF SaleInv, Reversed
<1>2. job[s].step # "closeLinks"
  BY DEF Working
<1> QED
  BY <1>1, <1>2 DEF SaleInv, Alone, KnowsRefunds

\* A refund goes on, by hand or in a cancellation.
LEMMA SaleRefunds ==
    ASSUME Uses \cap {"overlap", "refundCancelled", "cancelDuringRefund"} = {},
           SaleInv, NEW s \in Staff, Request(s),
           CarryOn(s) \/ Claim(s) \/ AskRazorpay(s) \/ MakeNote(s) \/ Settle(s)
    PROVE  Reversed' /\ SaleUndoneOnce'
<1>1. JobsOK /\ Typed /\ BooksInv /\ Alone /\ Reversed /\ SaleUndoneOnce
  BY TypeIs DEF SaleInv, BooksInv
<1>2. job[s].op \in {"refund", "cancel"} /\ job[s].step \in {"claim"} \cup Working
  BY DEF CarryOn, Claim, AskRazorpay, MakeNote, Settle, At, Working
<1>3. job[s].op = "cancel" <=> job[s].key = "cancel"
  BY <1>1, <1>2, WorkerIs
<1>4. \A other \in Staff \ {s} : job'[other] = job[other] /\ job[other].op # "cancel"
  <2>1. "overlap" \notin Uses
    OBVIOUS
  <2> QED
    BY <1>1, <2>1, OthersStay, NobodyElse
<1>5. order'.status = order.status /\ invoice'.cancelled = invoice.cancelled
  BY <1>1, StatusStays DEF Move, Cancel, At, CarryOn, Claim, AskRazorpay, MakeNote, Settle
<1>6. job[s].op = "cancel" => /\ job[s].refundNow /\ job[s].byNote
                              /\ order.status # "cancelled" /\ ~invoice.cancelled
  BY <1>2, CancelAtRefund DEF SaleInv
<1>7. invoice.cancelled => job[s].op # "refund"
  BY <1>1 DEF Reversed
<1>8. ~invoice.cancelled
  BY <1>2, <1>6, <1>7
<1>9. \A t \in Staff : job'[t].op = "refund" => ~invoice'.cancelled
  BY <1>5, <1>8
<1>10. ASSUME job'[s].op = "cancel", job'[s].step = "commit" => refund'["cancel"].state = "processed"
       PROVE  KnowsRefunds(s)'
  <2>1. job[s] # Idle
    BY <1>2 DEF Idle
  <2>2. /\ job[s].op = "cancel"
        /\ job'[s].refundNow = job[s].refundNow /\ job'[s].byNote = job[s].byNote
    BY <1>1, <1>10, <2>1, JobAfter DEF Idle
  <2> QED
    BY <1>6, <1>10, <2>2 DEF KnowsRefunds
<1>11. CASE Settle(s)
  <2>1. /\ BooksInv' /\ \A c \in Keys \ {job[s].key} : refund'[c] = refund[c]
        /\ invoice'.credit = invoice.credit
        /\ held' = IF job[s].op = "cancel" THEN Restocked ELSE held
        /\ refund'[job[s].key] = [refund[job[s].key] EXCEPT !.state = "processed"]
        /\ IF job[s].op = "cancel" THEN Step(s, "commit") ELSE Finish(s)
    BY <1>1, <1>11, SettleBooks
  <2>2. CASE job[s].op = "cancel"
    <3>1. held' = FALSE
      BY <1>8, <2>1, <2>2 DEF Restocked
    <3>2. refund["cancel"] \in RowType
      BY <1>1, RowIs, KeysAre
    <3>3. refund'["cancel"].state = "processed"
      BY <1>3, <2>1, <2>2, <3>2 DEF RowType
    <3>4. \A t \in Staff : job'[t].op = "cancel" => KnowsRefunds(t)'
      BY <1>4, <1>10, <3>3
    <3>5. SaleUndoneOnce'
      BY <1>5, <1>6, <2>2, <3>3 DEF SaleUndoneOnce
    <3> QED
      BY <1>9, <3>1, <3>4, <3>5 DEF Reversed
  <2>3. CASE job[s].op # "cancel"
    <3>1. held' = held /\ refund'["cancel"] = refund["cancel"]
      BY <1>3, <2>1, <2>3, KeysAre
    <3>2. job'[s].op # "cancel"
      BY <1>1, <2>1, <2>3, Finished DEF Idle
    <3>3. \A t \in Staff : job'[t].op = "cancel" => KnowsRefunds(t)'
      BY <1>4, <3>2
    <3>4. SaleUndoneOnce'
      BY <1>1, <1>5, <2>1, <3>1 DEF SaleUndoneOnce
    <3> QED
      BY <1>1, <1>9, <3>1, <3>3, <3>4 DEF Reversed
  <2> QED
    BY <2>2, <2>3
<1>12. CASE CarryOn(s) \/ Claim(s) \/ AskRazorpay(s) \/ MakeNote(s)
  <2>1. \A c \in Keys \ {job[s].key} : refund'[c] = refund[c]
    BY <1>1, <1>12, CarryOnBooks, ClaimBooks, AskBooks, NoteBooks
  <2>2. held' = held
    BY <1>12 DEF CarryOn, Claim, AskRazorpay, MakeNote
  <2>3. refund[job[s].key].state # "processed" /\ refund'[job[s].key].state # "processed"
    <3>1. CASE CarryOn(s)
      <4>1. refund[job[s].key] \in RowType
        BY <1>1, <1>2, RowIs, WorkerIs
      <4>2. refund'[job[s].key] = [refund[job[s].key] EXCEPT !.state = "pending"]
            /\ refund[job[s].key].state \in {"pending", "failed"}
        BY <1>1, <3>1, CarryOnBooks
      <4> QED
        BY <4>1, <4>2 DEF RowType
    <3>2. CASE Claim(s)
      BY <1>1, <3>2, ClaimBooks DEF NoRefund
    <3>3. CASE AskRazorpay(s)
      BY <1>1, <3>3, AskBooks DEF Fits
    <3>4. CASE MakeNote(s)
      BY <1>1, <3>4, NoteBooks DEF Fits
    <3> QED
      BY <1>12, <3>1, <3>2, <3>3, <3>4
  <2>4. refund'["cancel"].state = "processed" <=> refund["cancel"].state = "processed"
    BY <2>1, <2>3, KeysAre
  <2>5. job'[s].op = "cancel" => job'[s].step # "commit"
    <3>1. CASE Finish(s)
      BY <1>1, <3>1, Finished DEF Idle
    <3>2. CASE Step(s, "ask") \/ Step(s, "note") \/ Step(s, "settle")
      BY <1>1, <1>2, <3>2, StepTaken
    <3> QED
      BY <1>12, <3>1, <3>2 DEF CarryOn, Claim, AskRazorpay, MakeNote
  <2>6. \A t \in Staff : job'[t].op = "cancel" => KnowsRefunds(t)'
    BY <1>4, <1>10, <2>5
  <2>7. order.status = "cancelled" => invoice'.credit # 0
    <3> SUFFICES ASSUME order.status = "cancelled" PROVE invoice'.credit # 0
      OBVIOUS
    <3>1. invoice.credit # 0 /\ invoice.credit \in Nat
      BY <1>1, <1>8, CreditIs DEF SaleUndoneOnce
    <3>2. CASE MakeNote(s)
      <4>1. refund[job[s].key].amount \in Nat
        <5>1. refund[job[s].key] \in RowType
          BY <1>1, <1>2, RowIs, WorkerIs
        <5> QED
          BY <5>1, OrderAssumption DEF RowType
      <4>2. \/ invoice'.credit = invoice.credit
            \/ invoice'.credit = invoice.credit + refund[job[s].key].amount
        BY <1>1, <3>2, NoteBooks
      <4> QED
        BY <3>1, <4>1, <4>2
    <3>3. CASE ~MakeNote(s)
      BY <1>12, <3>1, <3>3 DEF CarryOn, Claim, AskRazorpay
    <3> QED
      BY <3>2, <3>3
  <2>8. SaleUndoneOnce'
    BY <1>1, <1>5, <1>8, <2>2, <2>4, <2>7 DEF SaleUndoneOnce
  <2> QED
    BY <1>1, <1>9, <2>2, <2>4, <2>6, <2>8 DEF Reversed
<1> QED
  BY <1>11, <1>12

\* A cancellation reads what there is of the refunds.
LEMMA SaleReadToCancel ==
    ASSUME Uses \cap {"overlap", "refundCancelled", "cancelDuringRefund"} = {},
           SaleInv, NEW s \in Staff, NEW choice \in {"unsaid", "full", "none"},
           ReadToCancel(s, choice)
    PROVE  KnowsRefunds(s)'
<1>1. JobsOK /\ BooksInv
  BY DEF SaleInv, BooksInv
<1> DEFINE remaining == IF order.pay = "unpaid" THEN 0 ELSE Refundable
           refundNow == choice = "full" /\ remaining > 0
           byNote == refundNow \/ order.refunded > 0
           keep == choice = "none" /\ remaining > 0
           step == IF refundNow THEN "claim" ELSE "commit"
           new == [op |-> "cancel", step |-> step, key |-> "cancel", amount |-> 0,
                   refundNow |-> refundNow, byNote |-> byNote, keep |-> keep]
<1>2. /\ job' = [job EXCEPT ![s] = new]
      /\ \A k \in Keys : refund[k].state # "pending"
      /\ UNCHANGED <<order, invoice, refund>>
  BY DEF ReadToCancel
<1>3. invoice.credit = order.refunded /\ order.refunded \in Nat
  BY <1>1, <1>2, CreditIs
<1>4. job'[s] = new
  BY <1>1, <1>2 DEF JobsOK
<1>5. (refundNow => byNote) /\ (~byNote => order.refunded = 0)
      /\ (byNote /\ ~refundNow => order.refunded > 0)
      /\ (step = "commit" => ~refundNow) /\ (~refundNow => step = "commit")
  BY <1>3
<1> HIDE DEF refundNow, byNote, keep, step
<1>6. job'[s].refundNow = refundNow /\ job'[s].byNote = byNote /\ job'[s].step = step
  BY <1>4
<1> QED
  BY <1>2, <1>3, <1>5, <1>6 DEF KnowsRefunds, Working

\* A cancellation commits: the invoice is cancelled, or its refunds are credited.
LEMMA SaleCancel ==
    ASSUME Uses \cap {"overlap", "refundCancelled", "cancelDuringRefund"} = {},
           SaleInv, NEW s \in Staff, Request(s), Cancel(s)
    PROVE  Reversed' /\ SaleUndoneOnce'
<1>1. JobsOK /\ Typed /\ BooksInv /\ Alone /\ Reversed /\ SaleUndoneOnce
  BY TypeIs DEF SaleInv, BooksInv
<1>2. job[s] \in CancelJob /\ job[s].op = "cancel" /\ job[s].step = "commit"
  BY <1>1, WorkerIs DEF Cancel, At, RefundJob, CancelJob
<1>3. UNCHANGED <<link, refund, tab, crashes>>
  BY DEF Cancel
<1>4. \A other \in Staff \ {s} : job[other] = Idle /\ job'[other] = Idle
  BY <1>1, <1>2, OthersStay DEF Alone
<1>5. CASE Finish(s) /\ UNCHANGED <<order, invoice, held, kept>>
  <2>1. job'[s] = Idle
    BY <1>1, <1>5, Finished
  <2> QED
    BY <1>3, <1>4, <1>5, <2>1, SaleStays DEF Idle
<1>6. CASE /\ order.status \notin {"delivered", "cancelled"}
           /\ order' = [order EXCEPT !.status = "cancelled"]
           /\ held' = StockAfter(s)
           /\ invoice' = [invoice EXCEPT !.cancelled = @ \/ CancelsInvoice(s)]
           /\ Step(s, "closeLinks")
  <2>1. KnowsRefunds(s) /\ ~invoice.cancelled
    BY <1>1, <1>2, <1>6 DEF Reversed, Alone
  <2>2. /\ job'[s].op = "cancel" /\ job'[s].step = "closeLinks"
        /\ job'[s].refundNow = job[s].refundNow /\ job'[s].byNote = job[s].byNote
    BY <1>1, <1>2, <1>6, StepTaken
  <2>3. order'.status = "cancelled"
    BY <1>1, <1>6 DEF Typed, OrderType
  <2>4. invoice'.credit = invoice.credit /\ (invoice'.cancelled <=> ~job[s].byNote)
    <3> DEFINE b == invoice.cancelled \/ CancelsInvoice(s)
    <3>1. invoice \in InvoiceType /\ invoice' = [invoice EXCEPT !.cancelled = b]
      BY <1>1, <1>6 DEF Typed
    <3>2. b <=> ~job[s].byNote
      BY <2>1 DEF CancelsInvoice
    <3> HIDE DEF b
    <3>3. invoice'.cancelled = b /\ invoice'.credit = invoice.credit
      BY <3>1 DEF InvoiceType
    <3> QED
      BY <3>2, <3>3
  <2>5. job[s].byNote => invoice.credit # 0
    <3>1. CASE job[s].byNote /\ job[s].refundNow
      <4>1. refund["cancel"].state = "processed"
        BY <1>2, <2>1, <3>1 DEF KnowsRefunds
      <4>2. refund["cancel"].noted
        BY <1>1, <4>1, RowIs, KeysAre DEF RowInOrder
      <4> QED
        BY <1>1, <4>2, CreditIs, KeysAre
    <3>2. CASE job[s].byNote /\ ~job[s].refundNow
      <4>1. order.refunded > 0
        BY <1>2, <2>1, <3>2 DEF KnowsRefunds
      <4> QED
        BY <1>1, <4>1, CreditIs
    <3> QED
      BY <3>1, <3>2
  <2>6. ~job[s].byNote => invoice.credit = 0
    BY <1>2, <2>1 DEF KnowsRefunds
  <2>7. ~held'
    <3>1. CASE ~job[s].byNote
      BY <1>6, <2>1, <3>1 DEF StockAfter, CancelsInvoice
    <3>2. CASE job[s].byNote /\ job[s].refundNow
      <4>1. refund["cancel"].state = "processed"
        BY <1>2, <2>1, <3>2 DEF KnowsRefunds
      <4>2. ~held
        BY <1>1, <4>1 DEF Reversed
      <4> QED
        BY <1>6, <3>2, <4>2 DEF StockAfter, CancelsInvoice
    <3>3. CASE job[s].byNote /\ ~job[s].refundNow
      BY <1>6, <2>1, <3>3 DEF StockAfter, CancelsInvoice, Restocked
    <3> QED
      BY <3>1, <3>2, <3>3
  <2>8. SaleUndoneOnce'
    BY <2>3, <2>4, <2>5, <2>6, <2>7 DEF SaleUndoneOnce
  <2>9. KnowsRefunds(s)'
    BY <2>1, <2>2 DEF KnowsRefunds, Working
  <2>10. \A t \in Staff : job'[t].op = "cancel" => KnowsRefunds(t)'
    BY <1>4, <2>9 DEF Idle
  <2>11. \A t \in Staff : job'[t].op # "refund"
    BY <1>4, <2>2 DEF Idle
  <2> QED
    BY <2>7, <2>8, <2>10, <2>11 DEF Reversed
<1> QED
  BY <1>5, <1>6 DEF Cancel

LEMMA SaleStep ==
    ASSUME Uses \cap {"overlap", "refundCancelled", "cancelDuringRefund"} = {},
           SaleInv, [Next]_vars
    PROVE  SaleInv'
<1>1. JobsOK /\ Typed /\ BooksInv /\ Alone /\ Reversed /\ SaleUndoneOnce /\ "overlap" \notin Uses
  BY TypeIs DEF SaleInv, BooksInv
<1>2. BooksInv' /\ Alone'
  BY <1>1, BooksStep, AloneStep
<1> SUFFICES Reversed' /\ SaleUndoneOnce'
  BY <1>2 DEF SaleInv
<1>3. CASE Shopper \/ Razorpay \/ \E amount \in Cash : PayByHand(amount)
  <2>1. /\ UNCHANGED <<held, refund, job>>
        /\ order'.status = order.status /\ order'.refunded = order.refunded
        /\ invoice'.cancelled = invoice.cancelled /\ invoice'.credit = invoice.credit
    BY <1>1, <1>3, OutsideStays
  <2> QED
    BY <2>1, SaleStays
<1>4. ASSUME NEW s \in Staff, Request(s) PROVE Reversed' /\ SaleUndoneOnce'
  <2>1. \A other \in Staff \ {s} : job'[other] = job[other]
    BY <1>1, <1>4, OthersStay
  <2>2. CASE Cancel(s)
    BY <1>4, <2>2, SaleCancel
  <2>3. CASE CarryOn(s) \/ Claim(s) \/ AskRazorpay(s) \/ MakeNote(s) \/ Settle(s)
    BY <1>4, <2>3, SaleRefunds
  <2>4. CASE Move(s)
    <3>1. job[s] \in MoveJob /\ order.status # "cancelled" /\ ~invoice.cancelled
      BY <1>1, <2>4 DEF Move, JobsOK, Idle, RefundJob, CancelJob, Alone
    <3>2. order \in OrderType /\ order' = [order EXCEPT !.status = job[s].to]
          /\ job[s].to # "cancelled"
      BY <1>1, <2>4, <3>1 DEF Typed, Move, MoveJob
    <3>3. invoice \in InvoiceType /\ invoice' \in {invoice, [invoice EXCEPT !.cancelled = FALSE]}
      BY <1>1, <2>4 DEF Typed, Move
    <3>4. order'.status # "cancelled" /\ order'.refunded = order.refunded
      BY <3>2 DEF OrderType
    <3>5. ~invoice'.cancelled /\ invoice'.credit = invoice.credit
      BY <3>1, <3>3 DEF InvoiceType
    <3>6. UNCHANGED <<held, refund>> /\ job'[s] = Idle
      BY <1>1, <2>4 DEF Move, JobsOK
    <3>7. \A t \in Staff : job'[t].op = "cancel" => KnowsRefunds(t)'
      <4> SUFFICES ASSUME NEW t \in Staff, job'[t].op = "cancel" PROVE KnowsRefunds(t)'
        OBVIOUS
      <4>1. job'[t] = job[t]
        BY <2>1, <3>6 DEF Idle
      <4> QED
        BY <1>1, <3>4, <3>5, <3>6, <4>1 DEF Reversed, KnowsRefunds
    <3>8. SaleUndoneOnce'
      BY <1>1, <3>1, <3>4, <3>6 DEF SaleUndoneOnce
    <3> QED
      BY <1>1, <3>5, <3>6, <3>7, <3>8 DEF Reversed
  <2>5. CASE \/ \E to \in {"confirmed", "preparing", "delivered"} : ReadToMove(s, to)
             \/ \E amount \in 1 .. Total : AskRefund(s, amount)
             \/ Replay(s) \/ RefuseRefund(s)
             \/ \E choice \in {"unsaid", "full", "none"} : ReadToCancel(s, choice)
             \/ CloseLinks(s) \/ Crash(s)
    <3>1. UNCHANGED <<order, invoice, held, refund>>
      BY <2>5 DEF ReadToMove, AskRefund, Replay, RefuseRefund, ReadToCancel, CloseLinks, Crash
    <3>2. \/ job'[s].op \notin {"refund", "cancel"}
          \/ job'[s].op = "refund" /\ ~invoice.cancelled
          \/ job'[s].op = "cancel" /\ KnowsRefunds(s)'
      <4>1. CASE \E to \in {"confirmed", "preparing", "delivered"} : ReadToMove(s, to)
        BY <1>1, <4>1 DEF ReadToMove, JobsOK
      <4>2. CASE \E amount \in 1 .. Total : AskRefund(s, amount)
        <5>1. ~invoice.cancelled
          BY <4>2 DEF AskRefund
        <5>2. job'[s].op = "refund"
          BY <1>1, <4>2 DEF AskRefund, JobsOK
        <5> QED
          BY <5>1, <5>2
      <4>3. CASE \E choice \in {"unsaid", "full", "none"} : ReadToCancel(s, choice)
        <5>1. job'[s].op = "cancel"
          BY <1>1, <4>3 DEF ReadToCancel, JobsOK
        <5>2. KnowsRefunds(s)'
          BY <4>3, SaleReadToCancel
        <5> QED
          BY <5>1, <5>2
      <4>4. CASE Finish(s)
        BY <1>1, <4>4, Finished DEF Idle
      <4>5. CASE Replay(s) /\ job[s].op = "cancel" /\ Step(s, "commit")
        <5>1. job[s].step = "claim" /\ job[s].key = "cancel"
          BY <1>1, <4>5, WorkerIs DEF Replay, At
        <5>2. refund["cancel"].state = "processed"
          BY <4>5, <5>1 DEF Replay
        <5>3. job[s].refundNow /\ job[s].byNote
          BY <4>5, <5>1, CancelAtRefund
        <5>4. /\ job'[s].op = "cancel" /\ job'[s].step = "commit"
              /\ job'[s].refundNow = job[s].refundNow /\ job'[s].byNote = job[s].byNote
          BY <1>1, <4>5, StepTaken
        <5> QED
          BY <3>1, <5>2, <5>3, <5>4 DEF KnowsRefunds
      <4>6. CASE Replay(s) \/ RefuseRefund(s) \/ CloseLinks(s) \/ Crash(s)
        BY <4>4, <4>5, <4>6 DEF Replay, RefuseRefund, CloseLinks, Crash
      <4> QED
        BY <2>5, <4>1, <4>2, <4>3, <4>6
    <3> QED
      BY <2>1, <3>1, <3>2, SaleStays
  <2> QED
    BY <1>4, <2>2, <2>3, <2>4, <2>5, RequestIs, Zenon
<1>5. CASE UNCHANGED vars
  BY <1>5, SaleStays DEF vars
<1> QED
  BY <1>3, <1>4, <1>5 DEF Next

LEMMA JobsAtFirst == Init => Alone /\ \A s \in Staff : job[s].op = "none"
BY DEF Init, Idle, Alone

\* As long as no other request of the staff runs during a cancellation, none is sent
\* while a refund is pending, and no refund is sent once the invoice is cancelled, a
\* cancelled order has its sale undone once: its invoice cancelled, or its refunds
\* credited, and its stock back, and no order loses its stock otherwise.
THEOREM CancelledIsUndoneOnce ==
    ASSUME Uses \cap {"overlap", "refundCancelled", "cancelDuringRefund"} = {}
    PROVE  Spec => []SaleUndoneOnce
<1>1. Init => SaleInv
  <2> SUFFICES ASSUME Init PROVE SaleInv
    OBVIOUS
  <2>1. refund["cancel"].state = "none" /\ order.status # "cancelled" /\ held
    BY KeysAre DEF Init, NoRefund
  <2> QED
    BY <2>1, BooksInit, JobsAtFirst DEF SaleInv, Reversed, SaleUndoneOnce
<1>2. SaleInv /\ [Next]_vars => SaleInv'
  BY SaleStep
<1>3. SaleInv => SaleUndoneOnce
  BY DEF SaleInv
<1> QED
  BY <1>1, <1>2, <1>3, PTL DEF Spec

-----------------------------------------------------------------------------
(* The shopper's money is answered for.                                    *)

LEMMA MovedOfIs ==
    ASSUME BooksInv, NEW k \in Keys, NEW l \in Links
    PROVE  /\ MovedOf(refund[k], l) \in Nat
           /\ refund[k].state = "none" => MovedOf(refund[k], l) = 0
<1>1. refund[k] \in RowType /\ RowInOrder(refund[k]) /\ Total \in Nat
  BY RowIs, OrderAssumption
<1>2. refund[k].amount \in Nat
  BY <1>1 DEF RowType
<1>3. refund[k].state = "none" => ~refund[k].moved
  BY <1>1 DEF RowInOrder, NoRefund
<1> QED
  BY <1>2, <1>3 DEF MovedOf

\* What Razorpay has left of a link is what it was paid less what it sent back.
LEMMA RoomIs ==
    ASSUME BooksInv, NEW k \in Keys, refund[k].of \in Links
    PROVE  RoomAtRazorpay(k) = link[refund[k].of].amount - Moved(refund[k].of)
<1> DEFINE l == refund[k].of
           f == [m \in Keys |-> IF refund[m].of = l /\ refund[m].moved THEN refund[m].amount ELSE 0]
<1>1. \A m \in Keys : f[m] = MovedOf(refund[m], l) /\ f[m] \in Nat
  <2> SUFFICES ASSUME NEW m \in Keys PROVE f[m] = MovedOf(refund[m], l) /\ f[m] \in Nat
    OBVIOUS
  <2>1. f[m] = MovedOf(refund[m], l)
    BY DEF MovedOf
  <2> QED
    BY <2>1, MovedOfIs
<1>2. f \in [Keys -> Nat]
  BY <1>1
<1>3. TotalOf(f) = f["cancel"] + f["byHand"]
  BY <1>2, TotalOfKeys
<1>4. RoomAtRazorpay(k) = link[l].amount - TotalOf(f)
  BY DEF RoomAtRazorpay
<1> HIDE DEF f, l
<1>5. f["cancel"] = MovedOf(refund["cancel"], l) /\ f["byHand"] = MovedOf(refund["byHand"], l)
  BY <1>1, KeysAre
<1>6. TotalOf(f) = Moved(l)
  BY <1>3, <1>5 DEF Moved
<1> QED
  BY <1>4, <1>6 DEF l

\* The sums that what is refundable is made of.
LEMMA RefundableTerms ==
    ASSUME BooksInv
    PROVE  LET received == [l \in Links |-> Received(l)]
               claimed  == [k \in Keys |-> IF Claims(k) THEN refund[k].amount ELSE 0]
           IN  /\ received \in [Links -> Nat] /\ TotalOf(received) \in Nat
               /\ claimed \in [Keys -> Nat] /\ TotalOf(claimed) \in Nat
               /\ TotalOf(claimed) = claimed["cancel"] + claimed["byHand"]
               /\ \A l \in Links : Received(l) <= TotalOf(received)
<1> DEFINE received == [l \in Links |-> Received(l)]
           claimed == [k \in Keys |-> IF Claims(k) THEN refund[k].amount ELSE 0]
<1>1. Typed /\ Total \in Nat /\ IsFiniteSet(Links)
  BY TypeIs, OrderAssumption DEF BooksInv
<1>2. \A l \in Links : Received(l) \in Nat
  <2> TAKE l \in Links
  <2>1. Received(l) \in 0 .. Total
    BY LeftIs
  <2> QED
    BY <1>1, <2>1
<1>3. received \in [Links -> Nat]
  BY <1>2
<1>4. \A k \in Keys : refund[k].amount \in Nat
  BY <1>1 DEF Typed, RowType
<1>5. claimed \in [Keys -> Nat]
  BY <1>4
<1>6. TotalOf(claimed) = claimed["cancel"] + claimed["byHand"]
  BY <1>5, TotalOfKeys
<1>7. TotalOf(received) \in Nat /\ \A l \in Links : received[l] <= TotalOf(received)
  BY <1>1, <1>3, TermWithinTotal, TotalIsNat
<1>8. TotalOf(claimed) \in Nat
  BY <1>5, KeysAre, TotalIsNat
<1>9. \A l \in Links : Received(l) <= TotalOf(received)
  BY <1>7
<1> QED
  BY <1>3, <1>5, <1>6, <1>7, <1>8, <1>9

\* If nothing is refundable, what was processed covers all that was received.
LEMMA NothingRefundable ==
    ASSUME BooksInv, Refundable = 0, \A k \in Keys : refund[k].state # "pending",
           NEW l \in Links
    PROVE  Received(l) <= ProcessedOf(refund["cancel"]) + ProcessedOf(refund["byHand"])
<1> DEFINE g == [m \in Links |-> Received(m)]
           f == [k \in Keys |-> IF Claims(k) THEN refund[k].amount ELSE 0]
<1>1. /\ TotalOf(g) \in Nat /\ TotalOf(f) \in Nat
      /\ TotalOf(f) = f["cancel"] + f["byHand"] /\ Received(l) <= TotalOf(g)
  BY RefundableTerms
<1>2. \A k \in Keys : f[k] = ProcessedOf(refund[k])
  BY DEF ProcessedOf, Claims
<1>3. Refundable = Greater(TotalOf(g) - TotalOf(f), 0)
  BY DEF Refundable
<1> HIDE DEF f, g
<1>4. TotalOf(g) <= TotalOf(f)
  BY <1>1, <1>3 DEF Greater
<1>5. Received(l) \in 0 .. Total /\ Total \in Nat
  BY LeftIs, OrderAssumption
<1>6. f["cancel"] = ProcessedOf(refund["cancel"]) /\ f["byHand"] = ProcessedOf(refund["byHand"])
  BY <1>2, KeysAre
<1> QED
  BY <1>1, <1>4, <1>5, <1>6

\* An order that is unpaid has no refunds.
LEMMA NothingYet ==
    ASSUME MoneyInv, order.pay = "unpaid"
    PROVE  /\ \A k \in Keys : refund[k].state = "none"
           /\ order.refunded = 0
           /\ Unsettled(refund["cancel"]) = 0 /\ Unsettled(refund["byHand"]) = 0
           /\ AllSentBack
<1>1. BooksInv /\ PaidAtOnce /\ SentBack
  BY DEF MoneyInv
<1>2. \A k \in Keys : refund[k].state = "none"
  <2> SUFFICES ASSUME NEW k \in Keys, refund[k].state # "none" PROVE FALSE
    OBVIOUS
  <2>1. link[refund[k].of].recorded
    BY <1>1 DEF SentBack
  <2>2. refund[k].of \in Links
    BY <1>1, RowIs DEF RowInOrder
  <2> QED
    BY <1>1, <2>1, <2>2 DEF PaidAtOnce
<1>3. \A k \in Keys : ~refund[k].noted /\ ProcessedOf(refund[k]) = 0
  <2> SUFFICES ASSUME NEW k \in Keys PROVE ~refund[k].noted /\ ProcessedOf(refund[k]) = 0
    OBVIOUS
  <2>1. refund[k] = NoRefund
    BY <1>1, <1>2, RowIs DEF RowInOrder
  <2> QED
    BY <2>1 DEF NoRefund, ProcessedOf
<1>4. order.refunded = 0
  BY <1>1, <1>3, KeysAre DEF BooksInv, SumsInOrder
<1>5. Unsettled(refund["cancel"]) = 0 /\ Unsettled(refund["byHand"]) = 0
  BY <1>3, KeysAre DEF Unsettled, NotedOf
<1>6. AllSentBack
  <2> SUFFICES ASSUME NEW l \in Links PROVE Received(l) = Moved(l)
    BY DEF AllSentBack
  <2>1. Received(l) = 0
    BY <1>1 DEF PaidAtOnce, Received
  <2>2. MovedOf(refund["cancel"], l) = 0 /\ MovedOf(refund["byHand"], l) = 0
    BY <1>1, <1>2, MovedOfIs, KeysAre
  <2> QED
    BY <2>1, <2>2 DEF Moved
<1> QED
  BY <1>2, <1>4, <1>5, <1>6

\* Nothing is sent back of what was not received.
LEMMA NothingOfUnpaid ==
    ASSUME BooksInv, SentBack, NEW l \in Links, ~link[l].recorded
    PROVE  \A k \in Keys : MovedOf(refund[k], l) = 0
<1> SUFFICES ASSUME NEW k \in Keys, refund[k].state # "none" PROVE MovedOf(refund[k], l) = 0
  BY MovedOfIs
<1>1. link[refund[k].of].recorded
  BY DEF SentBack
<1>2. refund[k].of # l
  BY <1>1
<1> QED
  BY <1>2 DEF MovedOf

\* What was sent back of a refund.
SentOf(r) == IF r.moved THEN r.amount ELSE 0

LEMMA SentOfIs ==
    ASSUME BooksInv, NEW k \in Keys
    PROVE  SentOf(refund[k]) \in Nat /\ ProcessedOf(refund[k]) <= SentOf(refund[k])
<1>1. refund[k] \in RowType /\ RowInOrder(refund[k]) /\ Total \in Nat
  BY RowIs, OrderAssumption
<1>2. refund[k].amount \in Nat
  BY <1>1 DEF RowType
<1>3. refund[k].state = "processed" => refund[k].moved
  BY <1>1 DEF RowInOrder
<1> QED
  BY <1>2, <1>3 DEF SentOf, ProcessedOf

\* Refunds that cover what was received have sent all of it back, and no more.
LEMMA SentAll ==
    ASSUME MoneyInv,
           \A l \in Links :
              Received(l) <= SentOf(refund["cancel"]) + SentOf(refund["byHand"])
    PROVE  AllSentBack
<1>1. BooksInv /\ PaidAtOnce /\ SentBack /\ Typed /\ Total \in Nat
  BY TypeIs, OrderAssumption DEF MoneyInv, BooksInv
<1> SUFFICES ASSUME NEW l \in Links PROVE Received(l) = Moved(l)
  BY DEF AllSentBack
<1>2. link[l].amount \in Nat /\ link[l].recorded \in BOOLEAN
  BY <1>1 DEF Typed, LinkType
<1>3. \A k \in Keys : /\ MovedOf(refund[k], l) \in Nat
                      /\ refund[k].state = "none" => MovedOf(refund[k], l) = 0
  BY <1>1, MovedOfIs
<1>4. CASE link[l].recorded
  <2>1. \A k \in Keys : SentOf(refund[k]) <= MovedOf(refund[k], l)
    <3> SUFFICES ASSUME NEW k \in Keys, refund[k].moved
                 PROVE  SentOf(refund[k]) <= MovedOf(refund[k], l)
      BY <1>3 DEF SentOf
    <3>1. RowInOrder(refund[k]) /\ refund[k].amount \in Nat
      BY <1>1, RowIs DEF RowType
    <3>2. refund[k].state # "none" /\ refund[k].of \in Links
      BY <3>1 DEF RowInOrder, NoRefund
    <3>3. link[refund[k].of].recorded
      BY <1>1, <3>2 DEF SentBack
    <3>4. refund[k].of = l
      BY <1>1, <1>4, <3>2, <3>3 DEF PaidAtOnce
    <3> QED
      BY <3>1, <3>4 DEF SentOf, MovedOf
  <2>2. Received(l) = link[l].amount
    BY <1>4 DEF Received
  <2>3. Moved(l) <= link[l].amount
    BY <1>1 DEF SentBack
  <2>4. SentOf(refund["cancel"]) \in Nat /\ SentOf(refund["byHand"]) \in Nat
    BY <1>1, SentOfIs, KeysAre
  <2>5. SentOf(refund["cancel"]) <= MovedOf(refund["cancel"], l)
        /\ SentOf(refund["byHand"]) <= MovedOf(refund["byHand"], l)
        /\ MovedOf(refund["cancel"], l) \in Nat /\ MovedOf(refund["byHand"], l) \in Nat
    BY <1>3, <2>1, KeysAre
  <2> QED
    BY <1>2, <2>2, <2>3, <2>4, <2>5 DEF Moved
<1>5. CASE ~link[l].recorded
  <2>1. \A k \in Keys : MovedOf(refund[k], l) = 0
    BY <1>1, <1>5, NothingOfUnpaid
  <2> QED
    BY <1>5, <2>1, KeysAre DEF Received, Moved
<1> QED
  BY <1>4, <1>5

\* Closing a link changes neither its amount nor what was received through it.
LEMMA ClosedKeeps ==
    ASSUME TypeOK, NEW lost, NEW l \in Links
    PROVE  LET new == Closed(lost)[l]
           IN  /\ new.amount = link[l].amount /\ new.recorded = link[l].recorded
               /\ new.rzp # "none" => link[l].rzp # "none"
<1> DEFINE old == link[l]
           closed == [old EXCEPT !.row = "cancelled",
                                 !.rzp = IF old.rzp = "open" THEN "closed" ELSE old.rzp]
           inBooks == [old EXCEPT !.row = "cancelled"]
<1>1. old \in LinkType
  BY TypeIs DEF Typed
<1>2. Closed(lost)[l] \in {closed, inBooks, old}
  BY DEF Closed, CloseLink
<1> HIDE DEF old
<1>3. closed.amount = old.amount /\ closed.recorded = old.recorded
      /\ (closed.rzp # "none" => old.rzp # "none")
  BY <1>1 DEF LinkType
<1>4. inBooks.amount = old.amount /\ inBooks.recorded = old.recorded /\ inBooks.rzp = old.rzp
  BY <1>1 DEF LinkType
<1> HIDE DEF closed, inBooks
<1>5. Closed(lost)[l].amount = old.amount /\ Closed(lost)[l].recorded = old.recorded
      /\ (Closed(lost)[l].rzp # "none" => old.rzp # "none")
  BY <1>2, <1>3, <1>4
<1> QED
  BY <1>5 DEF old

\* The more is paid or credited, the less is due.
LEMMA BalanceFalls ==
    ASSUME Typed, invoice' \in InvoiceType,
           invoice.paid + invoice.credit <= invoice'.paid + invoice'.credit
    PROVE  Balance \in Nat /\ Balance' \in Nat /\ Balance' <= Balance
<1>1. Total \in Nat /\ invoice.paid \in Nat /\ invoice.credit \in Nat
      /\ invoice'.paid \in Nat /\ invoice'.credit \in Nat
  BY OrderAssumption DEF Typed, InvoiceType
<1> QED
  BY <1>1 DEF Balance, Greater

\* What a step that makes no link and records nothing keeps of the payments.
LEMMA PaidKept ==
    ASSUME MoneyInv, Typed', tab' = tab,
           order'.pay = "unpaid" =>
              order.pay = "unpaid" /\ invoice.paid + invoice.credit <= invoice'.paid + invoice'.credit,
           \A l \in Links : /\ link'[l].amount = link[l].amount
                            /\ link'[l].recorded = link[l].recorded
                            /\ link'[l].rzp # "none" => link[l].rzp # "none",
           order'.pay # "unpaid" =>
              invoice'.paid + invoice'.credit
                 >= Total + Unsettled(refund["cancel"])' + Unsettled(refund["byHand"])'
    PROVE  PaidAtOnce'
<1>1. Typed /\ TabsOK /\ PaidAtOnce /\ Total \in Nat
  BY TypeIs, OrderAssumption DEF MoneyInv, BooksInv
<1>2. invoice' \in InvoiceType
  BY DEF Typed
<1>3. order'.pay = "unpaid" =>
         order.pay = "unpaid" /\ Balance \in Nat /\ Balance' \in Nat /\ Balance' <= Balance
  BY <1>1, <1>2, BalanceFalls
<1>4. \A l \in Links : link[l].amount \in Nat
  BY <1>1 DEF Typed, LinkType
<1>5. \A t \in Tabs : tab[t].op = "link" => tab[t].amount \in Nat
  BY <1>1 DEF TabsOK, Idle
<1>6. \A l \in Links : link'[l].rzp # "none" =>
         link'[l].amount > 0 /\ (order'.pay = "unpaid" => link'[l].amount >= Balance')
  BY <1>1, <1>3, <1>4 DEF PaidAtOnce
<1>7. \A t \in Tabs : tab'[t].op = "link" /\ order'.pay = "unpaid" => tab'[t].amount >= Balance'
  BY <1>1, <1>3, <1>5 DEF PaidAtOnce
<1>8. order'.pay = "unpaid" => \A l \in Links : ~link'[l].recorded
  BY <1>1 DEF PaidAtOnce
<1>9. \A l, m \in Links : link'[l].recorded /\ link'[m].recorded => l = m
  BY <1>1 DEF PaidAtOnce
<1> QED
  BY <1>6, <1>7, <1>8, <1>9 DEF PaidAtOnce

\* What was sent back stays as it is, whatever is asked of other links.
LEMMA SentKept ==
    ASSUME MoneyInv, Typed', refund' = refund,
           \A l \in Links : /\ link'[l].recorded = link[l].recorded
                            /\ link[l].amount <= link'[l].amount
                            /\ link[l].recorded => link'[l].amount = link[l].amount
    PROVE  SentBack' /\ (AllSentBack' <=> AllSentBack)
<1>1. BooksInv /\ Typed /\ SentBack /\ Total \in Nat
  BY TypeIs, OrderAssumption DEF MoneyInv, BooksInv
<1>2. \A l \in Links : Received(l)' = Received(l)
  BY DEF Received
<1>3. \A l \in Links : Moved(l)' = Moved(l)
  BY DEF Moved, MovedOf
<1>4. \A k \in Keys : refund'[k].state # "none" => link'[refund'[k].of].recorded
  <2> SUFFICES ASSUME NEW k \in Keys, refund[k].state # "none"
               PROVE  link'[refund[k].of].recorded
    OBVIOUS
  <2>1. refund[k].of \in Links
    BY <1>1, RowIs DEF RowInOrder
  <2> QED
    BY <1>1, <2>1 DEF SentBack
<1>5. \A l \in Links : Moved(l)' <= link'[l].amount
  <2> TAKE l \in Links
  <2>1. Moved(l) <= link[l].amount /\ link'[l].amount \in Nat
    BY <1>1 DEF SentBack, Typed, LinkType
  <2>2. CASE link[l].recorded
    BY <1>3, <2>1, <2>2
  <2>3. CASE ~link[l].recorded
    <3>1. Moved(l) = 0
      BY <1>1, <2>3, NothingOfUnpaid, KeysAre DEF Moved
    <3> QED
      BY <1>3, <2>1, <3>1
  <2> QED
    BY <2>2, <2>3
<1>6. refund'["cancel"].state # "none" =>
         \A l \in Links :
            Received(l)' <= refund'["cancel"].amount + ProcessedOf(refund["byHand"])'
  BY <1>1, <1>2 DEF SentBack, ProcessedOf
<1>7. SentBack'
  BY <1>4, <1>5, <1>6 DEF SentBack
<1> QED
  BY <1>2, <1>3, <1>7 DEF AllSentBack

\* What the money depends on beside the payments stays as it is.
LEMMA AnswerKept ==
    ASSUME MoneyInv, Typed', UNCHANGED <<refund, job, kept>>,
           order'.pay = order.pay, order'.status = order.status,
           invoice'.cancelled = invoice.cancelled,
           \A l \in Links : /\ link'[l].recorded = link[l].recorded
                            /\ link[l].amount <= link'[l].amount
                            /\ link[l].recorded => link'[l].amount = link[l].amount
    PROVE  SentBack' /\ Answerable' /\ CancelledIsAnswered'
<1>1. SentBack' /\ (AllSentBack' <=> AllSentBack)
  BY SentKept
<1>2. Answerable'
  BY <1>1 DEF MoneyInv, Answerable, KnowsMoney
<1>3. CancelledIsAnswered'
  BY <1>1 DEF MoneyInv, CancelledIsAnswered
<1> QED
  BY <1>1, <1>2, <1>3

MoneyGoals == PaidAtOnce /\ SentBack /\ Answerable /\ CancelledIsAnswered

LEMMA MoneyShopper ==
    ASSUME MoneyInv, Typed', Shopper
    PROVE  MoneyGoals'
<1>1. Typed /\ TabsOK /\ PaidAtOnce /\ BooksInv /\ TypeOK /\ Total \in Nat
  BY TypeIs, OrderAssumption DEF MoneyInv, BooksInv
<1>2. PICK t \in Tabs : AskForLink(t) \/ ReuseLink(t) \/ MakeLink(t) \/ GiveUpLink(t)
  BY DEF Shopper
<1>3. UNCHANGED <<order, invoice, refund, job, kept>>
  BY <1>2 DEF AskForLink, ReuseLink, MakeLink, GiveUpLink
<1>4. Balance' = Balance /\ Unsettled(refund["cancel"])' = Unsettled(refund["cancel"])
      /\ Unsettled(refund["byHand"])' = Unsettled(refund["byHand"])
  BY <1>3 DEF Balance, Unsettled, NotedOf, ProcessedOf
<1>5. \A l \in Links : link[l].amount \in Nat
  BY <1>1 DEF Typed, LinkType
<1>6. CASE AskForLink(t) \/ ReuseLink(t) \/ GiveUpLink(t)
  <2>1. link' = link
    BY <1>6 DEF AskForLink, ReuseLink, GiveUpLink
  <2>2. SentBack' /\ Answerable' /\ CancelledIsAnswered'
    BY <1>3, <1>5, <2>1, AnswerKept
  <2>3. Balance \in Nat
    BY <1>1, BalanceIs
  <2>4. tab' = [tab EXCEPT ![t] = [op |-> "link", amount |-> Balance]] \/ tab' = [tab EXCEPT ![t] = Idle]
    BY <1>6 DEF AskForLink, ReuseLink, GiveUpLink
  <2>5. \A u \in Tabs : tab'[u].op = "link" => tab'[u] = tab[u] \/ tab'[u].amount = Balance
    BY <1>1, <2>4 DEF TabsOK, Idle
  <2>6. PaidAtOnce'
    BY <1>1, <1>3, <1>4, <2>1, <2>3, <2>5 DEF PaidAtOnce
  <2> QED
    BY <2>2, <2>6 DEF MoneyGoals
<1>7. CASE MakeLink(t)
  <2> DEFINE new == [NoLink EXCEPT !.row = "created", !.amount = tab[t].amount, !.rzp = "open"]
             bare == [new EXCEPT !.row = "none"]
  <2>1. PICK l \in Links, lost \in SUBSET MayBeLost :
           /\ link[l] = NoLink
           /\ \/ link' = [Closed(lost) EXCEPT ![l] = new]
              \/ link' = [link EXCEPT ![l] = bare]
    BY <1>7 DEF MakeLink
  <2>2. tab[t] \in [op: {"link"}, amount: 1 .. Total] /\ tab[t].op = "link"
    BY <1>1, <1>7 DEF MakeLink, TabsOK, Idle
  <2>3. tab[t].amount \in 1 .. Total
    BY <2>2
  <2>4. tab[t].amount \in 0 .. Total
    BY <1>1, <2>3
  <2>5. /\ new.amount = tab[t].amount /\ ~new.recorded
        /\ bare.amount = tab[t].amount /\ ~bare.recorded
    BY <2>4, NewLinkIs
  <2> HIDE DEF new, bare
  <2>6. Closed(lost) \in [Links -> LinkType] /\ link \in [Links -> LinkType]
    BY <1>1, ClosedType DEF Typed
  <2>7. link'[l].amount = tab[t].amount /\ ~link'[l].recorded
        /\ ~link[l].recorded /\ link[l].amount = 0
    BY <2>1, <2>5, <2>6 DEF NoLink
  <2>8. \A m \in Links \ {l} : /\ link'[m].amount = link[m].amount
                               /\ link'[m].recorded = link[m].recorded
                               /\ link'[m].rzp # "none" => link[m].rzp # "none"
    <3> TAKE m \in Links \ {l}
    <3>1. link'[m] = Closed(lost)[m] \/ link'[m] = link[m]
      BY <2>1, <2>6
    <3> QED
      BY <1>1, <3>1, ClosedKeeps
  <2>9. \A m \in Links : /\ link'[m].recorded = link[m].recorded
                         /\ link[m].amount <= link'[m].amount
                         /\ link[m].recorded => link'[m].amount = link[m].amount
    <3> TAKE m \in Links
    <3>1. link'[l].recorded = link[l].recorded
      BY <1>1, <2>7 DEF Typed, LinkType
    <3> QED
      BY <1>5, <2>3, <2>7, <2>8, <3>1
  <2>10. SentBack' /\ Answerable' /\ CancelledIsAnswered'
    BY <1>3, <2>9, AnswerKept
  <2>11. order.pay = "unpaid" => tab[t].amount >= Balance
    BY <1>1, <2>2 DEF PaidAtOnce
  <2>12. \A m \in Links : link'[m].rzp # "none" =>
            link'[m].amount > 0 /\ (order.pay = "unpaid" => link'[m].amount >= Balance)
    BY <1>1, <2>3, <2>7, <2>8, <2>11 DEF PaidAtOnce
  <2>13. \A u \in Tabs : tab'[u].op = "link" => tab'[u] = tab[u]
    BY <1>1, <1>7 DEF MakeLink, TabsOK, Idle
  <2>14. PaidAtOnce'
    <3>1. \A u \in Tabs : tab'[u].op = "link" /\ order'.pay = "unpaid" => tab'[u].amount >= Balance'
      BY <1>1, <1>3, <1>4, <2>13 DEF PaidAtOnce
    <3>2. order'.pay = "unpaid" => \A m \in Links : ~link'[m].recorded
      BY <1>1, <1>3, <2>9 DEF PaidAtOnce
    <3>3. \A m, n \in Links : link'[m].recorded /\ link'[n].recorded => m = n
      BY <1>1, <2>9 DEF PaidAtOnce
    <3>4. order'.pay # "unpaid" =>
             invoice'.paid + invoice'.credit
                >= Total + Unsettled(refund["cancel"])' + Unsettled(refund["byHand"])'
      BY <1>1, <1>3, <1>4 DEF PaidAtOnce
    <3>5. \A m \in Links : link'[m].rzp # "none" =>
             link'[m].amount > 0 /\ (order'.pay = "unpaid" => link'[m].amount >= Balance')
      BY <1>3, <1>4, <2>12
    <3> QED
      BY <3>1, <3>2, <3>3, <3>4, <3>5 DEF PaidAtOnce
  <2> QED
    BY <2>10, <2>14 DEF MoneyGoals
<1> QED
  BY <1>2, <1>6, <1>7

\* What is recorded pays the invoice in full, as nothing else was received.
LEMMA MoneyRecord ==
    ASSUME "advance" \notin Uses, "payDuringCancel" \notin Uses,
           MoneyInv, Typed', NEW l \in Links, Record(l)
    PROVE  MoneyGoals'
<1>1. Typed /\ TabsOK /\ PaidAtOnce /\ SentBack /\ Answerable /\ BooksInv /\ TypeOK
      /\ Total \in Nat
  BY TypeIs, OrderAssumption DEF MoneyInv, BooksInv
<1>2. /\ link[l].rzp = "paid" /\ ~link[l].recorded /\ ~invoice.cancelled
      /\ ~Cancelling /\ link[l].amount <= Balance
      /\ UNCHANGED <<refund, tab, job, kept>>
  BY DEF Record
<1>3. link[l].amount \in Nat /\ link[l].amount > 0 /\ Balance \in 0 .. Total
      /\ invoice.paid \in Nat /\ invoice.credit \in Nat
  BY <1>1, <1>2, BalanceIs DEF PaidAtOnce, Typed, LinkType, InvoiceType
<1>4. \A k \in Keys : Unsettled(refund[k]) \in Nat
  <2> TAKE k \in Keys
  <2> QED
    BY <1>1, SumsAre DEF Unsettled
<1>5. order.pay = "unpaid"
  <2> SUFFICES ASSUME order.pay # "unpaid" PROVE FALSE
    OBVIOUS
  <2>1. invoice.paid + invoice.credit
           >= Total + Unsettled(refund["cancel"]) + Unsettled(refund["byHand"])
    BY <1>1 DEF PaidAtOnce
  <2>2. Unsettled(refund["cancel"]) \in Nat /\ Unsettled(refund["byHand"]) \in Nat
    BY <1>4, KeysAre
  <2>3. invoice.paid + invoice.credit >= Total
    BY <1>1, <1>3, <2>1, <2>2
  <2>4. Balance = 0
    BY <1>1, <1>3, <2>3 DEF Balance, Greater
  <2> QED
    BY <1>2, <1>3, <2>4
<1>6. link[l].amount = Balance /\ Balance = Total - invoice.paid - invoice.credit
  <2>1. link[l].amount >= Balance
    BY <1>1, <1>2, <1>5 DEF PaidAtOnce
  <2>2. link[l].amount = Balance
    BY <1>2, <1>3, <2>1
  <2> QED
    BY <1>1, <1>3, <2>2 DEF Balance, Greater
<1>7. Lesser(link[l].amount, Balance) = Balance
  BY <1>3, <1>6 DEF Lesser
<1>8. /\ order' = [order EXCEPT !.pay = "paid"]
      /\ invoice' = [invoice EXCEPT !.paid = invoice.paid + Balance]
  BY <1>3, <1>5, <1>6, <1>7 DEF Record
<1>9. order'.pay = "paid" /\ order'.status = order.status
  BY <1>1, <1>8 DEF Typed, OrderType
<1>10. invoice'.paid = invoice.paid + Balance /\ invoice'.credit = invoice.credit
       /\ invoice'.cancelled = invoice.cancelled
  <2> DEFINE paid == invoice.paid + Balance
  <2>1. invoice \in InvoiceType /\ invoice' = [invoice EXCEPT !.paid = paid]
    BY <1>1, <1>8 DEF Typed
  <2> HIDE DEF paid
  <2>2. invoice'.paid = paid /\ invoice'.credit = invoice.credit
        /\ invoice'.cancelled = invoice.cancelled
    BY <2>1 DEF InvoiceType
  <2> QED
    BY <2>2 DEF paid
<1>11. /\ \A m \in Links \ {l} : link'[m] = link[m]
       /\ link'[l].amount = link[l].amount
  <2>1. PICK row : link' = [link EXCEPT ![l].recorded = TRUE, ![l].row = row]
    BY DEF Record
  <2> DEFINE old == link[l]
  <2>2. old \in LinkType /\ link \in [Links -> LinkType]
    BY <1>1 DEF Typed
  <2>3. link' = [link EXCEPT ![l] = [old EXCEPT !.recorded = TRUE, !.row = row]]
    BY <2>1, <2>2
  <2> HIDE DEF old
  <2>4. [old EXCEPT !.recorded = TRUE, !.row = row].amount = old.amount
    BY <2>2 DEF LinkType
  <2> QED
    BY <2>2, <2>3, <2>4 DEF old
<1>12. \A m \in Links : ~link[m].recorded
  BY <1>1, <1>5 DEF PaidAtOnce
<1>13. /\ \A k \in Keys : refund[k].state = "none"
       /\ Unsettled(refund["cancel"]) = 0 /\ Unsettled(refund["byHand"]) = 0
  BY <1>5, NothingYet
<1>14. PaidAtOnce'
  <2>1. \A m \in Links : link'[m].rzp # "none" => link'[m].amount > 0
    <3> SUFFICES ASSUME NEW m \in Links, link'[m].rzp # "none" PROVE link'[m].amount > 0
      OBVIOUS
    <3>1. CASE m = l
      BY <1>3, <1>11, <3>1
    <3>2. CASE m # l
      BY <1>1, <1>11, <3>2 DEF PaidAtOnce
    <3> QED
      BY <3>1, <3>2
  <2>2. \A m, n \in Links : link'[m].recorded /\ link'[n].recorded => m = n
    BY <1>11, <1>12
  <2>3. Unsettled(refund["cancel"])' = 0 /\ Unsettled(refund["byHand"])' = 0
    BY <1>2, <1>13 DEF Unsettled, NotedOf, ProcessedOf
  <2>4. invoice'.paid + invoice'.credit >= Total
    BY <1>1, <1>3, <1>6, <1>10
  <2> QED
    BY <1>1, <1>9, <2>1, <2>2, <2>3, <2>4 DEF PaidAtOnce
<1>15. SentBack'
  <2>1. \A m \in Links : Moved(m)' <= link'[m].amount
    <3> TAKE m \in Links
    <3>1. Moved(m)' = Moved(m)
      BY <1>2 DEF Moved, MovedOf
    <3>2. link'[m].amount = link[m].amount
      BY <1>11
    <3> QED
      BY <1>1, <3>1, <3>2 DEF SentBack
  <2> QED
    BY <1>2, <1>13, <2>1, KeysAre DEF SentBack
<1>16. Answerable'
  BY <1>2, <1>9 DEF Answerable, Cancelling
<1>17. CancelledIsAnswered'
  <2>1. order.status # "cancelled"
    BY <1>1, <1>2, <1>5 DEF Answerable
  <2> QED
    BY <1>9, <2>1 DEF CancelledIsAnswered
<1> QED
  BY <1>14, <1>15, <1>16, <1>17 DEF MoneyGoals

LEMMA MoneyRazorpay ==
    ASSUME "advance" \notin Uses, "payDuringCancel" \notin Uses,
           MoneyInv, Typed', Razorpay
    PROVE  MoneyGoals'
<1>1. Typed /\ PaidAtOnce
  BY TypeIs DEF MoneyInv, BooksInv
<1>2. PICK l \in Links : Expire(l) \/ NoticeClosed(l) \/ Pay(l) \/ Record(l)
  BY DEF Razorpay
<1>3. CASE Record(l)
  BY <1>3, MoneyRecord
<1>4. CASE Expire(l) \/ NoticeClosed(l) \/ Pay(l)
  <2> DEFINE old == link[l]
  <2>1. old \in LinkType /\ link \in [Links -> LinkType] /\ old.rzp # "none"
    BY <1>1, <1>4 DEF Typed, Expire, NoticeClosed, Pay
  <2>2. \/ link' = [link EXCEPT ![l] = [old EXCEPT !.rzp = "closed"]]
        \/ link' = [link EXCEPT ![l] = [old EXCEPT !.row = "expired"]]
        \/ link' = [link EXCEPT ![l] = [old EXCEPT !.rzp = "paid"]]
    BY <1>4, <2>1 DEF Expire, NoticeClosed, Pay
  <2>3. UNCHANGED <<order, invoice, refund, tab, job, kept>>
    BY <1>4 DEF Expire, NoticeClosed, Pay
  <2> HIDE DEF old
  <2>4. /\ [old EXCEPT !.rzp = "closed"].amount = old.amount
        /\ [old EXCEPT !.rzp = "closed"].recorded = old.recorded
        /\ [old EXCEPT !.row = "expired"].amount = old.amount
        /\ [old EXCEPT !.row = "expired"].recorded = old.recorded
        /\ [old EXCEPT !.rzp = "paid"].amount = old.amount
        /\ [old EXCEPT !.rzp = "paid"].recorded = old.recorded
    BY <2>1 DEF LinkType
  <2>5. \A m \in Links : /\ link'[m].amount = link[m].amount
                         /\ link'[m].recorded = link[m].recorded
                         /\ link'[m].rzp # "none" => link[m].rzp # "none"
    <3> TAKE m \in Links
    <3>1. CASE m = l
      BY <2>1, <2>2, <2>4, <3>1 DEF old
    <3>2. CASE m # l
      BY <2>1, <2>2, <3>2
    <3> QED
      BY <3>1, <3>2
  <2>6. \A m \in Links : link[m].amount \in Nat
    BY <1>1, OrderAssumption DEF Typed, LinkType
  <2>7. SentBack' /\ Answerable' /\ CancelledIsAnswered'
    BY <2>3, <2>5, <2>6, AnswerKept
  <2>8. invoice.paid + invoice.credit <= invoice.paid + invoice.credit
    BY <1>1, OrderAssumption DEF Typed, InvoiceType
  <2>9. order.pay # "unpaid" =>
           invoice'.paid + invoice'.credit
              >= Total + Unsettled(refund["cancel"])' + Unsettled(refund["byHand"])'
    BY <1>1, <2>3 DEF PaidAtOnce, Unsettled, NotedOf, ProcessedOf
  <2>10. PaidAtOnce'
    BY <2>3, <2>5, <2>8, <2>9, PaidKept
  <2> QED
    BY <2>7, <2>10 DEF MoneyGoals
<1> QED
  BY <1>2, <1>3, <1>4

LEMMA MoneyByHand ==
    ASSUME MoneyInv, Typed', NEW amount \in Cash, PayByHand(amount)
    PROVE  MoneyGoals'
<1>1. Typed /\ PaidAtOnce /\ Total \in Nat /\ amount \in 1 .. Total /\ BooksInv
  BY TypeIs, OrderAssumption DEF MoneyInv, BooksInv
<1> DEFINE paid == invoice.paid + amount
<1>2. /\ UNCHANGED <<order, link, refund, tab, job, kept>>
      /\ invoice' = [invoice EXCEPT !.paid = paid]
  BY DEF PayByHand
<1>3. invoice \in InvoiceType /\ invoice.paid \in Nat /\ invoice.credit \in Nat
  BY <1>1 DEF Typed, InvoiceType
<1>4. invoice'.paid = paid /\ invoice'.credit = invoice.credit
      /\ invoice'.cancelled = invoice.cancelled
  <2> HIDE DEF paid
  <2> QED
    BY <1>2, <1>3 DEF InvoiceType
<1>5. invoice.paid + invoice.credit <= invoice'.paid + invoice'.credit
  BY <1>1, <1>3, <1>4
<1>6. \A m \in Links : link[m].amount \in Nat
  BY <1>1 DEF Typed, LinkType
<1>7. SentBack' /\ Answerable' /\ CancelledIsAnswered'
  BY <1>2, <1>4, <1>6, AnswerKept
<1>8. order.pay # "unpaid" =>
         invoice'.paid + invoice'.credit
            >= Total + Unsettled(refund["cancel"])' + Unsettled(refund["byHand"])'
  <2> SUFFICES ASSUME order.pay # "unpaid"
               PROVE  invoice'.paid + invoice'.credit
                         >= Total + Unsettled(refund["cancel"])' + Unsettled(refund["byHand"])'
    OBVIOUS
  <2>1. invoice.paid + invoice.credit
           >= Total + Unsettled(refund["cancel"]) + Unsettled(refund["byHand"])
    BY <1>1 DEF PaidAtOnce
  <2>2. Unsettled(refund["cancel"])' = Unsettled(refund["cancel"])
        /\ Unsettled(refund["byHand"])' = Unsettled(refund["byHand"])
    BY <1>2 DEF Unsettled, NotedOf, ProcessedOf
  <2>3. Unsettled(refund["cancel"]) \in Int /\ Unsettled(refund["byHand"]) \in Int
    BY <1>1, SumsAre, KeysAre DEF Unsettled
  <2> QED
    BY <1>1, <1>3, <1>4, <2>1, <2>2, <2>3
<1>9. PaidAtOnce'
  BY <1>2, <1>5, <1>8, PaidKept
<1> QED
  BY <1>7, <1>9 DEF MoneyGoals

\* Refunds that were processed sent back all there was.
LEMMA ProcessedSentAll ==
    ASSUME MoneyInv,
           \/ refund["cancel"].state = "processed"
           \/ \A l \in Links :
                 Received(l) <= ProcessedOf(refund["cancel"]) + ProcessedOf(refund["byHand"])
    PROVE  AllSentBack
<1>1. BooksInv /\ SentBack /\ Typed /\ Total \in Nat
  BY TypeIs, OrderAssumption DEF MoneyInv, BooksInv
<1>2. /\ SentOf(refund["cancel"]) \in Nat /\ SentOf(refund["byHand"]) \in Nat
      /\ ProcessedOf(refund["cancel"]) <= SentOf(refund["cancel"])
      /\ ProcessedOf(refund["byHand"]) <= SentOf(refund["byHand"])
      /\ ProcessedOf(refund["cancel"]) \in Nat /\ ProcessedOf(refund["byHand"]) \in Nat
  BY <1>1, SentOfIs, SumsAre, KeysAre
<1>3. \A l \in Links :
         Received(l) <= ProcessedOf(refund["cancel"]) + ProcessedOf(refund["byHand"])
  <2>1. CASE refund["cancel"].state = "processed"
    BY <1>1, <2>1 DEF SentBack, ProcessedOf
  <2> QED
    BY <2>1
<1>4. \A l \in Links : Received(l) <= SentOf(refund["cancel"]) + SentOf(refund["byHand"])
  <2> TAKE l \in Links
  <2>1. Received(l) \in 0 .. Total
    BY <1>1, LeftIs
  <2>2. Received(l) <= ProcessedOf(refund["cancel"]) + ProcessedOf(refund["byHand"])
    BY <1>3
  <2> QED
    BY <1>1, <1>2, <2>1, <2>2
<1> QED
  BY <1>4, SentAll

\* A cancellation reads what there is to refund.
LEMMA MoneyReadToCancel ==
    ASSUME Uses \cap {"advance", "payDuringCancel", "overlap", "cancelDuringRefund"} = {},
           MoneyInv, NEW s \in Staff, NEW choice \in {"unsaid", "full", "none"},
           ReadToCancel(s, choice)
    PROVE  /\ order.pay = "unpaid" => ~job'[s].byNote
           /\ \A k \in Keys : refund[k].state # "pending"
           /\ job'[s].step = "commit" => job'[s].keep \/ AllSentBack
<1>1. JobsOK /\ BooksInv
  BY DEF MoneyInv, BooksInv
<1> DEFINE remaining == IF order.pay = "unpaid" THEN 0 ELSE Refundable
           refundNow == choice = "full" /\ remaining > 0
           byNote == refundNow \/ order.refunded > 0
           keep == choice = "none" /\ remaining > 0
           step == IF refundNow THEN "claim" ELSE "commit"
           new == [op |-> "cancel", step |-> step, key |-> "cancel", amount |-> 0,
                   refundNow |-> refundNow, byNote |-> byNote, keep |-> keep]
<1>2. /\ job' = [job EXCEPT ![s] = new]
      /\ \A k \in Keys : refund[k].state # "pending"
      /\ remaining > 0 => choice # "unsaid"
  BY DEF ReadToCancel, Answered
<1>3. job'[s] = new
  BY <1>1, <1>2 DEF JobsOK
<1>4. order.pay = "unpaid" => ~byNote
  BY NothingYet
<1>5. step = "commit" => keep \/ AllSentBack
  <2> SUFFICES ASSUME ~refundNow, ~keep PROVE AllSentBack
    OBVIOUS
  <2>1. ~(remaining > 0)
    BY <1>2
  <2>2. CASE order.pay = "unpaid"
    BY <2>2, NothingYet
  <2>3. CASE order.pay # "unpaid"
    <3>1. Refundable = 0
      <4>1. TotalOf([l \in Links |-> Received(l)]) \in Nat
            /\ TotalOf([k \in Keys |-> IF Claims(k) THEN refund[k].amount ELSE 0]) \in Nat
        BY <1>1, RefundableTerms
      <4>2. Refundable \in Nat
        BY <4>1 DEF Refundable, Greater
      <4> QED
        BY <2>1, <2>3, <4>2
    <3>2. \A l \in Links :
             Received(l) <= ProcessedOf(refund["cancel"]) + ProcessedOf(refund["byHand"])
      BY <1>1, <1>2, <3>1, NothingRefundable
    <3> QED
      BY <3>2, ProcessedSentAll
  <2> QED
    BY <2>2, <2>3
<1> HIDE DEF refundNow, byNote, keep, step
<1>6. job'[s].byNote = byNote /\ job'[s].step = step /\ job'[s].keep = keep
  BY <1>3
<1> QED
  BY <1>2, <1>4, <1>5, <1>6

\* What a request does that changes no refund, and neither cancels nor moves the order.
LEMMA MoneyQuiet ==
    ASSUME Uses \cap {"advance", "payDuringCancel", "overlap", "cancelDuringRefund"} = {},
           MoneyInv, Typed', NEW s \in Staff, Request(s),
           \/ \E to \in {"confirmed", "preparing", "delivered"} : ReadToMove(s, to)
           \/ \E amount \in 1 .. Total : AskRefund(s, amount)
           \/ Replay(s) \/ RefuseRefund(s)
           \/ \E choice \in {"unsaid", "full", "none"} : ReadToCancel(s, choice)
           \/ CloseLinks(s) \/ Crash(s)
    PROVE  MoneyGoals'
<1>1. /\ JobsOK /\ Typed /\ TypeOK /\ BooksInv /\ Alone /\ PaidAtOnce /\ Answerable
      /\ CancelledIsAnswered /\ Total \in Nat /\ "overlap" \notin Uses
  BY TypeIs, OrderAssumption DEF MoneyInv, BooksInv
<1>2. UNCHANGED <<order, invoice, refund, tab, kept>>
  BY DEF ReadToMove, AskRefund, Replay, RefuseRefund, ReadToCancel, CloseLinks, Crash
<1>3. \A l \in Links : /\ link'[l].amount = link[l].amount
                       /\ link'[l].recorded = link[l].recorded
                       /\ link'[l].rzp # "none" => link[l].rzp # "none"
  <2>1. CASE link' = link
    BY <2>1
  <2>2. CASE CloseLinks(s)
    <3>1. PICK lost \in SUBSET MayBeLost : link' = Closed(lost)
      BY <2>2 DEF CloseLinks
    <3> QED
      BY <1>1, <3>1, ClosedKeeps
  <2>3. link' = link \/ CloseLinks(s)
    BY DEF ReadToMove, AskRefund, Replay, RefuseRefund, ReadToCancel, Crash
  <2> QED
    BY <2>1, <2>2, <2>3
<1>4. \A l \in Links : link[l].amount \in Nat
  BY <1>1 DEF Typed, LinkType
<1>5. SentBack' /\ (AllSentBack' <=> AllSentBack)
  BY <1>2, <1>3, <1>4, SentKept
<1>6. PaidAtOnce'
  <2>1. invoice.paid + invoice.credit <= invoice.paid + invoice.credit
    BY <1>1 DEF Typed, InvoiceType
  <2>2. order'.pay # "unpaid" =>
           invoice'.paid + invoice'.credit
              >= Total + Unsettled(refund["cancel"])' + Unsettled(refund["byHand"])'
    BY <1>1, <1>2 DEF PaidAtOnce, Unsettled, NotedOf, ProcessedOf
  <2> QED
    BY <1>2, <1>3, <2>1, <2>2, PaidKept
<1>7. \A other \in Staff \ {s} : job'[other] = job[other] /\ job[other].op # "cancel"
  BY <1>1, OthersStay, NobodyElse
<1>8. job'[s].op = "cancel" => KnowsMoney(s)'
  <2>1. CASE \E to \in {"confirmed", "preparing", "delivered"} : ReadToMove(s, to)
    BY <1>1, <2>1 DEF ReadToMove, JobsOK
  <2>2. CASE \E amount \in 1 .. Total : AskRefund(s, amount)
    BY <1>1, <2>2 DEF AskRefund, JobsOK
  <2>3. CASE Finish(s)
    BY <1>1, <2>3, Finished DEF Idle
  <2>4. CASE Replay(s) /\ job[s].op = "cancel" /\ Step(s, "commit")
    <3>1. job[s].key = "cancel" /\ KnowsMoney(s)
      BY <1>1, <2>4, WorkerIs DEF Replay, At, Answerable
    <3>2. refund["cancel"].state = "processed"
      BY <2>4, <3>1 DEF Replay
    <3>3. job'[s].step = "commit" /\ job'[s].byNote = job[s].byNote
      BY <1>1, <2>4, StepTaken
    <3>4. AllSentBack'
      BY <1>5, <3>2, ProcessedSentAll
    <3> QED
      BY <1>2, <3>1, <3>3, <3>4 DEF KnowsMoney, Working
  <2>5. CASE \E choice \in {"unsaid", "full", "none"} : ReadToCancel(s, choice)
    <3>1. /\ order.pay = "unpaid" => ~job'[s].byNote
          /\ \A k \in Keys : refund[k].state # "pending"
          /\ job'[s].step = "commit" => job'[s].keep \/ AllSentBack
      BY <2>5, MoneyReadToCancel
    <3> QED
      BY <1>2, <1>5, <3>1, KeysAre DEF KnowsMoney
  <2>6. CASE Replay(s) \/ RefuseRefund(s) \/ CloseLinks(s) \/ Crash(s)
    BY <2>3, <2>4, <2>6 DEF Replay, RefuseRefund, CloseLinks, Crash
  <2> QED
    BY <2>1, <2>2, <2>5, <2>6
<1>9. Answerable'
  BY <1>1, <1>2, <1>7, <1>8 DEF Answerable
<1>10. CancelledIsAnswered'
  BY <1>1, <1>2, <1>5 DEF CancelledIsAnswered
<1> QED
  BY <1>5, <1>6, <1>9, <1>10 DEF MoneyGoals

\* The order is moved along, and as it was not cancelled it is not now.
LEMMA MoneyMove ==
    ASSUME Uses \cap {"advance", "payDuringCancel", "overlap", "cancelDuringRefund"} = {},
           MoneyInv, Typed', NEW s \in Staff, Request(s), Move(s)
    PROVE  MoneyGoals'
<1>1. /\ JobsOK /\ Typed /\ BooksInv /\ Alone /\ PaidAtOnce /\ Answerable
      /\ Total \in Nat /\ "overlap" \notin Uses
  BY TypeIs, OrderAssumption DEF MoneyInv, BooksInv
<1>2. job[s] \in MoveJob
  BY <1>1 DEF Move, JobsOK, Idle, RefundJob, CancelJob
<1>3. UNCHANGED <<link, refund, tab, kept>> /\ job' = [job EXCEPT ![s] = Idle]
      /\ order' = [order EXCEPT !.status = job[s].to] /\ job[s].to # "cancelled"
      /\ invoice' \in {invoice, [invoice EXCEPT !.cancelled = FALSE]}
  BY <1>2 DEF Move, MoveJob
<1>4. order'.status # "cancelled" /\ order'.pay = order.pay
  BY <1>1, <1>3 DEF Typed, OrderType
<1>5. invoice'.paid = invoice.paid /\ invoice'.credit = invoice.credit
  BY <1>1, <1>3 DEF Typed, InvoiceType
<1>6. \A l \in Links : link[l].amount \in Nat
  BY <1>1 DEF Typed, LinkType
<1>7. SentBack' /\ (AllSentBack' <=> AllSentBack)
  BY <1>3, <1>6, SentKept
<1>8. PaidAtOnce'
  <2>1. invoice.paid + invoice.credit <= invoice'.paid + invoice'.credit
    BY <1>1, <1>5 DEF Typed, InvoiceType
  <2>2. order'.pay # "unpaid" =>
           invoice'.paid + invoice'.credit
              >= Total + Unsettled(refund["cancel"])' + Unsettled(refund["byHand"])'
    BY <1>1, <1>3, <1>4, <1>5 DEF PaidAtOnce, Unsettled, NotedOf, ProcessedOf
  <2> QED
    BY <1>3, <1>4, <2>1, <2>2, PaidKept
<1>9. \A t \in Staff : job'[t].op # "cancel"
  <2>1. \A other \in Staff \ {s} : job'[other] = job[other] /\ job[other].op # "cancel"
    BY <1>1, OthersStay, NobodyElse
  <2> QED
    BY <1>1, <1>3, <2>1 DEF JobsOK, Idle
<1>10. Answerable' /\ CancelledIsAnswered'
  BY <1>4, <1>9 DEF Answerable, CancelledIsAnswered
<1> QED
  BY <1>7, <1>8, <1>10 DEF MoneyGoals

\* A cancellation commits, with the money sent back or kept.
LEMMA MoneyCancel ==
    ASSUME Uses \cap {"advance", "payDuringCancel", "overlap", "cancelDuringRefund"} = {},
           MoneyInv, Typed', NEW s \in Staff, Request(s), Cancel(s)
    PROVE  MoneyGoals'
<1>1. /\ JobsOK /\ Typed /\ BooksInv /\ Alone /\ PaidAtOnce /\ Answerable
      /\ CancelledIsAnswered /\ Total \in Nat /\ "overlap" \notin Uses
  BY TypeIs, OrderAssumption DEF MoneyInv, BooksInv
<1>2. job[s] \in CancelJob /\ job[s].op = "cancel" /\ job[s].step = "commit"
  BY <1>1, WorkerIs DEF Cancel, At, RefundJob, CancelJob
<1>3. UNCHANGED <<link, refund, tab, crashes>>
  BY DEF Cancel
<1>4. KnowsMoney(s)
  BY <1>1, <1>2 DEF Answerable
<1>5. \A l \in Links : link[l].amount \in Nat
  BY <1>1 DEF Typed, LinkType
<1>6. SentBack' /\ (AllSentBack' <=> AllSentBack)
  BY <1>3, <1>5, SentKept
<1>7. order'.pay = order.pay /\ invoice'.paid = invoice.paid /\ invoice'.credit = invoice.credit
  <2>1. order' \in {order, [order EXCEPT !.status = "cancelled"]}
        /\ \E b \in BOOLEAN : invoice' = invoice \/ invoice' = [invoice EXCEPT !.cancelled = b]
    <3>1. (invoice.cancelled \/ CancelsInvoice(s)) \in BOOLEAN
      OBVIOUS
    <3> QED
      BY <3>1 DEF Cancel
  <2> QED
    BY <1>1, <2>1 DEF Typed, OrderType, InvoiceType
<1>8. PaidAtOnce'
  <2>1. invoice.paid + invoice.credit <= invoice'.paid + invoice'.credit
    BY <1>1, <1>7 DEF Typed, InvoiceType
  <2>2. order'.pay # "unpaid" =>
           invoice'.paid + invoice'.credit
              >= Total + Unsettled(refund["cancel"])' + Unsettled(refund["byHand"])'
    BY <1>1, <1>3, <1>7 DEF PaidAtOnce, Unsettled, NotedOf, ProcessedOf
  <2> QED
    BY <1>3, <1>7, <2>1, <2>2, PaidKept
<1>9. \A other \in Staff \ {s} : job'[other] = job[other] /\ job[other].op # "cancel"
  BY <1>1, OthersStay, NobodyElse
<1>10. CASE Finish(s) /\ UNCHANGED <<order, invoice, held, kept>>
  <2>1. \A t \in Staff : job'[t].op # "cancel"
    BY <1>1, <1>9, <1>10, Finished DEF Idle
  <2>2. Answerable'
    BY <1>1, <1>10, <2>1 DEF Answerable
  <2>3. CancelledIsAnswered'
    BY <1>1, <1>6, <1>10 DEF CancelledIsAnswered
  <2> QED
    BY <1>6, <1>8, <2>2, <2>3 DEF MoneyGoals
<1>11. CASE /\ invoice' = [invoice EXCEPT !.cancelled = @ \/ CancelsInvoice(s)]
            /\ kept' = job[s].keep
            /\ Step(s, "closeLinks")
  <2>1. job'[s].step = "closeLinks" /\ job'[s].byNote = job[s].byNote
    BY <1>1, <1>2, <1>11, StepTaken
  <2>2. KnowsMoney(s)'
    BY <1>4, <1>7, <2>1 DEF KnowsMoney, Working
  <2>3. order'.pay = "unpaid" => invoice'.cancelled
    <3> DEFINE b == invoice.cancelled \/ CancelsInvoice(s)
    <3>1. invoice \in InvoiceType /\ invoice' = [invoice EXCEPT !.cancelled = b]
      BY <1>1, <1>11 DEF Typed
    <3>2. order.pay = "unpaid" => b
      BY <1>4 DEF KnowsMoney, CancelsInvoice
    <3> HIDE DEF b
    <3>3. invoice'.cancelled = b
      BY <3>1 DEF InvoiceType
    <3> QED
      BY <1>7, <3>2, <3>3
  <2>4. Answerable'
    BY <1>9, <2>2, <2>3 DEF Answerable
  <2>5. CancelledIsAnswered'
    BY <1>2, <1>4, <1>6, <1>11 DEF KnowsMoney, CancelledIsAnswered
  <2> QED
    BY <1>6, <1>8, <2>4, <2>5 DEF MoneyGoals
<1> QED
  BY <1>10, <1>11 DEF Cancel

\* What was sent back, once one row has changed: no less, no more than Razorpay has,
\* and of what was received.
LEMMA RowSent ==
    ASSUME MoneyInv, NEW k \in Keys, NEW row \in RowType, link' = link,
           refund'[k] = row, \A c \in Keys \ {k} : refund'[c] = refund[c],
           row.of \in Links, link[row.of].recorded,
           \A l \in Links :
              /\ MovedOf(refund[k], l) <= MovedOf(row, l)
              /\ MovedOf(row, l) <= MovedOf(refund[k], l) + (link[l].amount - Moved(l)),
           k = "cancel" =>
              \A l \in Links : Received(l) <= row.amount + ProcessedOf(refund["byHand"]),
           k = "byHand" => ProcessedOf(refund[k]) <= ProcessedOf(row)
    PROVE  SentBack' /\ (AllSentBack => AllSentBack')
<1>1. BooksInv /\ Typed /\ SentBack /\ Total \in Nat
  BY TypeIs, OrderAssumption DEF MoneyInv, BooksInv
<1>2. row.amount \in Nat
  BY <1>1 DEF RowType
<1>3. k = "cancel" \/ k = "byHand"
  BY DEF Keys
<1>4. \A l \in Links : Received(l)' = Received(l)
  BY DEF Received
<1>5. ASSUME NEW l \in Links
      PROVE  /\ Moved(l) <= Moved(l)' /\ Moved(l)' <= link[l].amount
             /\ Moved(l) \in Nat /\ Moved(l)' \in Nat /\ link[l].amount \in Nat
             /\ ~link[l].recorded => Moved(l)' = 0
  <2>1. link[l].amount \in Nat
    BY <1>1 DEF Typed, LinkType
  <2>2. MovedOf(refund["cancel"], l) \in Nat /\ MovedOf(refund["byHand"], l) \in Nat
        /\ MovedOf(row, l) \in Nat
    BY <1>1, <1>2, MovedOfIs, KeysAre DEF MovedOf
  <2>3. /\ MovedOf(refund[k], l) <= MovedOf(row, l)
        /\ MovedOf(row, l) <= MovedOf(refund[k], l) + (link[l].amount - Moved(l))
    OBVIOUS
  <2>4. ~link[l].recorded => MovedOf(row, l) = 0
    BY DEF MovedOf
  <2>5. ~link[l].recorded => MovedOf(refund["cancel"], l) = 0 /\ MovedOf(refund["byHand"], l) = 0
    BY <1>1, NothingOfUnpaid, KeysAre
  <2>6. CASE k = "cancel"
    <3>1. Moved(l)' = MovedOf(row, l) + MovedOf(refund["byHand"], l)
      BY <2>6, KeysAre DEF Moved, MovedOf
    <3> QED
      BY <2>1, <2>2, <2>3, <2>4, <2>5, <2>6, <3>1 DEF Moved
  <2>7. CASE k = "byHand"
    <3>1. Moved(l)' = MovedOf(refund["cancel"], l) + MovedOf(row, l)
      BY <2>7, KeysAre DEF Moved, MovedOf
    <3> QED
      BY <2>1, <2>2, <2>3, <2>4, <2>5, <2>7, <3>1 DEF Moved
  <2> QED
    BY <1>3, <2>6, <2>7
<1>6. \A c \in Keys : refund'[c].state # "none" => link'[refund'[c].of].recorded
  <2> SUFFICES ASSUME NEW c \in Keys, refund'[c].state # "none"
               PROVE  link'[refund'[c].of].recorded
    OBVIOUS
  <2>1. CASE c = k
    BY <2>1
  <2>2. CASE c # k
    BY <1>1, <2>2 DEF SentBack
  <2> QED
    BY <2>1, <2>2
<1>7. refund'["cancel"].state # "none" =>
         \A l \in Links :
            Received(l)' <= refund'["cancel"].amount + ProcessedOf(refund["byHand"])'
  <2>1. CASE k = "cancel"
    <3>1. refund'["byHand"] = refund["byHand"]
      BY <2>1, KeysAre
    <3>2. ProcessedOf(refund["byHand"])' = ProcessedOf(refund["byHand"])
      BY <3>1 DEF ProcessedOf
    <3> QED
      BY <1>4, <2>1, <3>2
  <2>2. CASE k = "byHand"
    <3> SUFFICES ASSUME refund'["cancel"].state # "none", NEW l \in Links
                 PROVE  Received(l)' <= refund'["cancel"].amount + ProcessedOf(refund["byHand"])'
      OBVIOUS
    <3>1. refund'["cancel"] = refund["cancel"] /\ refund'["byHand"] = row
      BY <2>2, KeysAre
    <3>2. ProcessedOf(refund["byHand"])' = ProcessedOf(row)
      BY <3>1 DEF ProcessedOf
    <3>3. Received(l) <= refund["cancel"].amount + ProcessedOf(refund["byHand"])
      BY <1>1, <3>1 DEF SentBack
    <3>4. Received(l) \in 0 .. Total /\ ProcessedOf(refund["byHand"]) \in Nat
      BY <1>1, LeftIs, SumsAre, KeysAre
    <3>5. refund["cancel"].amount \in Nat /\ ProcessedOf(row) \in Nat
      BY <1>1, <1>2, KeysAre DEF Typed, RowType, ProcessedOf
    <3> QED
      BY <1>1, <1>4, <2>2, <3>1, <3>2, <3>3, <3>4, <3>5
  <2> QED
    BY <1>3, <2>1, <2>2
<1>8. SentBack'
  BY <1>5, <1>6, <1>7 DEF SentBack
<1>9. ASSUME AllSentBack, NEW l \in Links PROVE Received(l)' = Moved(l)'
  <2>1. Received(l) = Moved(l)
    BY <1>9 DEF AllSentBack
  <2>2. CASE link[l].recorded
    <3>1. Received(l) = link[l].amount
      BY <2>2 DEF Received
    <3>2. Moved(l) = link[l].amount
      BY <2>1, <3>1
    <3>3. Moved(l) <= Moved(l)' /\ Moved(l)' <= link[l].amount
          /\ Moved(l)' \in Nat /\ link[l].amount \in Nat
      BY <1>5
    <3>4. Moved(l)' = link[l].amount
      BY <3>2, <3>3
    <3> QED
      BY <1>4, <3>1, <3>4
  <2>3. CASE ~link[l].recorded
    <3>1. Received(l) = 0
      BY <2>3 DEF Received
    <3> QED
      BY <1>4, <1>5, <2>3, <3>1
  <2> QED
    BY <2>2, <2>3
<1> QED
  BY <1>8, <1>9 DEF AllSentBack

\* What a step of a refund keeps, by hand or in a cancellation, that changes its row.
LEMMA RowMoney ==
    ASSUME MoneyInv, Typed', NEW s \in Staff, NEW k \in Keys, NEW row \in RowType,
           UNCHANGED <<link, kept, tab>>, order'.status = order.status,
           order.pay # "unpaid" => order'.pay # "unpaid",
           refund'[k] = row, \A c \in Keys \ {k} : refund'[c] = refund[c],
           row.of \in Links, link[row.of].recorded,
           \A l \in Links :
              /\ MovedOf(refund[k], l) <= MovedOf(row, l)
              /\ MovedOf(row, l) <= MovedOf(refund[k], l) + (link[l].amount - Moved(l)),
           k = "cancel" =>
              \A l \in Links : Received(l) <= row.amount + ProcessedOf(refund["byHand"]),
           k = "byHand" => ProcessedOf(refund[k]) <= ProcessedOf(row),
           Unsettled(row) \in Int,
           invoice'.paid + invoice'.credit + Unsettled(refund[k])
              >= invoice.paid + invoice.credit + Unsettled(row),
           \A other \in Staff \ {s} : job'[other] = job[other] /\ job[other].op # "cancel",
           job'[s].op = "cancel" =>
              /\ job[s].op = "cancel" /\ job[s].step \in {"claim"} \cup Working /\ k = "cancel"
              /\ job'[s].step = "commit" => AllSentBack
    PROVE  MoneyGoals'
<1>1. BooksInv /\ Typed /\ PaidAtOnce /\ Answerable /\ CancelledIsAnswered /\ Total \in Nat
  BY TypeIs, OrderAssumption DEF MoneyInv, BooksInv
<1>2. SentBack' /\ (AllSentBack => AllSentBack')
  BY RowSent
<1>3. order.pay # "unpaid" /\ order'.pay # "unpaid"
  BY <1>1 DEF PaidAtOnce
<1>4. k = "cancel" \/ k = "byHand"
  BY DEF Keys
<1>5. invoice'.paid + invoice'.credit
         >= Total + Unsettled(refund["cancel"])' + Unsettled(refund["byHand"])'
  <2>1. invoice.paid + invoice.credit
           >= Total + Unsettled(refund["cancel"]) + Unsettled(refund["byHand"])
    BY <1>1, <1>3 DEF PaidAtOnce
  <2>2. Unsettled(refund["cancel"]) \in Int /\ Unsettled(refund["byHand"]) \in Int
    BY <1>1, SumsAre, KeysAre DEF Unsettled
  <2>3. /\ invoice.paid \in Nat /\ invoice.credit \in Nat
        /\ invoice'.paid \in Nat /\ invoice'.credit \in Nat
    BY <1>1 DEF Typed, InvoiceType
  <2>4. CASE k = "cancel"
    <3>1. Unsettled(refund["cancel"])' = Unsettled(row)
          /\ Unsettled(refund["byHand"])' = Unsettled(refund["byHand"])
      BY <2>4, KeysAre DEF Unsettled, NotedOf, ProcessedOf
    <3> QED
      BY <1>1, <2>1, <2>2, <2>3, <2>4, <3>1
  <2>5. CASE k = "byHand"
    <3>1. Unsettled(refund["byHand"])' = Unsettled(row)
          /\ Unsettled(refund["cancel"])' = Unsettled(refund["cancel"])
      BY <2>5, KeysAre DEF Unsettled, NotedOf, ProcessedOf
    <3> QED
      BY <1>1, <2>1, <2>2, <2>3, <2>5, <3>1
  <2> QED
    BY <1>4, <2>4, <2>5
<1>6. PaidAtOnce'
  BY <1>3, <1>5, PaidKept
<1>7. ASSUME job'[s].op = "cancel" PROVE KnowsMoney(s)'
  <2>1. KnowsMoney(s) /\ job[s].step \in {"claim"} \cup Working /\ k = "cancel"
        /\ (job'[s].step = "commit" => AllSentBack)
    BY <1>1, <1>7 DEF Answerable
  <2>2. refund'["byHand"].state # "pending"
    BY <2>1, KeysAre DEF KnowsMoney
  <2> QED
    BY <1>2, <1>3, <2>1, <2>2 DEF KnowsMoney
<1>8. Answerable'
  <2>1. ASSUME NEW t \in Staff, job'[t].op = "cancel" PROVE KnowsMoney(t)'
    BY <1>7, <2>1
  <2> QED
    BY <1>3, <2>1 DEF Answerable
<1>9. CancelledIsAnswered'
  BY <1>1, <1>2 DEF CancelledIsAnswered
<1> QED
  BY <1>2, <1>6, <1>8, <1>9 DEF MoneyGoals

\* What a request at a refund is, and that nobody else does anything to the order.
LEMMA RefundRequest ==
    ASSUME "overlap" \notin Uses, MoneyInv, NEW s \in Staff, Request(s),
           CarryOn(s) \/ Claim(s) \/ AskRazorpay(s) \/ MakeNote(s) \/ Settle(s)
    PROVE  /\ job[s].key \in Keys /\ job[s].step \in {"claim"} \cup Working
           /\ job[s].key = "cancel" => job[s] \in CancelJob /\ KnowsMoney(s)
           /\ \A other \in Staff \ {s} : job'[other] = job[other] /\ job[other].op # "cancel"
           /\ job'[s].op = "cancel" => job[s].op = "cancel" /\ job[s].key = "cancel"
           /\ order'.status = order.status
<1>1. JobsOK /\ BooksInv /\ Alone /\ Answerable
  BY DEF MoneyInv, BooksInv
<1>2. job[s].op \in {"refund", "cancel"} /\ job[s].step \in {"claim"} \cup Working
  BY DEF CarryOn, Claim, AskRazorpay, MakeNote, Settle, At, Working
<1>3. /\ job[s].key \in Keys
      /\ job[s].op = "cancel" => job[s] \in CancelJob /\ job[s].key = "cancel"
      /\ job[s].op = "refund" => job[s].key = "byHand"
  BY <1>1, <1>2, WorkerIs
<1>4. job[s].op = "cancel" => KnowsMoney(s)
  BY <1>1 DEF Answerable
<1>5. \A other \in Staff \ {s} : job'[other] = job[other] /\ job[other].op # "cancel"
  BY <1>1, OthersStay, NobodyElse
<1>6. job[s] # Idle
  BY <1>2 DEF Idle
<1>7. job'[s].op = "cancel" => job[s].op = "cancel"
  BY <1>1, <1>6, JobAfter DEF Idle
<1>8. order'.status = order.status
  BY <1>1, StatusStays DEF Move, Cancel, At, CarryOn, Claim, AskRazorpay, MakeNote, Settle
<1> QED
  BY <1>2, <1>3, <1>4, <1>5, <1>7, <1>8

\* What a refund that was claimed has to do with the payment it is of.
LEMMA ClaimedRow ==
    ASSUME MoneyInv, NEW k \in Keys, refund[k].state # "none"
    PROVE  /\ refund[k] \in RowType /\ refund[k].amount \in 1 .. Total
           /\ refund[k].of \in Links /\ link[refund[k].of].recorded
           /\ k = "cancel" =>
                 \A l \in Links : Received(l) <= refund[k].amount + ProcessedOf(refund["byHand"])
           /\ \A l \in Links : /\ MovedOf(refund[k], l) \in Nat
                               /\ link[l].amount - Moved(l) \in Nat
<1>1. BooksInv /\ Typed /\ SentBack /\ Total \in Nat
  BY TypeIs, OrderAssumption DEF MoneyInv, BooksInv
<1>2. refund[k] \in RowType /\ refund[k].amount \in 1 .. Total /\ refund[k].of \in Links
  BY <1>1, RowIs DEF RowInOrder
<1>3. link[refund[k].of].recorded
  BY <1>1 DEF SentBack
<1>4. k = "cancel" =>
         \A l \in Links : Received(l) <= refund[k].amount + ProcessedOf(refund["byHand"])
  BY <1>1 DEF SentBack
<1>5. ASSUME NEW l \in Links
      PROVE  MovedOf(refund[k], l) \in Nat /\ link[l].amount - Moved(l) \in Nat
  <2>1. MovedOf(refund["cancel"], l) \in Nat /\ MovedOf(refund["byHand"], l) \in Nat
        /\ MovedOf(refund[k], l) \in Nat
    BY <1>1, MovedOfIs, KeysAre
  <2>2. link[l].amount \in Nat /\ Moved(l) <= link[l].amount
    BY <1>1 DEF Typed, LinkType, SentBack
  <2> QED
    BY <2>1, <2>2 DEF Moved
<1> QED
  BY <1>2, <1>3, <1>4, <1>5

LEMMA MoneyCarryOn ==
    ASSUME Uses \cap {"advance", "payDuringCancel", "overlap", "cancelDuringRefund"} = {},
           MoneyInv, Typed', NEW s \in Staff, Request(s), CarryOn(s)
    PROVE  MoneyGoals'
<1>1. BooksInv /\ JobsOK /\ Typed /\ Total \in Nat /\ "overlap" \notin Uses
  BY TypeIs, OrderAssumption DEF MoneyInv, BooksInv
<1>2. /\ job[s].key \in Keys /\ job[s].step \in {"claim"} \cup Working
      /\ \A other \in Staff \ {s} : job'[other] = job[other] /\ job[other].op # "cancel"
      /\ job'[s].op = "cancel" => job[s].op = "cancel" /\ job[s].key = "cancel"
  BY <1>1, RefundRequest
<1>3. PICK k \in Keys : k = job[s].key
  BY <1>2
<1> DEFINE old == refund[k]
           row == [old EXCEPT !.state = "pending"]
<1>4. /\ \A c \in Keys \ {k} : refund'[c] = refund[c]
      /\ refund'[k] = row /\ old.state \in {"pending", "failed"}
      /\ At(s, "ask")' \/ At(s, "note")' \/ At(s, "settle")'
  BY <1>1, <1>3, CarryOnBooks
<1>5. /\ old \in RowType /\ old.of \in Links /\ link[old.of].recorded
      /\ k = "cancel" =>
            \A l \in Links : Received(l) <= old.amount + ProcessedOf(refund["byHand"])
      /\ \A l \in Links : MovedOf(old, l) \in Nat /\ link[l].amount - Moved(l) \in Nat
  BY <1>4, ClaimedRow
<1>6. UNCHANGED <<order, invoice, link, tab, kept>>
  BY DEF CarryOn
<1>7. job'[s].step # "commit"
  BY <1>4 DEF At
<1>8. NotedOf(old) \in Nat
  BY <1>1, SumsAre
<1> HIDE DEF old
<1>9. /\ row \in RowType /\ row.of = old.of /\ row.amount = old.amount
      /\ row.moved = old.moved /\ row.noted = old.noted /\ row.state = "pending"
  BY <1>5 DEF RowType
<1> HIDE DEF row
<1>10. \A l \in Links : MovedOf(row, l) = MovedOf(old, l)
  BY <1>9 DEF MovedOf
<1>11. /\ ProcessedOf(row) = 0 /\ ProcessedOf(old) = 0 /\ NotedOf(row) = NotedOf(old)
  BY <1>4, <1>9 DEF ProcessedOf, NotedOf
<1>12. Unsettled(row) = Unsettled(old) /\ Unsettled(row) \in Int
  BY <1>8, <1>11 DEF Unsettled
<1>13. \A l \in Links : /\ MovedOf(old, l) <= MovedOf(row, l)
                        /\ MovedOf(row, l) <= MovedOf(old, l) + (link[l].amount - Moved(l))
  BY <1>5, <1>10
<1>14. invoice'.paid + invoice'.credit + Unsettled(old)
          >= invoice.paid + invoice.credit + Unsettled(row)
  BY <1>1, <1>6, <1>12 DEF Typed, InvoiceType
<1>15. ProcessedOf(old) <= ProcessedOf(row)
  BY <1>11
<1> QED
  BY <1>2, <1>3, <1>4, <1>5, <1>6, <1>7, <1>9, <1>12, <1>13, <1>14, <1>15, RowMoney DEF old

LEMMA MoneyClaim ==
    ASSUME Uses \cap {"advance", "payDuringCancel", "overlap", "cancelDuringRefund"} = {},
           MoneyInv, Typed', NEW s \in Staff, Request(s), Claim(s)
    PROVE  MoneyGoals'
<1>1. BooksInv /\ JobsOK /\ Typed /\ PaidAtOnce /\ SentBack /\ Total \in Nat /\ "overlap" \notin Uses
  BY TypeIs, OrderAssumption DEF MoneyInv, BooksInv
<1>2. /\ job[s].key \in Keys /\ job[s].step \in {"claim"} \cup Working
      /\ job[s].key = "cancel" => job[s] \in CancelJob /\ KnowsMoney(s)
      /\ \A other \in Staff \ {s} : job'[other] = job[other] /\ job[other].op # "cancel"
      /\ job'[s].op = "cancel" => job[s].op = "cancel" /\ job[s].key = "cancel"
  BY <1>1, RefundRequest
<1>3. PICK k \in Keys : k = job[s].key
  BY <1>2
<1>4. PICK row : row = refund'[k]
  OBVIOUS
<1>5. /\ \A c \in Keys \ {k} : refund'[c] = refund[c]
      /\ refund[k] = NoRefund
      /\ row.state = "pending" /\ ~row.moved /\ ~row.noted
      /\ row.of \in Links /\ Left(row.of) > 0
      /\ job[s].amount = 0 => row.amount = Left(row.of)
      /\ At(s, "ask")'
  BY <1>1, <1>3, <1>4, ClaimBooks
<1>6. row \in RowType
  BY <1>4 DEF Typed
<1>7. refund[k].state = "none" /\ ~refund[k].noted
  BY <1>5 DEF NoRefund
<1>8. UNCHANGED <<order, invoice, link, tab, kept>>
  BY DEF Claim
<1>9. job'[s].step # "commit"
  BY <1>5 DEF At
<1>10. /\ Left(row.of) = Received(row.of)
             - (ClaimedOf(refund["cancel"], row.of) + ClaimedOf(refund["byHand"], row.of))
       /\ ClaimedOf(refund["cancel"], row.of) \in 0 .. Total
       /\ ClaimedOf(refund["byHand"], row.of) \in 0 .. Total
       /\ Received(row.of) \in 0 .. Total
  BY <1>1, <1>5, LeftIs, KeysAre
<1>11. link[row.of].recorded
  <2>1. Received(row.of) > 0
    BY <1>1, <1>5, <1>10
  <2> QED
    BY <2>1 DEF Received
<1>12. ASSUME k = "cancel", NEW l \in Links
       PROVE  Received(l) <= row.amount + ProcessedOf(refund["byHand"])
  <2>1. row.amount \in Nat /\ ProcessedOf(refund["byHand"]) \in Nat
    BY <1>1, <1>6, SumsAre, KeysAre DEF RowType
  <2>2. CASE l = row.of
    <3>1. job[s].amount = 0 /\ refund["byHand"].state # "pending"
      BY <1>2, <1>3, <1>12 DEF CancelJob, KnowsMoney
    <3>2. ClaimedOf(refund["cancel"], l) = 0
      BY <1>7, <1>12 DEF ClaimedOf
    <3>3. ClaimedOf(refund["byHand"], l) <= ProcessedOf(refund["byHand"])
      <4>1. ClaimedOf(refund["byHand"], l) \in {ProcessedOf(refund["byHand"]), 0}
        BY <3>1 DEF ClaimedOf, ProcessedOf
      <4> QED
        BY <2>1, <4>1
    <3>4. row.amount = Received(l) - (ClaimedOf(refund["cancel"], l) + ClaimedOf(refund["byHand"], l))
      BY <1>5, <1>10, <2>2, <3>1
    <3> QED
      BY <1>1, <1>10, <2>1, <2>2, <3>2, <3>3, <3>4
  <2>3. CASE l # row.of
    <3>1. ~link[l].recorded
      BY <1>1, <1>5, <1>11, <2>3 DEF PaidAtOnce
    <3>2. Received(l) = 0
      BY <3>1 DEF Received
    <3> QED
      BY <2>1, <3>2
  <2> QED
    BY <2>2, <2>3
<1>13. ProcessedOf(refund[k]) = 0 /\ ProcessedOf(row) = 0
       /\ Unsettled(refund[k]) = 0 /\ Unsettled(row) = 0
  BY <1>5, <1>7 DEF ProcessedOf, NotedOf, Unsettled
<1>14. ASSUME NEW l \in Links
       PROVE  /\ MovedOf(refund[k], l) <= MovedOf(row, l)
              /\ MovedOf(row, l) <= MovedOf(refund[k], l) + (link[l].amount - Moved(l))
  <2>1. MovedOf(refund[k], l) = 0 /\ MovedOf(row, l) = 0
    BY <1>1, <1>5, <1>7, MovedOfIs DEF MovedOf
  <2>2. MovedOf(refund["cancel"], l) \in Nat /\ MovedOf(refund["byHand"], l) \in Nat
    BY <1>1, MovedOfIs, KeysAre
  <2>3. link[l].amount \in Nat /\ Moved(l) <= link[l].amount
    BY <1>1 DEF Typed, LinkType, SentBack
  <2> QED
    BY <2>1, <2>2, <2>3 DEF Moved
<1>15. invoice'.paid + invoice'.credit + Unsettled(refund[k])
          >= invoice.paid + invoice.credit + Unsettled(row)
  BY <1>1, <1>8, <1>13 DEF Typed, InvoiceType
<1>16. ProcessedOf(refund[k]) <= ProcessedOf(row) /\ Unsettled(row) \in Int
  BY <1>13
<1> QED
  BY <1>2, <1>3, <1>4, <1>5, <1>6, <1>8, <1>9, <1>11, <1>12, <1>14, <1>15, <1>16, RowMoney

LEMMA MoneyAsk ==
    ASSUME Uses \cap {"advance", "payDuringCancel", "overlap", "cancelDuringRefund"} = {},
           MoneyInv, Typed', NEW s \in Staff, Request(s), AskRazorpay(s)
    PROVE  MoneyGoals'
<1>1. BooksInv /\ JobsOK /\ Typed /\ Total \in Nat /\ "overlap" \notin Uses
  BY TypeIs, OrderAssumption DEF MoneyInv, BooksInv
<1>2. /\ job[s].key \in Keys /\ job[s].step \in {"claim"} \cup Working
      /\ \A other \in Staff \ {s} : job'[other] = job[other] /\ job[other].op # "cancel"
      /\ job'[s].op = "cancel" => job[s].op = "cancel" /\ job[s].key = "cancel"
  BY <1>1, RefundRequest
<1>3. PICK k \in Keys : k = job[s].key
  BY <1>2
<1>4. PICK row : row = refund'[k]
  OBVIOUS
<1> DEFINE old == refund[k]
<1>5. /\ \A c \in Keys \ {k} : refund'[c] = refund[c]
      /\ Fits(old, "ask")
      /\ row.of = old.of /\ row.amount = old.amount /\ row.noted = old.noted
      /\ row.moved => old.moved \/ RoomAtRazorpay(k) >= old.amount
      /\ old.moved => row.moved
      /\ row.state = "pending" \/ row.state = "failed"
      /\ At(s, "note")' \/ Finish(s)
  BY <1>1, <1>3, <1>4, AskBooks
<1>6. row \in RowType
  BY <1>4 DEF Typed
<1>7. old.state = "pending" /\ ~old.noted
  BY <1>1, <1>5, RowIs DEF Fits, RowInOrder
<1>8. /\ old \in RowType /\ old.amount \in 1 .. Total
      /\ old.of \in Links /\ link[old.of].recorded
      /\ k = "cancel" =>
            \A l \in Links : Received(l) <= old.amount + ProcessedOf(refund["byHand"])
      /\ \A l \in Links : MovedOf(old, l) \in Nat /\ link[l].amount - Moved(l) \in Nat
  BY <1>7, ClaimedRow
<1>9. RoomAtRazorpay(k) = link[old.of].amount - Moved(old.of)
  BY <1>1, <1>8, RoomIs
<1>10. UNCHANGED <<order, invoice, link, tab, kept>>
  BY DEF AskRazorpay
<1>11. job'[s].op = "cancel" => job'[s].step # "commit"
  <2>1. CASE Finish(s)
    BY <1>1, <2>1, Finished DEF Idle
  <2>2. CASE At(s, "note")'
    BY <2>2 DEF At
  <2> QED
    BY <1>5, <2>1, <2>2
<1> HIDE DEF old
<1>12. ASSUME NEW l \in Links
       PROVE  /\ MovedOf(old, l) <= MovedOf(row, l)
              /\ MovedOf(row, l) <= MovedOf(old, l) + (link[l].amount - Moved(l))
  <2>1. MovedOf(old, l) \in Nat /\ link[l].amount - Moved(l) \in Nat
    BY <1>8
  <2>2. CASE MovedOf(row, l) = MovedOf(old, l)
    BY <2>1, <2>2
  <2>3. CASE row.of = l /\ row.moved /\ ~old.moved
    <3>1. MovedOf(row, l) = old.amount /\ MovedOf(old, l) = 0
      BY <1>5, <2>3 DEF MovedOf
    <3>2. old.amount <= link[l].amount - Moved(l) /\ old.amount \in Nat
      BY <1>1, <1>5, <1>8, <1>9, <2>3
    <3> QED
      BY <2>1, <3>1, <3>2
  <2> QED
    BY <1>5, <2>2, <2>3 DEF MovedOf
<1>13. /\ ProcessedOf(old) = 0 /\ ProcessedOf(row) = 0
       /\ Unsettled(old) = 0 /\ Unsettled(row) = 0
  BY <1>5, <1>7 DEF ProcessedOf, NotedOf, Unsettled
<1>14. invoice'.paid + invoice'.credit + Unsettled(old)
          >= invoice.paid + invoice.credit + Unsettled(row)
  BY <1>1, <1>10, <1>13 DEF Typed, InvoiceType
<1>15. ProcessedOf(old) <= ProcessedOf(row) /\ Unsettled(row) \in Int
  BY <1>13
<1> QED
  BY <1>2, <1>3, <1>4, <1>5, <1>6, <1>8, <1>10, <1>11, <1>12, <1>14, <1>15, RowMoney DEF old

LEMMA MoneyNote ==
    ASSUME Uses \cap {"advance", "payDuringCancel", "overlap", "cancelDuringRefund"} = {},
           MoneyInv, Typed', NEW s \in Staff, Request(s), MakeNote(s)
    PROVE  MoneyGoals'
<1>1. BooksInv /\ JobsOK /\ Typed /\ Total \in Nat /\ "overlap" \notin Uses
  BY TypeIs, OrderAssumption DEF MoneyInv, BooksInv
<1>2. /\ job[s].key \in Keys /\ job[s].step \in {"claim"} \cup Working
      /\ \A other \in Staff \ {s} : job'[other] = job[other] /\ job[other].op # "cancel"
      /\ job'[s].op = "cancel" => job[s].op = "cancel" /\ job[s].key = "cancel"
  BY <1>1, RefundRequest
<1>3. PICK k \in Keys : k = job[s].key
  BY <1>2
<1>4. PICK row : row = refund'[k]
  OBVIOUS
<1> DEFINE old == refund[k]
<1>5. /\ \A c \in Keys \ {k} : refund'[c] = refund[c]
      /\ Fits(old, "note")
      /\ row.of = old.of /\ row.amount = old.amount /\ row.moved = old.moved
      /\ row.state = "pending"
      /\ UNCHANGED <<order, link, tab, kept>> /\ invoice'.paid = invoice.paid
      /\ \/ At(s, "settle")' /\ row.noted /\ invoice'.credit = invoice.credit + row.amount
         \/ Finish(s) /\ UNCHANGED <<invoice, refund>>
  BY <1>1, <1>3, <1>4, NoteBooks
<1>6. row \in RowType
  BY <1>4 DEF Typed
<1>7. old.state = "pending" /\ ~old.noted
  BY <1>5 DEF Fits
<1>8. /\ old \in RowType /\ old.amount \in 1 .. Total
      /\ old.of \in Links /\ link[old.of].recorded
      /\ k = "cancel" =>
            \A l \in Links : Received(l) <= old.amount + ProcessedOf(refund["byHand"])
      /\ \A l \in Links : MovedOf(old, l) \in Nat /\ link[l].amount - Moved(l) \in Nat
  BY <1>7, ClaimedRow
<1>9. job'[s].op = "cancel" => job'[s].step # "commit"
  <2>1. CASE Finish(s)
    BY <1>1, <2>1, Finished DEF Idle
  <2>2. CASE At(s, "settle")'
    BY <2>2 DEF At
  <2> QED
    BY <1>5, <2>1, <2>2
<1>10. row = old \/ (row.noted /\ invoice'.credit = invoice.credit + row.amount)
  BY <1>4, <1>5
<1>11. row = old => invoice'.credit = invoice.credit
  BY <1>5, <1>7
<1> HIDE DEF old
<1>12. \A l \in Links : /\ MovedOf(old, l) <= MovedOf(row, l)
                        /\ MovedOf(row, l) <= MovedOf(old, l) + (link[l].amount - Moved(l))
  <2> TAKE l \in Links
  <2>1. MovedOf(row, l) = MovedOf(old, l)
    BY <1>5 DEF MovedOf
  <2> QED
    BY <1>8, <2>1
<1>13. ProcessedOf(old) = 0 /\ ProcessedOf(row) = 0 /\ Unsettled(old) = 0
  BY <1>5, <1>7 DEF ProcessedOf, NotedOf, Unsettled
<1>14. /\ invoice.paid \in Nat /\ invoice.credit \in Nat
       /\ invoice'.paid = invoice.paid
  BY <1>1, <1>5 DEF Typed, InvoiceType
<1>15. /\ Unsettled(row) \in Int
       /\ invoice'.paid + invoice'.credit + Unsettled(old)
             >= invoice.paid + invoice.credit + Unsettled(row)
  <2>1. CASE row = old
    BY <1>11, <1>13, <1>14, <2>1
  <2>2. CASE row.noted /\ invoice'.credit = invoice.credit + row.amount
    <3>1. Unsettled(row) = row.amount /\ row.amount \in Nat
      BY <1>1, <1>5, <1>8, <1>13, <2>2 DEF Unsettled, NotedOf
    <3> QED
      BY <1>13, <1>14, <2>2, <3>1
  <2> QED
    BY <1>10, <2>1, <2>2
<1>16. ProcessedOf(old) <= ProcessedOf(row)
  BY <1>13
<1> QED
  BY <1>2, <1>3, <1>4, <1>5, <1>6, <1>8, <1>9, <1>12, <1>15, <1>16, RowMoney DEF old

LEMMA MoneySettle ==
    ASSUME Uses \cap {"advance", "payDuringCancel", "overlap", "cancelDuringRefund"} = {},
           MoneyInv, Typed', NEW s \in Staff, Request(s), Settle(s)
    PROVE  MoneyGoals'
<1>1. BooksInv /\ JobsOK /\ Typed /\ SentBack /\ Total \in Nat /\ "overlap" \notin Uses
  BY TypeIs, OrderAssumption DEF MoneyInv, BooksInv
<1>2. /\ job[s].key \in Keys /\ job[s].step \in {"claim"} \cup Working
      /\ \A other \in Staff \ {s} : job'[other] = job[other] /\ job[other].op # "cancel"
      /\ job'[s].op = "cancel" => job[s].op = "cancel" /\ job[s].key = "cancel"
      /\ order'.status = order.status
  BY <1>1, RefundRequest
<1>3. PICK k \in Keys : k = job[s].key
  BY <1>2
<1> DEFINE old == refund[k]
           row == [old EXCEPT !.state = "processed"]
<1>4. /\ \A c \in Keys \ {k} : refund'[c] = refund[c]
      /\ Fits(old, "settle") /\ refund'[k] = row
      /\ UNCHANGED <<link, tab, kept>> /\ invoice'.credit = invoice.credit
      /\ order'.pay # "unpaid"
      /\ invoice'.paid = Greater(invoice.paid - row.amount, 0)
  BY <1>1, <1>3, SettleBooks
<1>5. old.state = "pending" /\ old.noted /\ old.moved
  BY <1>1, <1>4, RowIs DEF Fits, RowInOrder
<1>6. /\ old \in RowType /\ old.amount \in 1 .. Total
      /\ old.of \in Links /\ link[old.of].recorded
      /\ k = "cancel" =>
            \A l \in Links : Received(l) <= old.amount + ProcessedOf(refund["byHand"])
      /\ \A l \in Links : MovedOf(old, l) \in Nat /\ link[l].amount - Moved(l) \in Nat
  BY <1>5, ClaimedRow
<1>7. k = "cancel" => AllSentBack
  <2> SUFFICES ASSUME k = "cancel" PROVE AllSentBack
    OBVIOUS
  <2>1. SentOf(refund["cancel"]) = old.amount
    BY <1>5 DEF SentOf
  <2>2. /\ SentOf(refund["byHand"]) \in Nat /\ ProcessedOf(refund["byHand"]) \in Nat
        /\ ProcessedOf(refund["byHand"]) <= SentOf(refund["byHand"])
    BY <1>1, SentOfIs, SumsAre, KeysAre
  <2>3. \A l \in Links : Received(l) <= SentOf(refund["cancel"]) + SentOf(refund["byHand"])
    <3> TAKE l \in Links
    <3>1. Received(l) \in 0 .. Total
      BY <1>1, LeftIs
    <3>2. Received(l) <= old.amount + ProcessedOf(refund["byHand"]) /\ old.amount \in Nat
      BY <1>1, <1>6
    <3> HIDE DEF old
    <3> QED
      BY <1>1, <2>1, <2>2, <3>1, <3>2
  <2> QED
    BY <2>3, SentAll
<1> HIDE DEF old
<1>8. /\ row \in RowType /\ row.of = old.of /\ row.amount = old.amount
      /\ row.moved = old.moved /\ row.noted = old.noted /\ row.state = "processed"
  BY <1>6 DEF RowType
<1> HIDE DEF row
<1>9. \A l \in Links : /\ MovedOf(old, l) <= MovedOf(row, l)
                       /\ MovedOf(row, l) <= MovedOf(old, l) + (link[l].amount - Moved(l))
  <2> TAKE l \in Links
  <2>1. MovedOf(row, l) = MovedOf(old, l)
    BY <1>8 DEF MovedOf
  <2> QED
    BY <1>6, <2>1
<1>10. /\ ProcessedOf(old) = 0 /\ ProcessedOf(row) = old.amount
       /\ NotedOf(old) = old.amount /\ NotedOf(row) = old.amount
  BY <1>5, <1>8 DEF ProcessedOf, NotedOf
<1>11. old.amount \in Nat /\ Unsettled(old) = old.amount /\ Unsettled(row) = 0
  BY <1>1, <1>6, <1>10 DEF Unsettled
<1>12. invoice.paid \in Nat /\ invoice.credit \in Nat
  BY <1>1 DEF Typed, InvoiceType
<1>13. invoice'.paid \in Nat /\ invoice'.paid >= invoice.paid - old.amount
  BY <1>4, <1>8, <1>11, <1>12 DEF Greater
<1>14. invoice'.paid + invoice'.credit + Unsettled(old)
          >= invoice.paid + invoice.credit + Unsettled(row)
  BY <1>4, <1>11, <1>12, <1>13
<1>15. ProcessedOf(old) <= ProcessedOf(row) /\ Unsettled(row) \in Int
  BY <1>10, <1>11
<1>16. job'[s].op = "cancel" =>
          /\ job[s].op = "cancel" /\ job[s].step \in {"claim"} \cup Working /\ k = "cancel"
          /\ job'[s].step = "commit" => AllSentBack
  BY <1>2, <1>3, <1>7
<1>17. k = "cancel" =>
          \A l \in Links : Received(l) <= row.amount + ProcessedOf(refund["byHand"])
  BY <1>6, <1>8
<1> QED
  BY <1>2, <1>4, <1>6, <1>8, <1>9, <1>14, <1>15, <1>16, <1>17, RowMoney DEF old

LEMMA MoneyStep ==
    ASSUME Uses \cap {"advance", "payDuringCancel", "overlap", "cancelDuringRefund"} = {},
           MoneyInv, [Next]_vars
    PROVE  MoneyInv'
<1>1. BooksInv /\ Alone /\ "overlap" \notin Uses
  BY DEF MoneyInv
<1>2. BooksInv' /\ Alone'
  BY <1>1, BooksStep, AloneStep
<1>3. Typed'
  BY <1>2 DEF BooksInv, TypeOK, Typed, OrderType, InvoiceType, LinkType, RowType
<1> SUFFICES MoneyGoals'
  BY <1>2 DEF MoneyInv, MoneyGoals
<1>4. CASE Shopper
  BY <1>3, <1>4, MoneyShopper
<1>5. CASE Razorpay
  BY <1>3, <1>5, MoneyRazorpay
<1>6. CASE \E amount \in Cash : PayByHand(amount)
  BY <1>3, <1>6, MoneyByHand
<1>7. ASSUME NEW s \in Staff, Request(s) PROVE MoneyGoals'
  <2>1. CASE Move(s)
    BY <1>3, <1>7, <2>1, MoneyMove
  <2>2. CASE Cancel(s)
    BY <1>3, <1>7, <2>2, MoneyCancel
  <2>3. CASE CarryOn(s)
    BY <1>3, <1>7, <2>3, MoneyCarryOn
  <2>4. CASE Claim(s)
    BY <1>3, <1>7, <2>4, MoneyClaim
  <2>5. CASE AskRazorpay(s)
    BY <1>3, <1>7, <2>5, MoneyAsk
  <2>6. CASE MakeNote(s)
    BY <1>3, <1>7, <2>6, MoneyNote
  <2>7. CASE Settle(s)
    BY <1>3, <1>7, <2>7, MoneySettle
  <2>8. CASE \/ \E to \in {"confirmed", "preparing", "delivered"} : ReadToMove(s, to)
             \/ \E amount \in 1 .. Total : AskRefund(s, amount)
             \/ Replay(s) \/ RefuseRefund(s)
             \/ \E choice \in {"unsaid", "full", "none"} : ReadToCancel(s, choice)
             \/ CloseLinks(s) \/ Crash(s)
    BY <1>3, <1>7, <2>8, MoneyQuiet
  <2> QED
    BY <1>7, <2>1, <2>2, <2>3, <2>4, <2>5, <2>6, <2>7, <2>8, RequestIs, Zenon
<1>8. CASE UNCHANGED vars
  BY <1>8 DEF vars, MoneyInv, MoneyGoals, PaidAtOnce, SentBack, Answerable, KnowsMoney,
              CancelledIsAnswered, AllSentBack, Balance, Received, Moved, MovedOf,
              Unsettled, NotedOf, ProcessedOf
<1> QED
  BY <1>4, <1>5, <1>6, <1>7, <1>8 DEF Next

\* At first nothing was asked for, received or sent back.
LEMMA MoneyInit == Init => MoneyInv
<1> SUFFICES ASSUME Init PROVE MoneyInv
  OBVIOUS
<1>1. BooksInv /\ Alone /\ \A s \in Staff : job[s].op = "none"
  BY BooksInit, JobsAtFirst
<1>2. /\ \A l \in Links : link[l].rzp = "none" /\ ~link[l].recorded /\ link[l].amount = 0
      /\ \A t \in Tabs : tab[t].op = "none"
      /\ \A k \in Keys : refund[k].state = "none"
      /\ order.pay = "unpaid" /\ order.status # "cancelled"
  BY DEF Init, NoLink, NoRefund, Idle
<1>3. PaidAtOnce
  BY <1>2 DEF PaidAtOnce
<1>4. \A l \in Links : Moved(l) = 0
  <2> TAKE l \in Links
  <2>1. MovedOf(refund["cancel"], l) = 0 /\ MovedOf(refund["byHand"], l) = 0
    BY <1>1, <1>2, MovedOfIs, KeysAre
  <2> QED
    BY <2>1 DEF Moved
<1>5. SentBack
  BY <1>2, <1>4, KeysAre DEF SentBack
<1>6. Answerable /\ CancelledIsAnswered
  BY <1>1, <1>2 DEF Answerable, CancelledIsAnswered
<1> QED
  BY <1>1, <1>3, <1>5, <1>6 DEF MoneyInv

\* What was sent back of a link is the sum MoneyAnswered takes.
LEMMA MovedIs ==
    ASSUME BooksInv, NEW l \in Links
    PROVE  Moved(l) = TotalOf([k \in Keys |-> IF refund[k].of = l /\ refund[k].moved
                                              THEN refund[k].amount ELSE 0])
<1> DEFINE f == [k \in Keys |-> IF refund[k].of = l /\ refund[k].moved
                                THEN refund[k].amount ELSE 0]
<1>1. \A k \in Keys : f[k] = MovedOf(refund[k], l) /\ f[k] \in Nat
  <2> SUFFICES ASSUME NEW k \in Keys PROVE f[k] = MovedOf(refund[k], l) /\ f[k] \in Nat
    OBVIOUS
  <2>1. f[k] = MovedOf(refund[k], l)
    BY DEF MovedOf
  <2> QED
    BY <2>1, MovedOfIs
<1>2. f \in [Keys -> Nat]
  BY <1>1
<1>3. TotalOf(f) = f["cancel"] + f["byHand"]
  BY <1>2, TotalOfKeys
<1> HIDE DEF f
<1>4. f["cancel"] = MovedOf(refund["cancel"], l) /\ f["byHand"] = MovedOf(refund["byHand"], l)
  BY <1>1, KeysAre
<1>5. TotalOf(f) = Moved(l)
  BY <1>3, <1>4 DEF Moved
<1> QED
  BY <1>5 DEF f

\* As long as no link is paid over what is due, no payment is recorded and no other
\* request of the staff runs during a cancellation, and none is sent while a refund is
\* pending, all that was received of a cancelled order went back at Razorpay, unless
\* its owner chose to keep it.
THEOREM CancelledMoneyIsAnswered ==
    ASSUME Uses \cap {"advance", "payDuringCancel", "overlap", "cancelDuringRefund"} = {}
    PROVE  Spec => []MoneyAnswered
<1>1. Init => MoneyInv
  BY MoneyInit
<1>2. MoneyInv /\ [Next]_vars => MoneyInv'
  BY MoneyStep
<1>3. MoneyInv => MoneyAnswered
  <2> SUFFICES ASSUME MoneyInv, order.status = "cancelled", ~kept, NEW l \in Links
               PROVE  Received(l) = TotalOf([k \in Keys |->
                                        IF refund[k].of = l /\ refund[k].moved
                                        THEN refund[k].amount ELSE 0])
    BY DEF MoneyAnswered
  <2>1. Received(l) = Moved(l)
    BY DEF MoneyInv, CancelledIsAnswered, AllSentBack
  <2>2. Moved(l) = TotalOf([k \in Keys |-> IF refund[k].of = l /\ refund[k].moved
                                           THEN refund[k].amount ELSE 0])
    BY MovedIs DEF MoneyInv
  <2> QED
    BY <2>1, <2>2
<1> QED
  BY <1>1, <1>2, <1>3, PTL DEF Spec
=============================================================================
