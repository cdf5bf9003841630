----------------------------- MODULE StoreRefund -----------------------------
(***************************************************************************)
(* Refunding a paid store order (lib/store-payments/refund.ts): a row that *)
(* claims the amount, the refund at Razorpay, a credit note, and one       *)
(* transaction that settles the books, each its own commit.  A request can *)
(* die between any two of them, its call to Razorpay can time out, and a   *)
(* later request with the same key carries on.                             *)
(*                                                                         *)
(* Razorpay is modelled from how the code calls it: it makes a refund once *)
(* for each idempotency key, of no more than it captured.                  *)
(***************************************************************************)
EXTENDS Units

CONSTANTS
    Payments,    \* razorpay_payments of the order's invoice
    Captured,    \* what each came to
    Allocated,   \* what each had allocated to the invoice when it came in
    ByHand,      \* what other payments have allocated to it
    Total,       \* of the invoice, and of the order
    Keys,        \* idempotency keys that clients send
    Amounts,     \* amounts that they ask for
    Workers,     \* API processes that serve them
    NoKey, NoPayment,
    MaxCrashes,  \* bound on the requests that die
    Faults       \* which of the following happen

\* What a run may let happen.
KnownFaults == {
    "timeout",         \* a call to Razorpay that gets no answer
    "crash",           \* a request that dies between two steps, other than
    "crashAfterNote",  \* ... between making the note and recording it
    "slow"}            \* a request still at it 60 seconds after its last step

ASSUME RefundAssumption ==
    /\ IsFiniteSet(Payments) /\ IsFiniteSet(Keys)
    /\ Captured \in [Payments -> Nat \ {0}] /\ Allocated \in [Payments -> Nat]
    /\ ByHand \in Nat /\ Total \in Nat /\ Amounts \subseteq Nat \ {0}
    /\ NoKey \notin Keys /\ NoPayment \notin Payments
    /\ MaxCrashes \in Nat /\ Faults \subseteq KnownFaults

VARIABLES
    refund,    \* store_order_refunds, by idempotency key
    quiet,     \* the pending rows that were last touched over 60 seconds ago
    moved,     \* the rows whose refund Razorpay has made
    notes,     \* how many credit notes were made for each row
    books,     \* the invoice's paid amount, its allocations, and the order's refunded amount
    worker,    \* where each request stands
    crashes,   \* how many requests died
    lost       \* for each row, how many of them had made a note and not recorded it;
               \* kept for the properties only

vars == <<refund, quiet, moved, notes, books, worker, crashes, lost>>

Steps == {"idle", "insert", "ask", "recordRefund", "recordFailure", "makeNote", "recordNote",
          "settle"}

\* Sent for an amount that is left out: everything still refundable.
Everything == 0

Row == [status: {"none", "pending", "processed", "failed"}, payment: Payments \cup {NoPayment},
        amount: Nat, refunded: BOOLEAN, noted: BOOLEAN]

Idle == [step |-> "idle", key |-> NoKey, asked |-> Everything]

\* Between claiming its row and the end.
Working(c) == worker[c].step \notin {"idle", "insert"}

TypeOK ==
    /\ refund \in [Keys -> Row]
    /\ \A k \in Keys : refund[k].status # "none" =>
                          refund[k].payment \in Payments /\ refund[k].amount > 0
    /\ quiet \subseteq Keys /\ moved \subseteq Keys
    /\ notes \in [Keys -> Nat]
    /\ books \in [paid: Nat, alloc: [Payments -> Nat], refunded: Nat]
    /\ worker \in [Workers -> [step: Steps, key: Keys \cup {NoKey}, asked: Nat]]
    /\ \A c \in Workers : worker[c].step # "idle" => worker[c].key \in Keys
    /\ \A c \in Workers : Working(c) => refund[worker[c].key].status # "none"
    /\ crashes \in 0 .. MaxCrashes /\ lost \in [Keys -> Nat]

Init ==
    /\ refund = [k \in Keys |-> [status |-> "none", payment |-> NoPayment, amount |-> 0,
                                 refunded |-> FALSE, noted |-> FALSE]]
    /\ quiet = {} /\ moved = {}
    /\ notes = [k \in Keys |-> 0]
    /\ books = [paid |-> ByHand + TotalOf(Allocated), alloc |-> Allocated, refunded |-> 0]
    /\ worker = [c \in Workers |-> Idle]
    /\ crashes = 0 /\ lost = [k \in Keys |-> 0]

-----------------------------------------------------------------------------
\* A mistake for a run to find: rows that are pending do not count.
RemainingOfDone(p) ==
    Captured[p] - TotalOf([k \in Keys |->
        IF refund[k].status = "processed" /\ refund[k].payment = p THEN refund[k].amount ELSE 0])

\* What the rows that are pending or done leave of payment p.
Remaining(p) ==
    Captured[p] - TotalOf([k \in Keys |->
        IF refund[k].status \in {"pending", "processed"} /\ refund[k].payment = p
        THEN refund[k].amount ELSE 0])

\* The payment a request is refunded from: one with room for what it asks, or
\* the one with the most room.
Targets(asked) ==
    {p \in Payments : IF asked # Everything THEN Remaining(p) >= asked
                      ELSE Remaining(p) > 0 /\ \A q \in Payments : Remaining(q) <= Remaining(p)}

\* A mistake for a run to find: what was sent is stored as it is.
AmountAsSent(asked, p) == asked

AmountOf(asked, p) == IF asked = Everything THEN Remaining(p) ELSE asked

\* Mistakes for runs to find: a pending row is taken up at once, or never.
ClaimableAtOnce(k) == refund[k].status \in {"failed", "pending"}
ClaimableFailed(k) == refund[k].status = "failed"

\* An earlier attempt is carried on when it failed, or was interrupted.  There
\* is no second look at what the payment has left.
Claimable(k) ==
    \/ refund[k].status = "failed"
    \/ refund[k].status = "pending" /\ k \in quiet

\* Mistakes for runs to find: a pending row counts as refunded, and the note
\* that was recorded is not looked at.
FirstStepAssumed(row) == IF row.noted THEN "settle" ELSE "makeNote"
FirstStepNoNote(row) == IF row.refunded THEN "makeNote" ELSE "ask"

\* Where a claimed row carries on.
FirstStep(row) ==
    IF ~row.refunded THEN "ask" ELSE IF ~row.noted THEN "makeNote" ELSE "settle"

GoTo(c, step) == worker' = [worker EXCEPT ![c].step = step]
Stop(c) == worker' = [worker EXCEPT ![c] = Idle]

\* Every update of a row sets its updatedAt.
Touch(k, row) ==
    /\ refund' = [refund EXCEPT ![k] = row]
    /\ quiet' = quiet \ {k}

-----------------------------------------------------------------------------
(* 1. The row, or the earlier one this key already made.                   *)

New(c, k, asked) ==
    /\ worker[c].step = "idle" /\ refund[k].status = "none"
    /\ worker' = [worker EXCEPT ![c] = [step |-> "insert", key |-> k, asked |-> asked]]
    /\ UNCHANGED <<refund, quiet, moved, notes, books, crashes, lost>>

\* One update claims the row, so of two requests one gets it.  A request for
\* another amount, or for a row that is done or under way, changes nothing.
CarryOn(c, k) ==
    /\ worker[c].step = "idle" /\ Claimable(k)
    /\ Touch(k, [refund[k] EXCEPT !.status = "pending"])
    /\ worker' = [worker EXCEPT ![c] = [step |-> FirstStep(refund[k]), key |-> k,
                                        asked |-> refund[k].amount]]
    /\ UNCHANGED <<moved, notes, books, crashes, lost>>

\* Under the order's advisory lock, with the key unique.
Insert(c) ==
    LET k == worker[c].key
        a == worker[c].asked
    IN  /\ worker[c].step = "insert"
        /\ \/ /\ refund[k].status # "none" \/ Targets(a) = {}
              /\ Stop(c)
              /\ UNCHANGED <<refund, quiet>>
           \/ /\ refund[k].status = "none"
              /\ \E p \in Targets(a) :
                    Touch(k, [status |-> "pending", payment |-> p, amount |-> AmountOf(a, p),
                              refunded |-> FALSE, noted |-> FALSE])
              /\ GoTo(c, "ask")
        /\ UNCHANGED <<moved, notes, books, crashes, lost>>

-----------------------------------------------------------------------------
(* 2. Razorpay.                                                            *)

\* What Razorpay has refunded of payment p.
MovedOf(p) ==
    TotalOf([k \in Keys |-> IF k \in moved /\ refund[k].payment = p THEN refund[k].amount ELSE 0])

\* Razorpay makes the refund of row k, or made it before for the same key.
Moves(k) ==
    /\ k \in moved \/ MovedOf(refund[k].payment) + refund[k].amount <= Captured[refund[k].payment]
    /\ moved' = moved \cup {k}

Ask(c) ==
    /\ worker[c].step = "ask"
    /\ \/ Moves(worker[c].key) /\ GoTo(c, "recordRefund")
       \/ /\ worker[c].key \notin moved      \* refused
          /\ UNCHANGED moved /\ GoTo(c, "recordFailure")
       \/ /\ "timeout" \in Faults            \* made or not, no answer comes back
          /\ Moves(worker[c].key) \/ UNCHANGED moved
          /\ GoTo(c, "recordFailure")
    /\ UNCHANGED <<refund, quiet, notes, books, crashes, lost>>

\* A row that was still to be refunded when it was claimed had no note then.
RecordRefund(c) ==
    LET k == worker[c].key
    IN  /\ worker[c].step = "recordRefund"
        /\ Touch(k, [refund[k] EXCEPT !.refunded = TRUE, !.status = "pending"])
        /\ GoTo(c, "makeNote")
        /\ UNCHANGED <<moved, notes, books, crashes, lost>>

\* Any error of the call, one that got no answer included.
RecordFailure(c) ==
    LET k == worker[c].key
    IN  /\ worker[c].step = "recordFailure"
        /\ Touch(k, [refund[k] EXCEPT !.status = "failed"])
        /\ Stop(c)
        /\ UNCHANGED <<moved, notes, books, crashes, lost>>

-----------------------------------------------------------------------------
(* 3. The credit note.                                                     *)

\* What the notes against the invoice take off it.
Credited == TotalOf([k \in Keys |-> notes[k] * refund[k].amount])

\* creditNote.create, which refuses to credit more than the invoice has left.
MakeNote(c) ==
    LET k == worker[c].key
    IN  /\ worker[c].step = "makeNote"
        /\ IF Credited + refund[k].amount <= Total
           THEN notes' = [notes EXCEPT ![k] = @ + 1] /\ GoTo(c, "recordNote")
           ELSE UNCHANGED notes /\ Stop(c)
        /\ UNCHANGED <<refund, quiet, moved, books, crashes, lost>>

RecordNote(c) ==
    LET k == worker[c].key
    IN  /\ worker[c].step = "recordNote"
        /\ Touch(k, [refund[k] EXCEPT !.noted = TRUE])
        /\ GoTo(c, "settle")
        /\ UNCHANGED <<moved, notes, books, crashes, lost>>

-----------------------------------------------------------------------------
(* 4. Settle the books in one transaction.                                 *)

\* A mistake for a run to find: the allocation stays.
AllocationKept(alloc, p, amount) == alloc

AllocationLeft(alloc, p, amount) == [alloc EXCEPT ![p] = Greater(@ - amount, 0)]

\* applyInvoicePayment, the allocation row (dropped when nothing is left of it)
\* and the order.  The withdrawal from the gateway account equals refunded.
Settle(c) ==
    LET k   == worker[c].key
        row == refund[k]
    IN  /\ worker[c].step = "settle"
        /\ IF row.status = "processed" THEN UNCHANGED <<refund, quiet, books>>
           ELSE /\ books' = [paid |-> Greater(books.paid - row.amount, 0),
                             alloc |-> AllocationLeft(books.alloc, row.payment, row.amount),
                             refunded |-> books.refunded + row.amount]
                /\ Touch(k, [row EXCEPT !.status = "processed", !.noted = TRUE])
        /\ Stop(c)
        /\ UNCHANGED <<moved, notes, crashes, lost>>

-----------------------------------------------------------------------------
\* The process dies; what it committed stays.
Crash(c) ==
    /\ worker[c].step # "idle" /\ crashes < MaxCrashes
    /\ \/ "crash" \in Faults /\ worker[c].step # "recordNote" /\ UNCHANGED lost
       \/ /\ "crashAfterNote" \in Faults /\ worker[c].step = "recordNote"
          /\ lost' = [lost EXCEPT ![worker[c].key] = @ + 1]
    /\ Stop(c)
    /\ crashes' = crashes + 1
    /\ UNCHANGED <<refund, quiet, moved, notes, books>>

\* 60 seconds pass since the row was touched.  A request takes less than that
\* from one update of its row to the next, unless a run lets it be slow.
GoQuiet(k) ==
    /\ refund[k].status = "pending" /\ k \notin quiet
    /\ "slow" \in Faults \/ \A c \in Workers : ~(Working(c) /\ worker[c].key = k)
    /\ quiet' = quiet \cup {k}
    /\ UNCHANGED <<refund, moved, notes, books, worker, crashes, lost>>

Step(c) ==
    \/ Insert(c) \/ Ask(c) \/ RecordRefund(c) \/ RecordFailure(c)
    \/ MakeNote(c) \/ RecordNote(c) \/ Settle(c)

Next ==
    \/ \E c \in Workers :
        \/ \E k \in Keys, asked \in Amounts \cup {Everything} : New(c, k, asked)
        \/ \E k \in Keys : CarryOn(c, k)
        \/ Step(c)
        \/ Crash(c)
    \/ \E k \in Keys : GoQuiet(k)

Spec == Init /\ [][Next]_vars

\* A request that runs goes on, and who sent one that died sends it again.
FairSpec ==
    /\ Spec
    /\ \A c \in Workers : WF_vars(Step(c))
    /\ \A k \in Keys : WF_vars(GoQuiet(k)) /\ SF_vars(\E c \in Workers : CarryOn(c, k))

-----------------------------------------------------------------------------
(* Correctness.                                                            *)

\* What a row claims in the ledger.
ClaimOf(row) ==
    [state |-> CASE row.status = "none" -> "none"
                 [] row.status = "pending" -> "open"
                 [] row.status = "failed" -> "closed"
                 [] row.status = "processed" -> "paid",
     payment |-> row.payment, amount |-> row.amount]

Claims == [k \in Keys |-> ClaimOf(refund[k])]

Ledger == INSTANCE RefundLedger WITH claim <- Claims, paidOut <- books.refunded

\* Whatever dies and is sent again, a new row fits into what its payment has
\* left, and each row is settled once, within what was captured.
ImplementsLedger == Ledger!Spec

\* Nothing is booked for a refund that Razorpay has not made.
BooksFollowMoney ==
    \A k \in Keys : notes[k] > 0 \/ refund[k].status = "processed" => k \in moved

\* "One request at a time": nobody takes up a row another request works on.
OneRequestAtATime ==
    \A c, d \in Workers : Working(c) /\ Working(d) /\ worker[c].key = worker[d].key => c = d

\* However it is carried on, a refund is credited once, and once more for each of its
\* requests that died between making a note and recording it.
CreditedOnce == \A k \in Keys : notes[k] <= 1 + lost[k]

\* "Each step safe to repeat with the same idempotency key" (refund.ts:5), so no
\* refund has two credit notes, whatever is sent again.
OneNotePerRefund == \A k \in Keys : notes[k] <= 1

\* Settling a refund keeps "amount paid = what payments allocated" true, next to
\* payments made by hand.
PaidMatchesAllocations == books.paid = ByHand + TotalOf(books.alloc)

\* A repeat of an interrupted request carries on from where it stopped, so a
\* refund that was started is done or refused in the end.  Only a note that no
\* refund has on record stands in the way: it takes up what the invoice can be
\* credited, and refunds whose own note is refused for it stay pending.
EveryRefundEnds ==
    \A k \in Keys :
        refund[k].status = "pending" ~> \/ refund[k].status \in {"processed", "failed"}
                                       \/ \E j \in Keys : lost[j] > 0
=============================================================================
