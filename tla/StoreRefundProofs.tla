-------------------------- MODULE StoreRefundProofs --------------------------
(***************************************************************************)
(* Refunding an order implements the ledger of refunds, for any payments,  *)
(* requests and processes and any number of crashes and timeouts, as long  *)
(* as no request is slow.                                                  *)
(*                                                                         *)
(* A row that a request works on is pending and was touched in the last 60 *)
(* seconds, so nobody else takes it up (WorkIsClaimed); a row is booked    *)
(* only once Razorpay has made its refund (BookedIsMoved), and Razorpay    *)
(* makes refunds within what it captured (MovedWithinCaptured).  So the    *)
(* rows that are settled come to no more than was captured, and each is    *)
(* settled by the one request that works on it.                            *)
(***************************************************************************)
EXTENDS StoreRefund, UnitsProofs, TLAPS

\* The steps after Razorpay has made the refund.
BooksSteps == {"recordRefund", "makeNote", "recordNote", "settle"}

\* A row under work is pending and fresh, and one request works on it.
WorkIsClaimed ==
    /\ \A c \in Workers : Working(c) =>
         refund[worker[c].key].status = "pending" /\ worker[c].key \notin quiet
    /\ OneRequestAtATime

\* What is recorded, credited or settled, or about to be, has been refunded.
BookedIsMoved ==
    /\ \A k \in moved : refund[k].status # "none"
    /\ \A k \in Keys : refund[k].refunded => k \in moved
    /\ BooksFollowMoney
    /\ \A c \in Workers : worker[c].step \in BooksSteps => worker[c].key \in moved

MovedWithinCaptured == \A p \in Payments : MovedOf(p) <= Captured[p]

Inv == TypeOK /\ WorkIsClaimed /\ BookedIsMoved /\ MovedWithinCaptured

-----------------------------------------------------------------------------
\* The sums of the model are over finite sets, so they are natural numbers.
LEMMA SumsAreNat ==
    ASSUME TypeOK, NEW p \in Payments
    PROVE  /\ Remaining(p) \in Int /\ Remaining(p) <= Captured[p]
           /\ Captured[p] \in Nat
           /\ MovedOf(p) \in Nat
<1> DEFINE f == [k \in Keys |-> IF refund[k].status \in {"pending", "processed"} /\ refund[k].payment = p
                                THEN refund[k].amount ELSE 0]
           g == [k \in Keys |-> IF k \in moved /\ refund[k].payment = p
                                THEN refund[k].amount ELSE 0]
<1>1. f \in [Keys -> Nat] /\ g \in [Keys -> Nat]
  BY DEF TypeOK, Row
<1>2. Remaining(p) = Captured[p] - TotalOf(f) /\ MovedOf(p) = TotalOf(g)
  BY DEF Remaining, MovedOf
<1>3. Captured[p] \in Nat
  BY RefundAssumption
<1> HIDE DEF f, g
<1>4. TotalOf(f) \in Nat /\ TotalOf(g) \in Nat
  BY <1>1, TotalIsNat, RefundAssumption
<1> QED
  BY <1>2, <1>3, <1>4

\* Razorpay's refunds and the notes are whole amounts.
LEMMA CreditedIsNat ==
    ASSUME TypeOK
    PROVE  Credited \in Nat
<1> DEFINE f == [k \in Keys |-> notes[k] * refund[k].amount]
<1>1. f \in [Keys -> Nat]
  BY DEF TypeOK, Row
<1>2. Credited = TotalOf(f)
  BY DEF Credited
<1> HIDE DEF f
<1> QED
  BY <1>1, <1>2, TotalIsNat, RefundAssumption

\* The books start with what the payments allocated.
LEMMA InitTyped == Init => TypeOK
<1> SUFFICES ASSUME Init PROVE TypeOK
  OBVIOUS
<1>1. TotalOf(Allocated) \in Nat
  <2>1. PICK g \in [Payments -> Nat] : g = Allocated
    BY RefundAssumption
  <2>2. IsFiniteSet(Payments)
    BY RefundAssumption
  <2> QED
    BY <2>1, <2>2, TotalIsNat
<1>2. books \in [paid: Nat, alloc: [Payments -> Nat], refunded: Nat]
  BY <1>1, RefundAssumption DEF Init
<1> QED
  BY <1>2, RefundAssumption DEF Init, TypeOK, Row, Idle, Steps, Everything, Working

\* What a step writes into a row leaves it a row, of the same payment and amount.
LEMMA UpdatesTyped ==
    ASSUME NEW row \in Row
    PROVE  /\ [row EXCEPT !.status = "pending"] \in Row
           /\ [row EXCEPT !.status = "failed"] \in Row
           /\ [row EXCEPT !.noted = TRUE] \in Row
           /\ [row EXCEPT !.refunded = TRUE, !.status = "pending"] \in Row
           /\ [row EXCEPT !.status = "processed", !.noted = TRUE] \in Row
<1>1. \A r \in Row : /\ [r EXCEPT !.status = "pending"] \in Row
                     /\ [r EXCEPT !.status = "failed"] \in Row
                     /\ [r EXCEPT !.status = "processed"] \in Row
  BY DEF Row
<1>2. \A r \in Row : [r EXCEPT !.noted = TRUE] \in Row /\ [r EXCEPT !.refunded = TRUE] \in Row
  BY DEF Row
<1>3. /\ [row EXCEPT !.refunded = TRUE, !.status = "pending"]
            = [[row EXCEPT !.refunded = TRUE] EXCEPT !.status = "pending"]
      /\ [row EXCEPT !.status = "processed", !.noted = TRUE]
            = [[row EXCEPT !.status = "processed"] EXCEPT !.noted = TRUE]
  BY DEF Row
<1> QED
  BY <1>1, <1>2, <1>3

\* Where a request goes to, with its row.
LEMMA WorkerTyped ==
    ASSUME TypeOK, NEW c \in Workers,
           \/ Stop(c)
           \/ \E step \in Steps : GoTo(c, step) /\ worker[c].step # "idle"
    PROVE  /\ worker' \in [Workers -> [step: Steps, key: Keys \cup {NoKey}, asked: Nat]]
           /\ \A d \in Workers : worker'[d].step # "idle" => worker'[d].key \in Keys
           /\ \A d \in Workers : Working(d)' =>
                worker'[d].key = worker[c].key \/ (Working(d) /\ worker'[d] = worker[d])
BY DEF TypeOK, Stop, GoTo, Idle, Steps, Everything, Working

\* A step that writes one row and moves on the request that works on it leaves
\* everything well formed.
LEMMA TouchedTyped ==
    ASSUME TypeOK, NEW k \in Keys, NEW row \in Row,
           row.status # "none", row.payment \in Payments, row.amount > 0, Touch(k, row),
           worker' \in [Workers -> [step: Steps, key: Keys \cup {NoKey}, asked: Nat]],
           \A d \in Workers : worker'[d].step # "idle" => worker'[d].key \in Keys,
           \A d \in Workers : Working(d)' =>
                worker'[d].key = k \/ (Working(d) /\ worker'[d] = worker[d]),
           UNCHANGED <<moved, notes, crashes, lost>>,
           \/ UNCHANGED books
           \/ books' \in [paid: Nat, alloc: [Payments -> Nat], refunded: Nat]
    PROVE  TypeOK'
<1>1. /\ refund' \in [Keys -> Row] /\ quiet' \subseteq Keys
      /\ refund'[k] = row /\ \A j \in Keys \ {k} : refund'[j] = refund[j]
  BY DEF TypeOK, Touch
<1>2. \A j \in Keys : refund'[j].status # "none" =>
                        refund'[j].payment \in Payments /\ refund'[j].amount > 0
  BY <1>1 DEF TypeOK
<1>3. \A d \in Workers : Working(d)' => refund'[worker'[d].key].status # "none"
  <2> SUFFICES ASSUME NEW d \in Workers, Working(d)'
               PROVE  refund'[worker'[d].key].status # "none"
    OBVIOUS
  <2>1. worker'[d].key \in Keys
    BY DEF Working
  <2> QED
    BY <1>1, <2>1 DEF TypeOK
<1> QED
  BY <1>1, <1>2, <1>3 DEF TypeOK

-----------------------------------------------------------------------------
\* A new row claims a positive amount of one payment, within what it has left.
LEMMA TargetHasRoom ==
    ASSUME TypeOK, NEW c \in Workers, NEW p \in Targets(worker[c].asked)
    PROVE  /\ p \in Payments
           /\ AmountOf(worker[c].asked, p) \in 1 .. Captured[p]
           /\ AmountOf(worker[c].asked, p) <= Remaining(p)
<1>1. p \in Payments /\ worker[c].asked \in Nat
  BY DEF Targets, TypeOK
<1>2. Remaining(p) \in Int /\ Remaining(p) <= Captured[p] /\ Captured[p] \in Nat
  BY <1>1, SumsAreNat
<1>3. IF worker[c].asked # Everything THEN Remaining(p) >= worker[c].asked ELSE Remaining(p) > 0
  BY DEF Targets
<1> QED
  BY <1>1, <1>2, <1>3 DEF AmountOf, Everything

\* Every step of a request, every death and every pause leaves the rows, the
\* books and the requests well formed.
LEMMA StepTyped == TypeOK /\ [Next]_vars => TypeOK'
<1> SUFFICES ASSUME TypeOK, [Next]_vars PROVE TypeOK'
  OBVIOUS
<1> USE DEF vars
<1>1. ASSUME NEW c \in Workers, NEW k \in Keys, NEW asked \in Amounts \cup {Everything},
             New(c, k, asked)
      PROVE  TypeOK'
  <2>1. asked \in Nat
    BY RefundAssumption DEF Everything
  <2> QED
    BY <1>1, <2>1 DEF New, TypeOK, Steps, Working
<1>2. ASSUME NEW c \in Workers, NEW k \in Keys, CarryOn(c, k) PROVE TypeOK'
  <2> DEFINE row == [refund[k] EXCEPT !.status = "pending"]
  <2>1. refund[k].status # "none" /\ refund[k] \in Row
    BY <1>2 DEF CarryOn, Claimable, TypeOK
  <2>2. row \in Row
    BY <2>1, UpdatesTyped
  <2>3. row.status # "none" /\ row.payment \in Payments /\ row.amount > 0
    BY <2>1 DEF TypeOK, Row
  <2>4. Touch(k, row)
    BY <1>2 DEF CarryOn
  <2>5. FirstStep(refund[k]) \in Steps /\ refund[k].amount \in Nat
    BY <2>1 DEF FirstStep, Steps, Row
  <2> HIDE DEF row
  <2>6. /\ worker' \in [Workers -> [step: Steps, key: Keys \cup {NoKey}, asked: Nat]]
        /\ \A d \in Workers : worker'[d].step # "idle" => worker'[d].key \in Keys
        /\ \A d \in Workers : Working(d)' => worker'[d].key = k \/ (Working(d) /\ worker'[d] = worker[d])
    BY <1>2, <2>5 DEF CarryOn, TypeOK, Working
  <2> QED
    BY <1>2, <2>2, <2>3, <2>4, <2>6, TouchedTyped DEF CarryOn
<1>3. ASSUME NEW c \in Workers, Insert(c) PROVE TypeOK'
  <2>1. worker[c].key \in Keys /\ worker[c].step # "idle"
    BY <1>3 DEF Insert, TypeOK
  <2>2. CASE Stop(c) /\ UNCHANGED <<refund, quiet>>
    BY <1>3, <2>2 DEF Insert, Stop, Idle, TypeOK, Steps, Everything, Working
  <2>3. ASSUME NEW p \in Targets(worker[c].asked), GoTo(c, "ask"),
               Touch(worker[c].key, [status |-> "pending", payment |-> p,
                     amount |-> AmountOf(worker[c].asked, p), refunded |-> FALSE, noted |-> FALSE])
        PROVE  TypeOK'
    <3> DEFINE row == [status |-> "pending", payment |-> p,
                       amount |-> AmountOf(worker[c].asked, p), refunded |-> FALSE, noted |-> FALSE]
    <3>1. p \in Payments /\ AmountOf(worker[c].asked, p) \in 1 .. Captured[p]
      BY TargetHasRoom
    <3>2. AmountOf(worker[c].asked, p) \in Nat /\ AmountOf(worker[c].asked, p) > 0
      BY <3>1, RefundAssumption
    <3>3. row \in Row /\ row.status # "none" /\ row.payment \in Payments /\ row.amount > 0
      BY <3>1, <3>2 DEF Row
    <3>4. Touch(worker[c].key, row)
      BY <2>3
    <3> HIDE DEF row
    <3>5. /\ worker' \in [Workers -> [step: Steps, key: Keys \cup {NoKey}, asked: Nat]]
          /\ \A d \in Workers : worker'[d].step # "idle" => worker'[d].key \in Keys
          /\ \A d \in Workers : Working(d)' =>
               worker'[d].key = worker[c].key \/ (Working(d) /\ worker'[d] = worker[d])
      BY <2>1, <2>3, WorkerTyped DEF Steps
    <3> QED
      BY <1>3, <2>1, <3>3, <3>4, <3>5, TouchedTyped DEF Insert
  <2> QED
    BY <1>3, <2>2, <2>3 DEF Insert
<1>4. ASSUME NEW c \in Workers, Ask(c) PROVE TypeOK'
  <2>1. worker[c].key \in Keys /\ Working(c)
    BY <1>4 DEF Ask, TypeOK, Working
  <2>2. /\ worker' \in [Workers -> [step: Steps, key: Keys \cup {NoKey}, asked: Nat]]
        /\ \A d \in Workers : worker'[d].step # "idle" => worker'[d].key \in Keys
        /\ \A d \in Workers : Working(d)' => (worker'[d].key = worker[c].key /\ Working(c))
                                             \/ (Working(d) /\ worker'[d] = worker[d])
    BY <1>4, <2>1, WorkerTyped DEF Ask, Steps, Working
  <2> QED
    BY <1>4, <2>1, <2>2 DEF Ask, Moves, TypeOK
<1>5. ASSUME NEW c \in Workers, RecordRefund(c) PROVE TypeOK'
  <2> DEFINE k == worker[c].key
             row == [refund[k] EXCEPT !.refunded = TRUE, !.status = "pending"]
  <2>1. k \in Keys /\ refund[k] \in Row /\ refund[k].status # "none"
    BY <1>5 DEF RecordRefund, TypeOK, Working
  <2>2. row \in Row /\ row.payment = refund[k].payment /\ row.amount = refund[k].amount
        /\ row.status # "none"
    BY <2>1, UpdatesTyped DEF Row
  <2>3. row.payment \in Payments /\ row.amount > 0
    BY <2>1, <2>2 DEF TypeOK
  <2>4. Touch(k, row)
    BY <1>5 DEF RecordRefund
  <2> HIDE DEF row
  <2>5. /\ worker' \in [Workers -> [step: Steps, key: Keys \cup {NoKey}, asked: Nat]]
        /\ \A d \in Workers : worker'[d].step # "idle" => worker'[d].key \in Keys
        /\ \A d \in Workers : Working(d)' => worker'[d].key = k \/ (Working(d) /\ worker'[d] = worker[d])
    BY <1>5, WorkerTyped DEF RecordRefund, Steps
  <2> QED
    BY <1>5, <2>1, <2>2, <2>3, <2>4, <2>5, TouchedTyped DEF RecordRefund
<1>6. ASSUME NEW c \in Workers, RecordFailure(c) PROVE TypeOK'
  <2> DEFINE k == worker[c].key
             row == [refund[k] EXCEPT !.status = "failed"]
  <2>1. k \in Keys /\ refund[k] \in Row /\ refund[k].status # "none"
    BY <1>6 DEF RecordFailure, TypeOK, Working
  <2>2. row \in Row /\ row.payment = refund[k].payment /\ row.amount = refund[k].amount
        /\ row.status # "none"
    BY <2>1, UpdatesTyped DEF Row
  <2>3. row.payment \in Payments /\ row.amount > 0
    BY <2>1, <2>2 DEF TypeOK
  <2>4. Touch(k, row)
    BY <1>6 DEF RecordFailure
  <2> HIDE DEF row
  <2>5. /\ worker' \in [Workers -> [step: Steps, key: Keys \cup {NoKey}, asked: Nat]]
        /\ \A d \in Workers : worker'[d].step # "idle" => worker'[d].key \in Keys
        /\ \A d \in Workers : Working(d)' => worker'[d].key = k \/ (Working(d) /\ worker'[d] = worker[d])
    BY <1>6, WorkerTyped DEF RecordFailure, Steps
  <2> QED
    BY <1>6, <2>1, <2>2, <2>3, <2>4, <2>5, TouchedTyped DEF RecordFailure
<1>7. ASSUME NEW c \in Workers, MakeNote(c) PROVE TypeOK'
  <2>1. worker[c].key \in Keys /\ Working(c)
    BY <1>7 DEF MakeNote, TypeOK, Working
  <2>2. /\ worker' \in [Workers -> [step: Steps, key: Keys \cup {NoKey}, asked: Nat]]
        /\ \A d \in Workers : worker'[d].step # "idle" => worker'[d].key \in Keys
        /\ \A d \in Workers : Working(d)' => (worker'[d].key = worker[c].key /\ Working(c))
                                             \/ (Working(d) /\ worker'[d] = worker[d])
    BY <1>7, <2>1, WorkerTyped DEF MakeNote, Steps, Working
  <2>3. notes' \in [Keys -> Nat]
    BY <1>7, <2>1 DEF MakeNote, TypeOK
  <2> QED
    BY <1>7, <2>1, <2>2, <2>3 DEF MakeNote, TypeOK
<1>8. ASSUME NEW c \in Workers, RecordNote(c) PROVE TypeOK'
  <2> DEFINE k == worker[c].key
             row == [refund[k] EXCEPT !.noted = TRUE]
  <2>1. k \in Keys /\ refund[k] \in Row /\ refund[k].status # "none"
    BY <1>8 DEF RecordNote, TypeOK, Working
  <2>2. row \in Row /\ row.payment = refund[k].payment /\ row.amount = refund[k].amount
        /\ row.status # "none"
    BY <2>1, UpdatesTyped DEF Row
  <2>3. row.payment \in Payments /\ row.amount > 0
    BY <2>1, <2>2 DEF TypeOK
  <2>4. Touch(k, row)
    BY <1>8 DEF RecordNote
  <2> HIDE DEF row
  <2>5. /\ worker' \in [Workers -> [step: Steps, key: Keys \cup {NoKey}, asked: Nat]]
        /\ \A d \in Workers : worker'[d].step # "idle" => worker'[d].key \in Keys
        /\ \A d \in Workers : Working(d)' => worker'[d].key = k \/ (Working(d) /\ worker'[d] = worker[d])
    BY <1>8, WorkerTyped DEF RecordNote, Steps
  <2> QED
    BY <1>8, <2>1, <2>2, <2>3, <2>4, <2>5, TouchedTyped DEF RecordNote
<1>9. ASSUME NEW c \in Workers, Settle(c) PROVE TypeOK'
  <2> DEFINE k == worker[c].key
             row == [refund[k] EXCEPT !.status = "processed", !.noted = TRUE]
  <2>1. k \in Keys /\ refund[k] \in Row /\ refund[k].status # "none"
    BY <1>9 DEF Settle, TypeOK, Working
  <2>2. row \in Row /\ row.payment = refund[k].payment /\ row.amount = refund[k].amount
        /\ row.status # "none"
    BY <2>1, UpdatesTyped DEF Row
  <2>3. row.payment \in Payments /\ row.amount > 0 /\ refund[k].amount \in Nat
    BY <2>1, <2>2 DEF TypeOK, Row
  <2>4. /\ worker' \in [Workers -> [step: Steps, key: Keys \cup {NoKey}, asked: Nat]]
        /\ \A d \in Workers : worker'[d].step # "idle" => worker'[d].key \in Keys
        /\ \A d \in Workers : Working(d)' => worker'[d].key = k \/ (Working(d) /\ worker'[d] = worker[d])
    BY <1>9, WorkerTyped DEF Settle
  <2>5. CASE UNCHANGED <<refund, quiet, books>>
    BY <1>9, <2>1, <2>4, <2>5 DEF Settle, TypeOK
  <2>6. CASE ~UNCHANGED <<refund, quiet, books>>
    <3>1. /\ Touch(k, row)
          /\ books' = [paid |-> Greater(books.paid - refund[k].amount, 0),
                       alloc |-> AllocationLeft(books.alloc, refund[k].payment, refund[k].amount),
                       refunded |-> books.refunded + refund[k].amount]
      BY <1>9, <2>6 DEF Settle
    <3>2. Greater(books.paid - refund[k].amount, 0) \in Nat
      BY <2>3 DEF Greater, TypeOK
    <3>3. AllocationLeft(books.alloc, refund[k].payment, refund[k].amount) \in [Payments -> Nat]
      BY <2>2, <2>3 DEF AllocationLeft, Greater, TypeOK
    <3>4. books.refunded + refund[k].amount \in Nat
      BY <2>3 DEF TypeOK
    <3>5. books' \in [paid: Nat, alloc: [Payments -> Nat], refunded: Nat]
      BY <3>1, <3>2, <3>3, <3>4
    <3> HIDE DEF row
    <3> QED
      BY <1>9, <2>1, <2>2, <2>3, <2>4, <3>1, <3>5, TouchedTyped DEF Settle
  <2> QED
    BY <2>5, <2>6
<1>10. ASSUME NEW c \in Workers, Crash(c) PROVE TypeOK'
  <2>1. /\ worker' \in [Workers -> [step: Steps, key: Keys \cup {NoKey}, asked: Nat]]
        /\ \A d \in Workers : worker'[d].step # "idle" => worker'[d].key \in Keys
        /\ \A d \in Workers : Working(d)' => Working(d) /\ worker'[d] = worker[d]
    BY <1>10 DEF Crash, Stop, Idle, TypeOK, Steps, Everything, Working
  <2>2. crashes' \in 0 .. MaxCrashes
    BY <1>10, RefundAssumption DEF Crash, TypeOK
  <2> QED
    BY <1>10, <2>1, <2>2 DEF Crash, TypeOK
<1>11. ASSUME NEW k \in Keys, GoQuiet(k) PROVE TypeOK'
  BY <1>11 DEF GoQuiet, TypeOK, Working
<1>12. CASE UNCHANGED vars
  BY <1>12 DEF TypeOK, Working
<1> QED
  BY <1>1, <1>2, <1>3, <1>4, <1>5, <1>6, <1>7, <1>8, <1>9, <1>10, <1>11, <1>12 DEF Next, Step

\* The type invariant holds of every state that refunding reaches.
THEOREM TypeCorrect == Spec => []TypeOK
BY InitTyped, StepTyped, PTL DEF Spec

-----------------------------------------------------------------------------
\* A request that works on a row it claims, or goes on with the row it works on,
\* and leaves the row pending and fresh, is alone with it.
LEMMA ClaimKept ==
    ASSUME TypeOK, WorkIsClaimed, NEW c \in Workers, NEW k \in Keys,
           worker'[c].key = k /\ Working(c)' => refund'[k].status = "pending" /\ k \notin quiet',
           \A j \in Keys \ {k} : refund'[j] = refund[j] /\ (j \in quiet' => j \in quiet),
           \A d \in Workers \ {c} : worker'[d] = worker[d],
           Working(c)' => worker'[c].key = k,
           \A d \in Workers \ {c} : Working(d) => worker[d].key # k
    PROVE  WorkIsClaimed'
<1>1. ASSUME NEW d \in Workers, Working(d)'
      PROVE  refund'[worker'[d].key].status = "pending" /\ worker'[d].key \notin quiet'
  <2>1. CASE d = c
    BY <1>1, <2>1
  <2>2. CASE d # c
    <3>1. Working(d) /\ worker[d].key \in Keys \ {k} /\ worker'[d] = worker[d]
      BY <1>1, <2>2 DEF Working, TypeOK
    <3> QED
      BY <3>1 DEF WorkIsClaimed
  <2> QED
    BY <2>1, <2>2
<1>2. ASSUME NEW d \in Workers, NEW e \in Workers, Working(d)', Working(e)',
             worker'[d].key = worker'[e].key
      PROVE  d = e
  <2>1. \A f \in Workers \ {c} : Working(f)' => Working(f) /\ worker'[f].key # k
    BY DEF Working
  <2> QED
    BY <1>2, <2>1 DEF WorkIsClaimed, OneRequestAtATime, Working
<1> QED
  BY <1>1, <1>2 DEF WorkIsClaimed, OneRequestAtATime

\* As long as no request is slow, a row is taken up only when nobody works on it.
LEMMA StepClaimed ==
    ASSUME "slow" \notin Faults, TypeOK, WorkIsClaimed, [Next]_vars
    PROVE  WorkIsClaimed'
<1>1. ASSUME NEW c \in Workers, NEW k \in Keys, NEW asked \in Amounts \cup {Everything},
             New(c, k, asked)
      PROVE  WorkIsClaimed'
  <2>1. /\ ~Working(c)' /\ UNCHANGED <<refund, quiet>>
        /\ \A d \in Workers \ {c} : worker'[d] = worker[d]
    BY <1>1 DEF New, Working, TypeOK
  <2> QED
    BY <2>1 DEF WorkIsClaimed, OneRequestAtATime, Working
<1>2. ASSUME NEW c \in Workers, NEW k \in Keys, CarryOn(c, k) PROVE WorkIsClaimed'
  <2>1. \A d \in Workers : Working(d) => worker[d].key # k
    BY <1>2 DEF CarryOn, Claimable, WorkIsClaimed
  <2>2. /\ refund'[k].status = "pending" /\ k \notin quiet'
        /\ \A j \in Keys \ {k} : refund'[j] = refund[j] /\ (j \in quiet' => j \in quiet)
    BY <1>2 DEF CarryOn, Touch, TypeOK, Row
  <2>3. worker'[c].key = k /\ \A d \in Workers \ {c} : worker'[d] = worker[d]
    BY <1>2 DEF CarryOn, TypeOK
  <2> QED
    BY <2>1, <2>2, <2>3, ClaimKept
<1>3. ASSUME NEW c \in Workers, Insert(c) PROVE WorkIsClaimed'
  <2>1. worker[c].key \in Keys /\ ~Working(c)
    BY <1>3 DEF Insert, TypeOK, Working
  <2>2. CASE Stop(c) /\ UNCHANGED <<refund, quiet>>
    <3>1. ~Working(c)' /\ \A d \in Workers \ {c} : worker'[d] = worker[d]
      BY <2>2 DEF Stop, Idle, Working, TypeOK
    <3> QED
      BY <2>2, <3>1 DEF WorkIsClaimed, OneRequestAtATime, Working
  <2>3. ASSUME refund[worker[c].key].status = "none", GoTo(c, "ask"),
               NEW p \in Targets(worker[c].asked),
               Touch(worker[c].key, [status |-> "pending", payment |-> p,
                     amount |-> AmountOf(worker[c].asked, p), refunded |-> FALSE, noted |-> FALSE])
        PROVE  WorkIsClaimed'
    <3> DEFINE k == worker[c].key
    <3>1. \A d \in Workers : Working(d) => worker[d].key # k
      BY <2>3 DEF WorkIsClaimed
    <3>2. /\ refund'[k].status = "pending" /\ k \notin quiet'
          /\ \A j \in Keys \ {k} : refund'[j] = refund[j] /\ (j \in quiet' => j \in quiet)
      BY <2>1, <2>3 DEF Touch, TypeOK
    <3>3. worker'[c].key = k /\ \A d \in Workers \ {c} : worker'[d] = worker[d]
      BY <2>3 DEF GoTo, TypeOK
    <3> HIDE DEF k
    <3> QED
      BY <2>1, <3>1, <3>2, <3>3, ClaimKept DEF k
  <2> QED
    BY <1>3, <2>2, <2>3 DEF Insert
<1>4. ASSUME NEW c \in Workers, Ask(c) PROVE WorkIsClaimed'
  <2> DEFINE k == worker[c].key
  <2>1. k \in Keys /\ Working(c)
    BY <1>4 DEF Ask, TypeOK, Working
  <2>2. \A d \in Workers \ {c} : Working(d) => worker[d].key # k
    BY <2>1 DEF WorkIsClaimed, OneRequestAtATime
  <2>3. \A j \in Keys \ {k} : refund'[j] = refund[j] /\ (j \in quiet' => j \in quiet)
    BY <1>4, <2>1 DEF Ask, Touch, TypeOK
  <2>4. /\ \A d \in Workers \ {c} : worker'[d] = worker[d]
        /\ Working(c)' => worker'[c].key = k
    BY <1>4 DEF Ask, GoTo, Stop, Idle, Working, TypeOK
  <2>5. Working(c)' => refund'[k].status = "pending" /\ k \notin quiet'
    BY <1>4, <2>1 DEF Ask, Touch, Stop, Idle, Working, WorkIsClaimed, TypeOK, Row
  <2> HIDE DEF k
  <2> QED
    BY <2>1, <2>2, <2>3, <2>4, <2>5, ClaimKept
<1>5. ASSUME NEW c \in Workers, RecordRefund(c) PROVE WorkIsClaimed'
  <2> DEFINE k == worker[c].key
  <2>1. k \in Keys /\ Working(c)
    BY <1>5 DEF RecordRefund, TypeOK, Working
  <2>2. \A d \in Workers \ {c} : Working(d) => worker[d].key # k
    BY <2>1 DEF WorkIsClaimed, OneRequestAtATime
  <2>3. \A j \in Keys \ {k} : refund'[j] = refund[j] /\ (j \in quiet' => j \in quiet)
    BY <1>5, <2>1 DEF RecordRefund, Touch, TypeOK
  <2>4. /\ \A d \in Workers \ {c} : worker'[d] = worker[d]
        /\ Working(c)' => worker'[c].key = k
    BY <1>5 DEF RecordRefund, GoTo, Stop, Idle, Working, TypeOK
  <2>5. Working(c)' => refund'[k].status = "pending" /\ k \notin quiet'
    BY <1>5, <2>1 DEF RecordRefund, Touch, Stop, Idle, Working, WorkIsClaimed, TypeOK, Row
  <2> HIDE DEF k
  <2> QED
    BY <2>1, <2>2, <2>3, <2>4, <2>5, ClaimKept
<1>6. ASSUME NEW c \in Workers, RecordFailure(c) PROVE WorkIsClaimed'
  <2> DEFINE k == worker[c].key
  <2>1. k \in Keys /\ Working(c)
    BY <1>6 DEF RecordFailure, TypeOK, Working
  <2>2. \A d \in Workers \ {c} : Working(d) => worker[d].key # k
    BY <2>1 DEF WorkIsClaimed, OneRequestAtATime
  <2>3. \A j \in Keys \ {k} : refund'[j] = refund[j] /\ (j \in quiet' => j \in quiet)
    BY <1>6, <2>1 DEF RecordFailure, Touch, TypeOK
  <2>4. /\ \A d \in Workers \ {c} : worker'[d] = worker[d]
        /\ Working(c)' => worker'[c].key = k
    BY <1>6 DEF RecordFailure, GoTo, Stop, Idle, Working, TypeOK
  <2>5. Working(c)' => refund'[k].status = "pending" /\ k \notin quiet'
    BY <1>6, <2>1 DEF RecordFailure, Touch, Stop, Idle, Working, WorkIsClaimed, TypeOK, Row
  <2> HIDE DEF k
  <2> QED
    BY <2>1, <2>2, <2>3, <2>4, <2>5, ClaimKept
<1>7. ASSUME NEW c \in Workers, MakeNote(c) PROVE WorkIsClaimed'
  <2> DEFINE k == worker[c].key
  <2>1. k \in Keys /\ Working(c)
    BY <1>7 DEF MakeNote, TypeOK, Working
  <2>2. \A d \in Workers \ {c} : Working(d) => worker[d].key # k
    BY <2>1 DEF WorkIsClaimed, OneRequestAtATime
  <2>3. \A j \in Keys \ {k} : refund'[j] = refund[j] /\ (j \in quiet' => j \in quiet)
    BY <1>7, <2>1 DEF MakeNote, Touch, TypeOK
  <2>4. /\ \A d \in Workers \ {c} : worker'[d] = worker[d]
        /\ Working(c)' => worker'[c].key = k
    BY <1>7 DEF MakeNote, GoTo, Stop, Idle, Working, TypeOK
  <2>5. Working(c)' => refund'[k].status = "pending" /\ k \notin quiet'
    BY <1>7, <2>1 DEF MakeNote, Touch, Stop, Idle, Working, WorkIsClaimed, TypeOK, Row
  <2> HIDE DEF k
  <2> QED
    BY <2>1, <2>2, <2>3, <2>4, <2>5, ClaimKept
<1>8. ASSUME NEW c \in Workers, RecordNote(c) PROVE WorkIsClaimed'
  <2> DEFINE k == worker[c].key
  <2>1. k \in Keys /\ Working(c)
    BY <1>8 DEF RecordNote, TypeOK, Working
  <2>2. \A d \in Workers \ {c} : Working(d) => worker[d].key # k
    BY <2>1 DEF WorkIsClaimed, OneRequestAtATime
  <2>3. \A j \in Keys \ {k} : refund'[j] = refund[j] /\ (j \in quiet' => j \in quiet)
    BY <1>8, <2>1 DEF RecordNote, Touch, TypeOK
  <2>4. /\ \A d \in Workers \ {c} : worker'[d] = worker[d]
        /\ Working(c)' => worker'[c].key = k
    BY <1>8 DEF RecordNote, GoTo, Stop, Idle, Working, TypeOK
  <2>5. Working(c)' => refund'[k].status = "pending" /\ k \notin quiet'
    BY <1>8, <2>1 DEF RecordNote, Touch, Stop, Idle, Working, WorkIsClaimed, TypeOK, Row
  <2> HIDE DEF k
  <2> QED
    BY <2>1, <2>2, <2>3, <2>4, <2>5, ClaimKept
<1>9. ASSUME NEW c \in Workers, Settle(c) PROVE WorkIsClaimed'
  <2> DEFINE k == worker[c].key
  <2>1. k \in Keys /\ Working(c)
    BY <1>9 DEF Settle, TypeOK, Working
  <2>2. \A d \in Workers \ {c} : Working(d) => worker[d].key # k
    BY <2>1 DEF WorkIsClaimed, OneRequestAtATime
  <2>3. \A j \in Keys \ {k} : refund'[j] = refund[j] /\ (j \in quiet' => j \in quiet)
    BY <1>9, <2>1 DEF Settle, Touch, TypeOK
  <2>4. /\ \A d \in Workers \ {c} : worker'[d] = worker[d]
        /\ Working(c)' => worker'[c].key = k
    BY <1>9 DEF Settle, GoTo, Stop, Idle, Working, TypeOK
  <2>5. Working(c)' => refund'[k].status = "pending" /\ k \notin quiet'
    BY <1>9, <2>1 DEF Settle, Touch, Stop, Idle, Working, WorkIsClaimed, TypeOK, Row
  <2> HIDE DEF k
  <2> QED
    BY <2>1, <2>2, <2>3, <2>4, <2>5, ClaimKept
<1>10. ASSUME NEW c \in Workers, Crash(c) PROVE WorkIsClaimed'
  <2>1. /\ ~Working(c)' /\ UNCHANGED <<refund, quiet>>
        /\ \A d \in Workers \ {c} : worker'[d] = worker[d]
    BY <1>10 DEF Crash, Stop, Idle, Working, TypeOK
  <2> QED
    BY <2>1 DEF WorkIsClaimed, OneRequestAtATime, Working
<1>11. ASSUME NEW k \in Keys, GoQuiet(k) PROVE WorkIsClaimed'
  BY <1>11 DEF GoQuiet, WorkIsClaimed, OneRequestAtATime, Working
<1>12. CASE UNCHANGED vars
  BY <1>12 DEF vars, WorkIsClaimed, OneRequestAtATime, Working
<1> QED
  BY <1>1, <1>2, <1>3, <1>4, <1>5, <1>6, <1>7, <1>8, <1>9, <1>10, <1>11, <1>12 DEF Next, Step

-----------------------------------------------------------------------------
\* A step that writes one row of a request that works, after Razorpay has made
\* its refund or without booking it, books nothing that was not moved.
LEMMA BookedKept ==
    ASSUME TypeOK, BookedIsMoved, NEW c \in Workers, NEW k \in Keys,
           moved \subseteq moved', moved' \subseteq moved \cup {k},
           refund'[k].status # "none",
           \A j \in Keys \ {k} : refund'[j] = refund[j] /\ notes'[j] = notes[j],
           \A d \in Workers \ {c} : worker'[d] = worker[d],
           worker'[c].step \in BooksSteps => worker'[c].key = k,
           (refund'[k].refunded \/ notes'[k] > 0 \/ refund'[k].status = "processed"
            \/ worker'[c].step \in BooksSteps) => k \in moved'
    PROVE  BookedIsMoved'
<1>1. \A j \in moved' : refund'[j].status # "none"
  BY DEF BookedIsMoved, TypeOK
<1>2. \A j \in Keys : refund'[j].refunded => j \in moved'
  BY DEF BookedIsMoved
<1>3. BooksFollowMoney'
  BY DEF BookedIsMoved, BooksFollowMoney
<1>4. \A d \in Workers : worker'[d].step \in BooksSteps => worker'[d].key \in moved'
  BY DEF BookedIsMoved
<1> QED
  BY <1>1, <1>2, <1>3, <1>4 DEF BookedIsMoved

\* Every step books only what Razorpay has moved.
LEMMA StepBooked == TypeOK /\ BookedIsMoved /\ [Next]_vars => BookedIsMoved'
<1> SUFFICES ASSUME TypeOK, BookedIsMoved, [Next]_vars PROVE BookedIsMoved'
  OBVIOUS
<1>1. ASSUME NEW c \in Workers, NEW k \in Keys, NEW asked \in Amounts \cup {Everything},
             New(c, k, asked)
      PROVE  BookedIsMoved'
  <2>1. /\ UNCHANGED <<refund, moved, notes>> /\ worker'[c].step = "insert"
        /\ \A d \in Workers \ {c} : worker'[d] = worker[d]
    BY <1>1 DEF New, TypeOK
  <2> QED
    BY <2>1 DEF BookedIsMoved, BooksFollowMoney, BooksSteps
<1>2. ASSUME NEW c \in Workers, NEW k \in Keys, CarryOn(c, k) PROVE BookedIsMoved'
  <2>1. refund[k] \in Row /\ UNCHANGED <<moved, notes>>
    BY <1>2 DEF CarryOn, TypeOK
  <2>2. /\ refund'[k].status = "pending" /\ refund'[k].refunded = refund[k].refunded
        /\ \A j \in Keys \ {k} : refund'[j] = refund[j]
    BY <1>2, <2>1 DEF CarryOn, Touch, TypeOK, Row
  <2>3. /\ worker'[c].key = k /\ worker'[c].step = FirstStep(refund[k])
        /\ \A d \in Workers \ {c} : worker'[d] = worker[d]
    BY <1>2 DEF CarryOn, TypeOK
  <2>4. worker'[c].step \in BooksSteps => refund[k].refunded
    BY <2>3 DEF FirstStep, BooksSteps
  <2>5. (refund'[k].refunded \/ notes'[k] > 0 \/ refund'[k].status = "processed"
         \/ worker'[c].step \in BooksSteps) => k \in moved'
    BY <2>1, <2>2, <2>4 DEF BookedIsMoved, BooksFollowMoney
  <2> QED
    BY <2>1, <2>2, <2>3, <2>5, BookedKept
<1>3. ASSUME NEW c \in Workers, Insert(c) PROVE BookedIsMoved'
  <2>1. worker[c].key \in Keys /\ UNCHANGED <<moved, notes>>
    BY <1>3 DEF Insert, TypeOK
  <2>2. CASE Stop(c) /\ UNCHANGED <<refund, quiet>>
    <3>1. /\ worker'[c].step = "idle" /\ \A d \in Workers \ {c} : worker'[d] = worker[d]
      BY <2>2 DEF Stop, Idle, TypeOK
    <3> QED
      BY <2>1, <2>2, <3>1 DEF BookedIsMoved, BooksFollowMoney, BooksSteps
  <2>3. ASSUME refund[worker[c].key].status = "none", GoTo(c, "ask"),
               NEW p \in Targets(worker[c].asked),
               Touch(worker[c].key, [status |-> "pending", payment |-> p,
                     amount |-> AmountOf(worker[c].asked, p), refunded |-> FALSE, noted |-> FALSE])
        PROVE  BookedIsMoved'
    <3> DEFINE k == worker[c].key
    <3>1. /\ refund'[k].status = "pending" /\ ~refund'[k].refunded
          /\ \A j \in Keys \ {k} : refund'[j] = refund[j]
      BY <2>1, <2>3 DEF Touch, TypeOK
    <3>2. worker'[c].step = "ask" /\ \A d \in Workers \ {c} : worker'[d] = worker[d]
      BY <2>3 DEF GoTo, TypeOK
    <3>3. ~(notes[k] > 0)
      BY <2>1, <2>3 DEF BookedIsMoved, BooksFollowMoney
    <3> HIDE DEF k
    <3>4. (refund'[k].refunded \/ notes'[k] > 0 \/ refund'[k].status = "processed"
           \/ worker'[c].step \in BooksSteps) => k \in moved'
      BY <2>1, <3>1, <3>2, <3>3 DEF BooksSteps
    <3> QED
      BY <2>1, <3>1, <3>2, <3>4, BookedKept DEF k, BooksSteps
  <2> QED
    BY <1>3, <2>2, <2>3 DEF Insert
<1>4. ASSUME NEW c \in Workers, Ask(c) PROVE BookedIsMoved'
  <2> DEFINE k == worker[c].key
  <2>1. k \in Keys /\ refund[k] \in Row /\ refund[k].status # "none"
    BY <1>4 DEF Ask, TypeOK, Working
  <2>2. /\ refund'[k].status # "none"
        /\ \A j \in Keys \ {k} : refund'[j] = refund[j] /\ notes'[j] = notes[j]
    BY <1>4, <2>1 DEF Ask, TypeOK, Row
  <2>3. /\ \A d \in Workers \ {c} : worker'[d] = worker[d]
        /\ worker'[c].step \in BooksSteps => worker'[c].key = k
    BY <1>4 DEF Ask, GoTo, Stop, Idle, BooksSteps, TypeOK
  <2>4. moved \subseteq moved' /\ moved' \subseteq moved \cup {k}
    BY <1>4 DEF Ask, Moves
  <2>5. (refund'[k].refunded \/ notes'[k] > 0 \/ refund'[k].status = "processed"
         \/ worker'[c].step \in BooksSteps) => k \in moved'
    <3>1. worker'[c].step \in BooksSteps => k \in moved'
      BY <1>4 DEF Ask, Moves, GoTo, BooksSteps, TypeOK
    <3> QED
      BY <1>4, <2>1, <2>4, <3>1 DEF Ask, BookedIsMoved, BooksFollowMoney
  <2> HIDE DEF k
  <2> QED
    BY <2>1, <2>2, <2>3, <2>4, <2>5, BookedKept
<1>5. ASSUME NEW c \in Workers, RecordRefund(c) PROVE BookedIsMoved'
  <2> DEFINE k == worker[c].key
  <2>1. k \in Keys /\ refund[k] \in Row /\ refund[k].status # "none"
    BY <1>5 DEF RecordRefund, TypeOK, Working
  <2>2. /\ refund'[k].status # "none"
        /\ \A j \in Keys \ {k} : refund'[j] = refund[j] /\ notes'[j] = notes[j]
    BY <1>5, <2>1 DEF RecordRefund, Touch, TypeOK, Row
  <2>3. /\ \A d \in Workers \ {c} : worker'[d] = worker[d]
        /\ worker'[c].step \in BooksSteps => worker'[c].key = k
    BY <1>5 DEF RecordRefund, GoTo, Stop, Idle, BooksSteps, TypeOK
  <2>4. moved \subseteq moved' /\ moved' \subseteq moved \cup {k}
    BY <1>5 DEF RecordRefund
  <2>5. k \in moved'
    BY <1>5 DEF RecordRefund, BookedIsMoved, BooksSteps
  <2> HIDE DEF k
  <2> QED
    BY <2>1, <2>2, <2>3, <2>4, <2>5, BookedKept
<1>6. ASSUME NEW c \in Workers, RecordFailure(c) PROVE BookedIsMoved'
  <2> DEFINE k == worker[c].key
  <2>1. k \in Keys /\ refund[k] \in Row /\ refund[k].status # "none"
    BY <1>6 DEF RecordFailure, TypeOK, Working
  <2>2. /\ refund'[k].status # "none"
        /\ \A j \in Keys \ {k} : refund'[j] = refund[j] /\ notes'[j] = notes[j]
    BY <1>6, <2>1 DEF RecordFailure, Touch, TypeOK, Row
  <2>3. /\ \A d \in Workers \ {c} : worker'[d] = worker[d]
        /\ worker'[c].step \in BooksSteps => worker'[c].key = k
    BY <1>6 DEF RecordFailure, GoTo, Stop, Idle, BooksSteps, TypeOK
  <2>4. moved \subseteq moved' /\ moved' \subseteq moved \cup {k}
    BY <1>6 DEF RecordFailure
  <2>5. (refund'[k].refunded \/ notes'[k] > 0 \/ refund'[k].status = "processed"
         \/ worker'[c].step \in BooksSteps) => k \in moved'
    <3>1. /\ refund'[k].refunded = refund[k].refunded /\ refund'[k].status = "failed"
          /\ UNCHANGED <<notes, moved>> /\ worker'[c].step = "idle"
      BY <1>6, <2>1 DEF RecordFailure, Touch, Stop, Idle, TypeOK, Row
    <3> HIDE DEF k
    <3> QED
      BY <2>1, <3>1 DEF BookedIsMoved, BooksFollowMoney, BooksSteps
  <2> HIDE DEF k
  <2> QED
    BY <2>1, <2>2, <2>3, <2>4, <2>5, BookedKept
<1>7. ASSUME NEW c \in Workers, MakeNote(c) PROVE BookedIsMoved'
  <2> DEFINE k == worker[c].key
  <2>1. k \in Keys /\ refund[k] \in Row /\ refund[k].status # "none"
    BY <1>7 DEF MakeNote, TypeOK, Working
  <2>2. /\ refund'[k].status # "none"
        /\ \A j \in Keys \ {k} : refund'[j] = refund[j] /\ notes'[j] = notes[j]
    BY <1>7, <2>1 DEF MakeNote, TypeOK, Row
  <2>3. /\ \A d \in Workers \ {c} : worker'[d] = worker[d]
        /\ worker'[c].step \in BooksSteps => worker'[c].key = k
    BY <1>7 DEF MakeNote, GoTo, Stop, Idle, BooksSteps, TypeOK
  <2>4. moved \subseteq moved' /\ moved' \subseteq moved \cup {k}
    BY <1>7 DEF MakeNote
  <2>5. k \in moved'
    BY <1>7 DEF MakeNote, BookedIsMoved, BooksSteps
  <2> HIDE DEF k
  <2> QED
    BY <2>1, <2>2, <2>3, <2>4, <2>5, BookedKept
<1>8. ASSUME NEW c \in Workers, RecordNote(c) PROVE BookedIsMoved'
  <2> DEFINE k == worker[c].key
  <2>1. k \in Keys /\ refund[k] \in Row /\ refund[k].status # "none"
    BY <1>8 DEF RecordNote, TypeOK, Working
  <2>2. /\ refund'[k].status # "none"
        /\ \A j \in Keys \ {k} : refund'[j] = refund[j] /\ notes'[j] = notes[j]
    BY <1>8, <2>1 DEF RecordNote, Touch, TypeOK, Row
  <2>3. /\ \A d \in Workers \ {c} : worker'[d] = worker[d]
        /\ worker'[c].step \in BooksSteps => worker'[c].key = k
    BY <1>8 DEF RecordNote, GoTo, Stop, Idle, BooksSteps, TypeOK
  <2>4. moved \subseteq moved' /\ moved' \subseteq moved \cup {k}
    BY <1>8 DEF RecordNote
  <2>5. k \in moved'
    BY <1>8 DEF RecordNote, BookedIsMoved, BooksSteps
  <2> HIDE DEF k
  <2> QED
    BY <2>1, <2>2, <2>3, <2>4, <2>5, BookedKept
<1>9. ASSUME NEW c \in Workers, Settle(c) PROVE BookedIsMoved'
  <2> DEFINE k == worker[c].key
  <2>1. k \in Keys /\ refund[k] \in Row /\ refund[k].status # "none"
    BY <1>9 DEF Settle, TypeOK, Working
  <2>2. /\ refund'[k].status # "none"
        /\ \A j \in Keys \ {k} : refund'[j] = refund[j] /\ notes'[j] = notes[j]
    <3> DEFINE row == [refund[k] EXCEPT !.status = "processed", !.noted = TRUE]
    <3>1. row.status # "none"
      BY <2>1 DEF Row
    <3>2. UNCHANGED notes /\ (refund' = refund \/ refund' = [refund EXCEPT ![k] = row])
      BY <1>9 DEF Settle, Touch
    <3> HIDE DEF row
    <3> QED
      BY <2>1, <3>1, <3>2 DEF TypeOK
  <2>3. /\ \A d \in Workers \ {c} : worker'[d] = worker[d]
        /\ worker'[c].step \in BooksSteps => worker'[c].key = k
    BY <1>9 DEF Settle, GoTo, Stop, Idle, BooksSteps, TypeOK
  <2>4. moved \subseteq moved' /\ moved' \subseteq moved \cup {k}
    BY <1>9 DEF Settle
  <2>5. k \in moved'
    BY <1>9 DEF Settle, BookedIsMoved, BooksSteps
  <2> HIDE DEF k
  <2> QED
    BY <2>1, <2>2, <2>3, <2>4, <2>5, BookedKept
<1>10. ASSUME NEW c \in Workers, Crash(c) PROVE BookedIsMoved'
  <2>1. /\ UNCHANGED <<refund, moved, notes>> /\ worker'[c].step = "idle"
        /\ \A d \in Workers \ {c} : worker'[d] = worker[d]
    BY <1>10 DEF Crash, Stop, Idle, TypeOK
  <2> QED
    BY <2>1 DEF BookedIsMoved, BooksFollowMoney, BooksSteps
<1>11. ASSUME NEW k \in Keys, GoQuiet(k) PROVE BookedIsMoved'
  BY <1>11 DEF GoQuiet, BookedIsMoved, BooksFollowMoney
<1>12. CASE UNCHANGED vars
  BY <1>12 DEF vars, BookedIsMoved, BooksFollowMoney
<1> QED
  BY <1>1, <1>2, <1>3, <1>4, <1>5, <1>6, <1>7, <1>8, <1>9, <1>10, <1>11, <1>12 DEF Next, Step

-----------------------------------------------------------------------------
\* While no refund is made and every row that has one keeps its payment and
\* amount, what Razorpay has refunded of each payment stays.
LEMMA MovedSame ==
    ASSUME UNCHANGED moved,
           \A k \in Keys : k \in moved => /\ refund'[k].payment = refund[k].payment
                                         /\ refund'[k].amount = refund[k].amount,
           NEW p \in Payments
    PROVE  MovedOf(p)' = MovedOf(p)
BY DEF MovedOf

\* Razorpay never refunds more than it captured.
LEMMA StepWithinCaptured ==
    TypeOK /\ BookedIsMoved /\ MovedWithinCaptured /\ [Next]_vars => MovedWithinCaptured'
<1> SUFFICES ASSUME TypeOK, BookedIsMoved, MovedWithinCaptured, [Next]_vars, NEW p \in Payments
             PROVE  MovedOf(p)' <= Captured[p]
  BY DEF MovedWithinCaptured
<1>1. MovedOf(p) <= Captured[p]
  BY DEF MovedWithinCaptured
<1>2. ASSUME UNCHANGED <<moved, refund>> PROVE MovedOf(p)' <= Captured[p]
  BY <1>1, <1>2, MovedSame
<1>3. ASSUME NEW k \in Keys, NEW row, UNCHANGED moved, Touch(k, row),
             k \in moved => row.payment = refund[k].payment /\ row.amount = refund[k].amount
      PROVE  MovedOf(p)' <= Captured[p]
  <2>1. \A j \in Keys : j \in moved => /\ refund'[j].payment = refund[j].payment
                                      /\ refund'[j].amount = refund[j].amount
    BY <1>3 DEF Touch, TypeOK
  <2> QED
    BY <1>1, <1>3, <2>1, MovedSame
<1>4. ASSUME NEW c \in Workers, Moves(worker[c].key), worker[c].key \in Keys, UNCHANGED refund
      PROVE  MovedOf(p)' <= Captured[p]
  <2> DEFINE k == worker[c].key
             f == [j \in Keys |-> IF j \in moved /\ refund[j].payment = p
                                  THEN refund[j].amount ELSE 0]
             g == [j \in Keys |-> IF j \in moved' /\ refund[j].payment = p
                                  THEN refund[j].amount ELSE 0]
  <2>1. MovedOf(p) = TotalOf(f) /\ MovedOf(p)' = TotalOf(g)
    BY <1>4 DEF MovedOf
  <2>2. f \in [Keys -> Nat] /\ g \in [Keys -> Nat]
    BY DEF TypeOK, Row
  <2>3. k \in Keys /\ \A j \in Keys \ {k} : f[j] = g[j]
    BY <1>4 DEF Moves
  <2>4. CASE k \in moved
    <3>1. moved' = moved
      BY <1>4, <2>4 DEF Moves
    <3> QED
      BY <1>2, <1>4, <3>1
  <2>5. CASE k \notin moved
    <3>1. f[k] = 0 /\ g[k] = IF refund[k].payment = p THEN refund[k].amount ELSE 0
      BY <1>4, <2>3, <2>5 DEF Moves
    <3>2. refund[k].payment = p => MovedOf(p) + refund[k].amount <= Captured[p]
      BY <1>4, <2>5 DEF Moves
    <3> HIDE DEF f, g, k
    <3>3. TotalOf(g) = TotalOf(f) - f[k] + g[k] /\ TotalOf(f) \in Nat
      BY <2>2, <2>3, TotalUpdate, TotalIsNat, RefundAssumption
    <3>4. refund[k].amount \in Nat
      BY <2>3 DEF TypeOK, Row
    <3> QED
      BY <1>1, <2>1, <3>1, <3>2, <3>3, <3>4
  <2> QED
    BY <2>4, <2>5
<1>5. ASSUME NEW c \in Workers, Step(c) PROVE MovedOf(p)' <= Captured[p]
  <2> DEFINE k == worker[c].key
  <2>1. k \in Keys
    BY <1>5 DEF Step, Insert, Ask, RecordRefund, RecordFailure, MakeNote, RecordNote, Settle, TypeOK
  <2>2. refund[k] \in Row
    BY <2>1 DEF TypeOK
  <2>3. CASE Insert(c)
    <3>1. refund[k].status = "none" => k \notin moved
      BY DEF BookedIsMoved
    <3> QED
      BY <1>2, <1>3, <2>1, <2>3, <3>1 DEF Insert
  <2>4. CASE Ask(c)
    BY <1>2, <1>4, <2>1, <2>4 DEF Ask
  <2>5. CASE RecordRefund(c)
    <3>1. /\ [refund[k] EXCEPT !.refunded = TRUE, !.status = "pending"].payment = refund[k].payment
          /\ [refund[k] EXCEPT !.refunded = TRUE, !.status = "pending"].amount = refund[k].amount
      BY <2>2 DEF Row
    <3> QED
      BY <1>3, <2>1, <2>5, <3>1 DEF RecordRefund
  <2>6. CASE RecordFailure(c)
    <3>1. /\ [refund[k] EXCEPT !.status = "failed"].payment = refund[k].payment
          /\ [refund[k] EXCEPT !.status = "failed"].amount = refund[k].amount
      BY <2>2 DEF Row
    <3> QED
      BY <1>3, <2>1, <2>6, <3>1 DEF RecordFailure
  <2>7. CASE MakeNote(c)
    BY <1>2, <2>7 DEF MakeNote
  <2>8. CASE RecordNote(c)
    <3>1. /\ [refund[k] EXCEPT !.noted = TRUE].payment = refund[k].payment
          /\ [refund[k] EXCEPT !.noted = TRUE].amount = refund[k].amount
      BY <2>2 DEF Row
    <3> QED
      BY <1>3, <2>1, <2>8, <3>1 DEF RecordNote
  <2>9. CASE Settle(c)
    <3>1. /\ [refund[k] EXCEPT !.status = "processed", !.noted = TRUE].payment = refund[k].payment
          /\ [refund[k] EXCEPT !.status = "processed", !.noted = TRUE].amount = refund[k].amount
      BY <2>2 DEF Row
    <3> QED
      BY <1>2, <1>3, <2>1, <2>9, <3>1 DEF Settle
  <2> QED
    BY <1>5, <2>3, <2>4, <2>5, <2>6, <2>7, <2>8, <2>9 DEF Step
<1>6. ASSUME NEW c \in Workers, NEW k \in Keys, CarryOn(c, k) PROVE MovedOf(p)' <= Captured[p]
  <2>1. refund[k] \in Row
    BY DEF TypeOK
  <2>2. /\ [refund[k] EXCEPT !.status = "pending"].payment = refund[k].payment
        /\ [refund[k] EXCEPT !.status = "pending"].amount = refund[k].amount
    BY <2>1 DEF Row
  <2> QED
    BY <1>3, <1>6, <2>2 DEF CarryOn
<1>7. CASE UNCHANGED vars
  BY <1>2, <1>7 DEF vars
<1> QED
  BY <1>2, <1>5, <1>6, <1>7 DEF Next, New, Crash, GoQuiet

-----------------------------------------------------------------------------
\* Nothing is asked, moved or booked at first.
LEMMA InitInv == Init => Inv
<1> SUFFICES ASSUME Init PROVE Inv
  OBVIOUS
<1>1. TypeOK
  BY InitTyped
<1>2. WorkIsClaimed
  BY DEF Init, WorkIsClaimed, OneRequestAtATime, Working, Idle
<1>3. BookedIsMoved
  BY DEF Init, BookedIsMoved, BooksFollowMoney, BooksSteps, Idle
<1>4. ASSUME NEW p \in Payments PROVE MovedOf(p) <= Captured[p]
  <2> DEFINE f == [k \in Keys |-> IF k \in moved /\ refund[k].payment = p
                                  THEN refund[k].amount ELSE 0]
  <2>1. f \in [Keys -> Nat] /\ \A k \in Keys : f[k] = 0
    BY DEF Init
  <2>2. MovedOf(p) = TotalOf(f)
    BY DEF MovedOf
  <2> HIDE DEF f
  <2>3. TotalOf(f) = 0
    BY <2>1, TotalOfZeroes
  <2> QED
    BY <2>2, <2>3, RefundAssumption
<1> QED
  BY <1>1, <1>2, <1>3, <1>4 DEF Inv, MovedWithinCaptured

\* The inductive invariant of refunding without slow requests.
THEOREM Invariance ==
    ASSUME "slow" \notin Faults
    PROVE  Spec => []Inv
<1>1. Inv /\ [Next]_vars => Inv'
  BY StepTyped, StepClaimed, StepBooked, StepWithinCaptured DEF Inv
<1> QED
  BY <1>1, InitInv, PTL DEF Spec

\* Two requests with the same key, or one sent again after a death, never work on
\* the same refund at once, as long as none is slow.
THEOREM OneRequestWorks ==
    ASSUME "slow" \notin Faults
    PROVE  Spec => []OneRequestAtATime
<1>1. Inv => OneRequestAtATime
  BY DEF Inv, WorkIsClaimed
<1> QED
  BY <1>1, Invariance, PTL

\* However requests die, time out or overlap, no credit note is made and no refund
\* is settled before Razorpay has moved its money.
THEOREM NothingBookedUnmoved == Spec => []BooksFollowMoney
<1>1. Init => BookedIsMoved
  BY InitInv DEF Inv
<1>2. BookedIsMoved => BooksFollowMoney
  BY DEF BookedIsMoved
<1> QED
  BY <1>1, <1>2, TypeCorrect, StepBooked, PTL DEF Spec

-----------------------------------------------------------------------------
\* The ledger's state of a row.
LEMMA ClaimStates ==
    ASSUME NEW row \in Row
    PROVE  /\ row.status = "none" <=> ClaimOf(row).state = "none"
           /\ row.status = "pending" <=> ClaimOf(row).state = "open"
           /\ row.status = "failed" <=> ClaimOf(row).state = "closed"
           /\ row.status = "processed" <=> ClaimOf(row).state = "paid"
           /\ ClaimOf(row).payment = row.payment /\ ClaimOf(row).amount = row.amount
BY DEF ClaimOf, Row

\* Writing a row writes its claim.
LEMMA ClaimsAfter ==
    ASSUME TypeOK, NEW k \in Keys, NEW row, Touch(k, row)
    PROVE  Claims' = [Claims EXCEPT ![k] = ClaimOf(row)]
BY DEF Claims, Touch, TypeOK

\* A row that keeps its status, payment and amount keeps its claim.
LEMMA ClaimsStutter ==
    ASSUME TypeOK, NEW k \in Keys, NEW row \in Row, Touch(k, row),
           row.status = refund[k].status, row.payment = refund[k].payment,
           row.amount = refund[k].amount
    PROVE  UNCHANGED Claims
<1>1. ClaimOf(row) = ClaimOf(refund[k])
  BY DEF ClaimOf
<1>2. Claims' = [Claims EXCEPT ![k] = ClaimOf(row)]
  BY ClaimsAfter
<1> QED
  BY <1>1, <1>2 DEF Claims

\* The ledger adds up as this module does.
LEMMA SameTotal == ASSUME NEW f PROVE Ledger!TotalOf(f) = TotalOf(f)
<1>1. Ledger!UnitsOf(f) = UnitsOf(f)
  BY DEF Ledger!UnitsOf, UnitsOf
<1>2. \A S : Ledger!Cardinality(S) = Cardinality(S)
  BY DEF Ledger!Cardinality, Cardinality
<1> QED
  BY <1>1, <1>2 DEF Ledger!TotalOf, TotalOf

\* The rows claim in the ledger what they take of what remains.
LEMMA ClaimedIsTaken ==
    ASSUME TypeOK, NEW p \in Payments
    PROVE  Ledger!ClaimedIn({"open", "paid"}, p) = Captured[p] - Remaining(p)
<1> DEFINE f == [k \in Keys |-> IF refund[k].status \in {"pending", "processed"} /\ refund[k].payment = p
                                THEN refund[k].amount ELSE 0]
           g == [k \in Keys |-> IF Claims[k].state \in {"open", "paid"} /\ Claims[k].payment = p
                                THEN Claims[k].amount ELSE 0]
<1>1. ASSUME NEW k \in Keys PROVE f[k] = g[k]
  <2>1. refund[k] \in Row /\ Claims[k] = ClaimOf(refund[k])
    BY DEF Claims, TypeOK
  <2> QED
    BY <2>1, ClaimStates
<1>2. f = g
  BY <1>1
<1>3. Remaining(p) = Captured[p] - TotalOf(f) /\ Ledger!ClaimedIn({"open", "paid"}, p) = TotalOf(g)
  BY SameTotal DEF Remaining, Ledger!ClaimedIn
<1>4. f \in [Keys -> Nat]
  BY DEF TypeOK, Row
<1> HIDE DEF f, g
<1>5. TotalOf(f) \in Nat /\ Captured[p] \in Nat
  BY <1>4, TotalIsNat, RefundAssumption
<1> QED
  BY <1>2, <1>3, <1>5

\* A row that is settled now still fits into what was captured: every row settled
\* before is one that Razorpay refunded, and so is this one.
LEMMA SettledFits ==
    ASSUME Inv, NEW k \in moved, refund[k].status = "pending"
    PROVE  Ledger!Fits({"paid"}, refund[k].payment, refund[k].amount)
<1> DEFINE p == refund[k].payment
           f == [j \in Keys |-> IF Claims[j].state \in {"paid"} /\ Claims[j].payment = p
                                THEN Claims[j].amount ELSE 0]
           g == [j \in Keys |-> IF j \in moved /\ refund[j].payment = p
                                THEN refund[j].amount ELSE 0]
<1>1. TypeOK /\ k \in Keys /\ refund[k] \in Row /\ p \in Payments /\ p = refund[k].payment
  BY DEF Inv, TypeOK
<1>2. ASSUME NEW j \in Keys
      PROVE  /\ f[j] \in Nat /\ g[j] \in Nat /\ f[j] <= g[j]
             /\ j = k => f[j] = 0 /\ g[j] = refund[k].amount
  <2>1. refund[j] \in Row /\ Claims[j] = ClaimOf(refund[j])
    BY <1>1 DEF Claims, TypeOK
  <2>2. refund[j].status = "processed" => j \in moved
    BY DEF Inv, BookedIsMoved, BooksFollowMoney
  <2>3. refund[j].amount \in Nat
    BY <2>1 DEF Row
  <2>4. /\ Claims[j].state = "paid" <=> refund[j].status = "processed"
        /\ Claims[j].payment = refund[j].payment /\ Claims[j].amount = refund[j].amount
    BY <2>1, ClaimStates
  <2> QED
    BY <2>2, <2>3, <2>4
<1>3. /\ Ledger!ClaimedIn({"paid"}, p) = TotalOf(f)
      /\ MovedOf(p) = TotalOf(g) /\ MovedOf(p) <= Captured[p]
  <2>1. Ledger!ClaimedIn({"paid"}, p) = TotalOf(f)
    BY SameTotal DEF Ledger!ClaimedIn
  <2>2. MovedOf(p) = TotalOf(g)
    BY DEF MovedOf
  <2>3. MovedOf(p) <= Captured[p]
    BY <1>1 DEF Inv, MovedWithinCaptured
  <2> QED
    BY <2>1, <2>2, <2>3
<1>4. f \in [Keys -> Nat] /\ g \in [Keys -> Nat] /\ f[k] = 0 /\ g[k] = refund[k].amount
  BY <1>1, <1>2
<1>5. \A j \in Keys : f[j] <= g[j]
  BY <1>2
<1> HIDE DEF f, g, p
<1>6. TotalOf(g) = g[k] + TotalOf([g EXCEPT ![k] = 0])
  <2>1. IsFiniteSet(Keys) /\ k \in Keys /\ g \in [Keys -> Nat]
    BY <1>1, <1>4, RefundAssumption
  <2> QED
    BY <2>1, TotalSplit
<1>7. TotalOf(f) <= TotalOf([g EXCEPT ![k] = 0])
  <2>1. [g EXCEPT ![k] = 0] \in [Keys -> Nat]
    BY <1>4
  <2>2. \A j \in Keys : f[j] <= [g EXCEPT ![k] = 0][j]
    BY <1>4, <1>5
  <2> QED
    BY <1>4, <2>1, <2>2, TotalMonotone, RefundAssumption
<1>8. TotalOf(f) \in Nat /\ TotalOf([g EXCEPT ![k] = 0]) \in Nat /\ Captured[p] \in Nat
  <2>1. [g EXCEPT ![k] = 0] \in [Keys -> Nat]
    BY <1>4
  <2> QED
    BY <1>1, <1>4, <2>1, TotalIsNat, RefundAssumption
<1>9. refund[k].amount \in Nat
  BY <1>1 DEF Row
<1> QED
  BY <1>1, <1>3, <1>4, <1>6, <1>7, <1>8, <1>9 DEF Ledger!Fits

\* Every step of refunding is a step of the ledger or leaves it as it is.
LEMMA StepInLedger ==
    ASSUME "slow" \notin Faults, Inv, [Next]_vars
    PROVE  [Ledger!Next]_(Ledger!vars)
<1> USE DEF Inv
<1>1. ASSUME UNCHANGED <<Claims, books>> PROVE UNCHANGED Ledger!vars
  BY <1>1 DEF Ledger!vars
<1>2. ASSUME UNCHANGED <<refund, books>> PROVE UNCHANGED Ledger!vars
  BY <1>1, <1>2 DEF Claims
<1>3. ASSUME NEW c \in Workers, NEW k \in Keys, CarryOn(c, k)
      PROVE  Ledger!Reopen(k) \/ UNCHANGED Ledger!vars
  <2> DEFINE row == [refund[k] EXCEPT !.status = "pending"]
  <2>1. refund[k] \in Row /\ Claims[k] = ClaimOf(refund[k])
    BY DEF TypeOK, Claims
  <2>2. row \in Row /\ row.payment = refund[k].payment /\ row.amount = refund[k].amount
        /\ row.status = "pending"
    BY <2>1 DEF Row
  <2>3. Touch(k, row) /\ UNCHANGED books
    BY <1>3 DEF CarryOn
  <2> HIDE DEF row
  <2>4. CASE refund[k].status = "failed"
    <3>1. Claims' = [Claims EXCEPT ![k] = ClaimOf(row)]
      BY <2>3, ClaimsAfter
    <3>2. ClaimOf(row) = [Claims[k] EXCEPT !.state = "open"]
      BY <2>1, <2>2, <2>4 DEF ClaimOf
    <3>3. Claims[k].state = "closed"
      BY <2>1, <2>4, ClaimStates
    <3> QED
      BY <2>3, <3>1, <3>2, <3>3 DEF Ledger!Reopen
  <2>5. CASE refund[k].status # "failed"
    <3>1. refund[k].status = "pending"
      BY <1>3, <2>5 DEF CarryOn, Claimable
    <3> QED
      BY <1>1, <2>2, <2>3, <3>1, ClaimsStutter
  <2> QED
    BY <2>4, <2>5
<1>4. ASSUME NEW c \in Workers, Insert(c)
      PROVE  Ledger!Next \/ UNCHANGED Ledger!vars
  <2> DEFINE k == worker[c].key
             a == worker[c].asked
  <2>1. k \in Keys /\ refund[k] \in Row /\ UNCHANGED books
    BY <1>4 DEF Insert, TypeOK
  <2>2. ASSUME refund[k].status = "none", NEW p \in Targets(a),
               Touch(k, [status |-> "pending", payment |-> p, amount |-> AmountOf(a, p),
                         refunded |-> FALSE, noted |-> FALSE])
        PROVE  Ledger!Next
    <3> DEFINE row == [status |-> "pending", payment |-> p, amount |-> AmountOf(a, p),
                       refunded |-> FALSE, noted |-> FALSE]
    <3>1. /\ p \in Payments /\ AmountOf(a, p) \in 1 .. Captured[p]
          /\ AmountOf(a, p) <= Remaining(p)
      BY TargetHasRoom
    <3>2. ClaimOf(row) = [state |-> "open", payment |-> p, amount |-> AmountOf(a, p)]
      BY DEF ClaimOf
    <3>3. Claims' = [Claims EXCEPT ![k] = ClaimOf(row)]
      BY <2>1, <2>2, ClaimsAfter
    <3>4. Claims[k].state = "none"
      BY <2>1, <2>2, ClaimStates DEF Claims
    <3>5. Remaining(p) \in Int /\ Captured[p] \in Nat
      BY <3>1, SumsAreNat
    <3>6. Ledger!Fits({"open", "paid"}, p, AmountOf(a, p))
      BY <3>1, <3>5, ClaimedIsTaken DEF Ledger!Fits
    <3> HIDE DEF row, a, k
    <3>7. Ledger!Open(k, p, AmountOf(a, p))
      BY <2>1, <3>2, <3>3, <3>4, <3>6 DEF Ledger!Open
    <3> QED
      BY <2>1, <3>1, <3>7 DEF Ledger!Next
  <2> QED
    BY <1>2, <1>4, <2>1, <2>2 DEF Insert
<1>5. ASSUME NEW c \in Workers, RecordRefund(c) PROVE UNCHANGED Ledger!vars
  <2> DEFINE k == worker[c].key
             row == [refund[k] EXCEPT !.refunded = TRUE, !.status = "pending"]
  <2>1. k \in Keys /\ refund[k] \in Row /\ refund[k].status = "pending"
    BY <1>5 DEF RecordRefund, TypeOK, WorkIsClaimed, Working
  <2>2. row \in Row /\ row.payment = refund[k].payment /\ row.amount = refund[k].amount
        /\ row.status = "pending"
    BY <2>1, UpdatesTyped DEF Row
  <2>3. Touch(k, row) /\ UNCHANGED books
    BY <1>5 DEF RecordRefund
  <2> HIDE DEF row, k
  <2> QED
    BY <1>1, <2>1, <2>2, <2>3, ClaimsStutter
<1>6. ASSUME NEW c \in Workers, RecordFailure(c) PROVE Ledger!Next
  <2> DEFINE k == worker[c].key
             row == [refund[k] EXCEPT !.status = "failed"]
  <2>1. /\ k \in Keys /\ refund[k] \in Row /\ refund[k].status = "pending"
        /\ Claims[k] = ClaimOf(refund[k])
    BY <1>6 DEF RecordFailure, TypeOK, WorkIsClaimed, Working, Claims
  <2>2. row.payment = refund[k].payment /\ row.amount = refund[k].amount /\ row.status = "failed"
    BY <2>1 DEF Row
  <2>3. Touch(k, row) /\ UNCHANGED books
    BY <1>6 DEF RecordFailure
  <2> HIDE DEF row, k
  <2>4. Claims' = [Claims EXCEPT ![k] = ClaimOf(row)]
    BY <2>1, <2>3, ClaimsAfter
  <2>5. ClaimOf(row) = [Claims[k] EXCEPT !.state = "closed"]
    BY <2>1, <2>2 DEF ClaimOf
  <2>6. Claims[k].state = "open"
    BY <2>1, ClaimStates
  <2>7. Ledger!Close(k)
    BY <2>3, <2>4, <2>5, <2>6 DEF Ledger!Close
  <2> QED
    BY <2>1, <2>7 DEF Ledger!Next
<1>7. ASSUME NEW c \in Workers, RecordNote(c) PROVE UNCHANGED Ledger!vars
  <2> DEFINE k == worker[c].key
             row == [refund[k] EXCEPT !.noted = TRUE]
  <2>1. k \in Keys /\ refund[k] \in Row
    BY <1>7 DEF RecordNote, TypeOK
  <2>2. row \in Row /\ row.payment = refund[k].payment /\ row.amount = refund[k].amount
        /\ row.status = refund[k].status
    BY <2>1, UpdatesTyped DEF Row
  <2>3. Touch(k, row) /\ UNCHANGED books
    BY <1>7 DEF RecordNote
  <2> HIDE DEF row, k
  <2> QED
    BY <1>1, <2>1, <2>2, <2>3, ClaimsStutter
<1>8. ASSUME NEW c \in Workers, Settle(c) PROVE Ledger!Next
  <2> DEFINE k == worker[c].key
             row == [refund[k] EXCEPT !.status = "processed", !.noted = TRUE]
  <2>1. /\ k \in Keys /\ k \in moved /\ refund[k] \in Row /\ refund[k].status = "pending"
        /\ Claims[k] = ClaimOf(refund[k])
    BY <1>8 DEF Settle, TypeOK, WorkIsClaimed, BookedIsMoved, BooksSteps, Working, Claims
  <2>2. row.payment = refund[k].payment /\ row.amount = refund[k].amount /\ row.status = "processed"
    BY <2>1 DEF Row
  <2>3. Touch(k, row) /\ books'.refunded = books.refunded + refund[k].amount
    BY <1>8, <2>1 DEF Settle
  <2> HIDE DEF row, k
  <2>4. Claims' = [Claims EXCEPT ![k] = ClaimOf(row)]
    BY <2>1, <2>3, ClaimsAfter
  <2>5. ClaimOf(row) = [Claims[k] EXCEPT !.state = "paid"]
    BY <2>1, <2>2 DEF ClaimOf
  <2>6. /\ Claims[k].state = "open" /\ Claims[k].payment = refund[k].payment
        /\ Claims[k].amount = refund[k].amount
    BY <2>1, ClaimStates
  <2>7. Ledger!Fits({"paid"}, Claims[k].payment, Claims[k].amount)
    BY <2>1, <2>6, SettledFits
  <2>8. Ledger!Pay(k)
    BY <2>3, <2>4, <2>5, <2>6, <2>7 DEF Ledger!Pay
  <2> QED
    BY <2>1, <2>8 DEF Ledger!Next
<1>9. ASSUME NEW c \in Workers, Step(c) PROVE Ledger!Next \/ UNCHANGED Ledger!vars
  BY <1>2, <1>4, <1>5, <1>6, <1>7, <1>8, <1>9 DEF Step, Ask, MakeNote
<1>10. ASSUME NEW c \in Workers, NEW k \in Keys, CarryOn(c, k)
       PROVE  Ledger!Next \/ UNCHANGED Ledger!vars
  BY <1>3, <1>10 DEF Ledger!Next
<1>11. CASE UNCHANGED vars
  BY <1>2, <1>11 DEF vars
<1> QED
  BY <1>2, <1>9, <1>10, <1>11 DEF Next, New, Crash, GoQuiet

\* Refunding an order, with whatever dies, times out or is sent again, implements
\* the refund ledger: what is settled is settled once and within what was captured.
THEOREM RefundImplementsLedger ==
    ASSUME "slow" \notin Faults
    PROVE  Spec => ImplementsLedger
<1>1. Init => Ledger!Init
  <2> SUFFICES ASSUME Init PROVE Ledger!Init
    OBVIOUS
  <2>1. \A k \in Keys : Claims[k] = [state |-> "none", payment |-> NoPayment, amount |-> 0]
    BY DEF Init, Claims, ClaimOf
  <2> QED
    BY <2>1 DEF Init, Claims, Ledger!Init
<1>2. Inv /\ [Next]_vars => [Ledger!Next]_(Ledger!vars)
  BY StepInLedger
<1> QED
  BY <1>1, <1>2, Invariance, PTL DEF Spec, ImplementsLedger, Ledger!Spec

-----------------------------------------------------------------------------
(* One credit note per refund.                                             *)

\* What a request has found of its row, or done to it.
WorkerInOrder(c) ==
    LET row == refund[worker[c].key] IN
    /\ worker[c].step \in {"ask", "recordRefund"} => ~row.refunded
    /\ worker[c].step = "makeNote" => row.refunded /\ ~row.noted
    /\ worker[c].step = "recordNote" => row.refunded
    /\ worker[c].step = "settle" => row.noted

\* A note that was made is recorded, or about to be, or lost.
NotesInOrder ==
    /\ \A k \in Keys :
          /\ notes[k] <= 1 + lost[k]
          /\ notes[k] > lost[k] => \/ refund[k].noted
                                   \/ \E c \in Workers : worker[c].step = "recordNote" /\ worker[c].key = k
          /\ refund[k].noted => refund[k].refunded
    /\ \A c \in Workers : WorkerInOrder(c)

\* A step of one request, on the row that it alone works on.
LEMMA NotesKept ==
    ASSUME TypeOK, NotesInOrder, NEW c \in Workers, NEW k \in Keys,
           \A j \in Keys \ {k} : /\ refund'[j] = refund[j] /\ notes'[j] = notes[j]
                                /\ lost'[j] = lost[j],
           \A d \in Workers \ {c} : worker'[d] = worker[d] /\ (Working(d) => worker[d].key # k),
           Working(c) => worker[c].key = k,
           notes'[k] <= 1 + lost'[k],
           notes'[k] > lost'[k] => \/ refund'[k].noted
                                   \/ worker'[c].step = "recordNote" /\ worker'[c].key = k,
           refund'[k].noted => refund'[k].refunded,
           WorkerInOrder(c)'
    PROVE  NotesInOrder'
<1>1. ASSUME NEW j \in Keys \ {k}
      PROVE  /\ notes'[j] <= 1 + lost'[j]
             /\ notes'[j] > lost'[j] => \/ refund'[j].noted
                                        \/ \E d \in Workers : worker'[d].step = "recordNote" /\ worker'[d].key = j
             /\ refund'[j].noted => refund'[j].refunded
  <2>1. /\ notes[j] <= 1 + lost[j]
        /\ notes[j] > lost[j] => \/ refund[j].noted
                                 \/ \E d \in Workers : worker[d].step = "recordNote" /\ worker[d].key = j
        /\ refund[j].noted => refund[j].refunded
    BY DEF NotesInOrder
  <2>2. ASSUME NEW d \in Workers, worker[d].step = "recordNote", worker[d].key = j
        PROVE  worker'[d].step = "recordNote" /\ worker'[d].key = j
    BY <2>2 DEF Working
  <2> QED
    BY <2>1, <2>2
<1>2. ASSUME NEW d \in Workers \ {c} PROVE WorkerInOrder(d)'
  <2>1. WorkerInOrder(d) /\ (worker[d].step # "idle" => worker[d].key \in Keys)
    BY DEF NotesInOrder, TypeOK
  <2>2. Working(d) => refund'[worker[d].key] = refund[worker[d].key]
    BY <2>1 DEF Working
  <2> QED
    BY <2>1, <2>2 DEF WorkerInOrder, Working
<1> QED
  BY <1>1, <1>2 DEF NotesInOrder

\* A request that stops, or has not claimed a row, leaves the notes in order.
LEMMA NotesStay ==
    ASSUME TypeOK, NotesInOrder, NEW c \in Workers, UNCHANGED <<refund, notes, lost>>,
           \A d \in Workers \ {c} : worker'[d] = worker[d],
           worker[c].step # "recordNote", worker'[c].step \in {"idle", "insert"}
    PROVE  NotesInOrder'
<1>1. \A d \in Workers : WorkerInOrder(d)'
  BY DEF NotesInOrder, WorkerInOrder
<1>2. ASSUME NEW d \in Workers, worker[d].step = "recordNote" PROVE worker'[d] = worker[d]
  BY <1>2
<1> QED
  BY <1>1, <1>2 DEF NotesInOrder

\* Every step makes one note at most, and only of a refund whose notes are all lost.
LEMMA StepNotes ==
    ASSUME Inv, NotesInOrder, [Next]_vars
    PROVE  NotesInOrder'
<1>0. TypeOK /\ WorkIsClaimed /\ BookedIsMoved
  BY DEF Inv
<1>1. ASSUME NEW c \in Workers, NEW k \in Keys, NEW asked \in Amounts \cup {Everything},
             New(c, k, asked)
      PROVE  NotesInOrder'
  <2>1. /\ UNCHANGED <<refund, notes, lost>> /\ worker[c].step = "idle" /\ worker'[c].step = "insert"
        /\ \A d \in Workers \ {c} : worker'[d] = worker[d]
    BY <1>0, <1>1 DEF New, TypeOK
  <2> QED
    BY <1>0, <2>1, NotesStay
<1>2. ASSUME NEW c \in Workers, NEW k \in Keys, CarryOn(c, k) PROVE NotesInOrder'
  <2>1. refund[k] \in Row /\ UNCHANGED <<notes, lost>> /\ ~Working(c)
    BY <1>0, <1>2 DEF CarryOn, TypeOK, Working
  <2>2. /\ refund'[k].noted = refund[k].noted /\ refund'[k].refunded = refund[k].refunded
        /\ \A j \in Keys \ {k} : refund'[j] = refund[j]
    BY <1>0, <1>2, <2>1 DEF CarryOn, Touch, TypeOK, Row
  <2>3. /\ worker'[c].key = k /\ worker'[c].step = FirstStep(refund[k])
        /\ \A d \in Workers \ {c} : worker'[d] = worker[d]
    BY <1>0, <1>2 DEF CarryOn, TypeOK
  <2>4. refund[k].noted => refund[k].refunded
    BY DEF NotesInOrder
  <2>5. WorkerInOrder(c)'
    BY <2>2, <2>3, <2>4 DEF WorkerInOrder, FirstStep
  <2>6. \A d \in Workers : Working(d) => worker[d].key # k
    BY <1>0, <1>2 DEF CarryOn, Claimable, WorkIsClaimed
  <2>7. \A d \in Workers : worker[d].step = "recordNote" => worker[d].key # k
    BY <2>6 DEF Working
  <2>8. notes[k] <= 1 + lost[k] /\ (notes[k] > lost[k] => refund[k].noted)
    BY <2>7 DEF NotesInOrder
  <2> QED
    BY <1>0, <2>1, <2>2, <2>3, <2>4, <2>5, <2>6, <2>8, NotesKept
<1>3. ASSUME NEW c \in Workers, Insert(c) PROVE NotesInOrder'
  <2>1. /\ worker[c].key \in Keys /\ UNCHANGED <<notes, lost>> /\ worker[c].step = "insert"
        /\ ~Working(c)
    BY <1>0, <1>3 DEF Insert, TypeOK, Working
  <2>2. CASE Stop(c) /\ UNCHANGED <<refund, quiet>>
    <3>1. /\ worker'[c].step = "idle" /\ \A d \in Workers \ {c} : worker'[d] = worker[d]
      BY <1>0, <2>2 DEF Stop, Idle, TypeOK
    <3> QED
      BY <1>0, <2>1, <2>2, <3>1, NotesStay
  <2>3. ASSUME refund[worker[c].key].status = "none", GoTo(c, "ask"),
               NEW p \in Targets(worker[c].asked),
               Touch(worker[c].key, [status |-> "pending", payment |-> p,
                     amount |-> AmountOf(worker[c].asked, p), refunded |-> FALSE, noted |-> FALSE])
        PROVE  NotesInOrder'
    <3>1. PICK k \in Keys : k = worker[c].key
      BY <2>1
    <3>2. /\ ~refund'[k].refunded /\ ~refund'[k].noted
          /\ \A j \in Keys \ {k} : refund'[j] = refund[j]
      BY <1>0, <2>3, <3>1 DEF Touch, TypeOK
    <3>3. /\ worker'[c].step = "ask" /\ worker'[c].key = k
          /\ \A d \in Workers \ {c} : worker'[d] = worker[d]
      BY <1>0, <2>3, <3>1 DEF GoTo, TypeOK
    <3>4. ~(notes[k] > lost[k]) /\ notes[k] <= 1 + lost[k]
      <4>1. ~(notes[k] > 0)
        BY <1>0, <2>3, <3>1 DEF BookedIsMoved, BooksFollowMoney
      <4> QED
        BY <1>0, <4>1 DEF TypeOK
    <3>5. WorkerInOrder(c)'
      BY <3>2, <3>3 DEF WorkerInOrder
    <3>6. \A d \in Workers : Working(d) => worker[d].key # k
      BY <1>0, <2>3, <3>1 DEF TypeOK
    <3> QED
      BY <1>0, <2>1, <3>2, <3>3, <3>4, <3>5, <3>6, NotesKept
  <2> QED
    BY <1>3, <2>2, <2>3 DEF Insert
\* The steps of a request that works on its row.
<1>4. ASSUME NEW c \in Workers, Working(c)
      PROVE  /\ worker[c].key \in Keys /\ refund[worker[c].key] \in Row
             /\ \A d \in Workers \ {c} : Working(d) => worker[d].key # worker[c].key
             /\ WorkerInOrder(c)
  <2>1. worker[c].key \in Keys
    BY <1>0, <1>4 DEF TypeOK, Working
  <2>2. \A d \in Workers \ {c} : Working(d) => worker[d].key # worker[c].key
    BY <1>0, <1>4 DEF WorkIsClaimed, OneRequestAtATime
  <2> QED
    BY <1>0, <2>1, <2>2 DEF TypeOK, NotesInOrder
<1>5. ASSUME NEW c \in Workers, NEW k \in Keys, worker[c].key = k, Working(c),
             worker[c].step # "recordNote"
      PROVE  notes[k] <= 1 + lost[k] /\ (notes[k] > lost[k] => refund[k].noted)
  <2>1. \A d \in Workers : worker[d].step = "recordNote" => worker[d].key # k
    BY <1>4, <1>5 DEF Working
  <2> QED
    BY <2>1 DEF NotesInOrder
<1>6. ASSUME NEW c \in Workers, Ask(c) \/ RecordRefund(c) \/ RecordFailure(c) \/ MakeNote(c)
                                \/ RecordNote(c) \/ Settle(c)
      PROVE  NotesInOrder'
  <2>1. Working(c)
    BY <1>6 DEF Working, Ask, RecordRefund, RecordFailure, MakeNote, RecordNote, Settle
  <2>2. PICK k \in Keys : k = worker[c].key
    BY <1>4, <2>1
  <2>3. /\ refund[k] \in Row /\ WorkerInOrder(c)
        /\ \A d \in Workers \ {c} : Working(d) => worker[d].key # k
        /\ refund[k].noted => refund[k].refunded
        /\ worker[c].step # "recordNote" =>
              notes[k] <= 1 + lost[k] /\ (notes[k] > lost[k] => refund[k].noted)
        /\ notes[k] \in Nat /\ lost[k] \in Nat
    BY <1>0, <1>4, <1>5, <2>1, <2>2 DEF NotesInOrder, TypeOK
  <2>4. /\ \A j \in Keys \ {k} : refund'[j] = refund[j] /\ notes'[j] = notes[j]
        /\ UNCHANGED lost
        /\ \A d \in Workers \ {c} : worker'[d] = worker[d]
    BY <1>0, <1>6, <2>2 DEF TypeOK, Ask, RecordRefund, RecordFailure, MakeNote, RecordNote, Settle,
                            GoTo, Stop, Touch
  \* What is left to show for each step, of the row, its notes and the request.
  <2>5. ASSUME notes'[k] <= 1 + lost[k],
               notes'[k] > lost[k] => \/ refund'[k].noted
                                      \/ worker'[c].step = "recordNote" /\ worker'[c].key = k,
               refund'[k].noted => refund'[k].refunded,
               WorkerInOrder(c)'
        PROVE  NotesInOrder'
    BY <1>0, <2>2, <2>3, <2>4, <2>5, NotesKept
  <2>6. CASE Ask(c)
    <3>1. /\ UNCHANGED <<refund, notes, lost>> /\ worker[c].step = "ask"
          /\ worker'[c].step \in {"recordRefund", "recordFailure"} /\ worker'[c].key = k
      BY <1>0, <2>2, <2>6 DEF Ask, GoTo, TypeOK
    <3>2. WorkerInOrder(c)'
      BY <2>2, <2>3, <3>1 DEF WorkerInOrder
    <3> QED
      BY <2>3, <2>5, <3>1, <3>2
  <2>7. CASE RecordRefund(c)
    <3>1. /\ UNCHANGED notes /\ worker[c].step = "recordRefund"
          /\ worker'[c].step = "makeNote" /\ worker'[c].key = k
          /\ refund' = [refund EXCEPT ![k] = [refund[k] EXCEPT !.refunded = TRUE, !.status = "pending"]]
      BY <1>0, <2>2, <2>7 DEF RecordRefund, GoTo, Touch, TypeOK
    <3>2. refund'[k].refunded = TRUE /\ refund'[k].noted = refund[k].noted
      BY <1>0, <2>3, <3>1 DEF Row, TypeOK
    <3>3. ~refund[k].noted
      BY <2>2, <2>3, <3>1 DEF WorkerInOrder
    <3>4. WorkerInOrder(c)'
      BY <3>1, <3>2, <3>3 DEF WorkerInOrder
    <3> QED
      BY <2>3, <2>5, <3>1, <3>2, <3>3, <3>4
  <2>8. CASE RecordFailure(c)
    <3>1. /\ UNCHANGED notes /\ worker[c].step = "recordFailure" /\ worker'[c].step = "idle"
          /\ refund' = [refund EXCEPT ![k] = [refund[k] EXCEPT !.status = "failed"]]
      BY <1>0, <2>2, <2>8 DEF RecordFailure, Stop, Idle, Touch, TypeOK
    <3>2. refund'[k].refunded = refund[k].refunded /\ refund'[k].noted = refund[k].noted
      BY <1>0, <2>3, <3>1 DEF Row, TypeOK
    <3>3. WorkerInOrder(c)'
      BY <3>1 DEF WorkerInOrder
    <3>4. /\ notes'[k] <= 1 + lost[k]
          /\ notes'[k] > lost[k] => \/ refund'[k].noted
                                    \/ worker'[c].step = "recordNote" /\ worker'[c].key = k
      BY <2>3, <3>1, <3>2
    <3>5. refund'[k].noted => refund'[k].refunded
      BY <2>3, <3>2
    <3> QED
      BY <2>3, <2>5, <3>1, <3>3, <3>4, <3>5
  <2>9. CASE MakeNote(c)
    <3>1. /\ UNCHANGED refund /\ worker[c].step = "makeNote"
          /\ \/ notes'[k] = notes[k] + 1 /\ worker'[c].step = "recordNote" /\ worker'[c].key = k
             \/ notes'[k] = notes[k] /\ worker'[c].step = "idle"
      BY <1>0, <2>2, <2>9 DEF MakeNote, GoTo, Stop, Idle, TypeOK
    <3>2. ~refund[k].noted /\ refund[k].refunded
      BY <2>2, <2>3, <3>1 DEF WorkerInOrder
    <3>3. notes[k] <= lost[k]
      BY <2>3, <3>1, <3>2
    <3>4. WorkerInOrder(c)'
      BY <3>1, <3>2 DEF WorkerInOrder
    <3> QED
      BY <2>3, <2>5, <3>1, <3>2, <3>3, <3>4
  <2>10. CASE RecordNote(c)
    <3>1. /\ UNCHANGED notes /\ worker[c].step = "recordNote"
          /\ worker'[c].step = "settle" /\ worker'[c].key = k
          /\ refund' = [refund EXCEPT ![k] = [refund[k] EXCEPT !.noted = TRUE]]
      BY <1>0, <2>2, <2>10 DEF RecordNote, GoTo, Touch, TypeOK
    <3>2. refund'[k].refunded = refund[k].refunded /\ refund'[k].noted = TRUE
      BY <1>0, <2>3, <3>1 DEF Row, TypeOK
    <3>3. refund[k].refunded
      BY <2>2, <2>3, <3>1 DEF WorkerInOrder
    <3>4. WorkerInOrder(c)'
      BY <3>1, <3>2 DEF WorkerInOrder
    <3>5. notes[k] <= 1 + lost[k]
      BY DEF NotesInOrder
    <3> QED
      BY <2>5, <3>1, <3>2, <3>3, <3>4, <3>5
  <2>11. CASE Settle(c)
    <3>1. /\ UNCHANGED notes /\ worker[c].step = "settle" /\ worker'[c].step = "idle"
          /\ \/ refund' = refund
             \/ refund' = [refund EXCEPT ![k] = [refund[k] EXCEPT !.status = "processed", !.noted = TRUE]]
      BY <1>0, <2>2, <2>11 DEF Settle, Stop, Idle, Touch, TypeOK
    <3>2. refund[k].noted /\ refund[k].refunded
      BY <2>2, <2>3, <3>1 DEF WorkerInOrder
    <3>3. refund'[k].noted /\ refund'[k].refunded
      <4>1. \/ refund'[k] = refund[k]
            \/ refund'[k] = [refund[k] EXCEPT !.status = "processed", !.noted = TRUE]
        BY <1>0, <3>1 DEF TypeOK
      <4> QED
        BY <2>3, <3>2, <4>1 DEF Row
    <3>4. WorkerInOrder(c)'
      BY <3>1 DEF WorkerInOrder
    <3>5. /\ notes'[k] <= 1 + lost[k]
          /\ notes'[k] > lost[k] => \/ refund'[k].noted
                                    \/ worker'[c].step = "recordNote" /\ worker'[c].key = k
      BY <2>3, <3>1, <3>3
    <3>6. refund'[k].noted => refund'[k].refunded
      BY <3>3
    <3> QED
      BY <2>3, <2>5, <3>1, <3>4, <3>5, <3>6
  <2> QED
    BY <1>6, <2>6, <2>7, <2>8, <2>9, <2>10, <2>11
<1>7. ASSUME NEW c \in Workers, Crash(c) PROVE NotesInOrder'
  <2>1. /\ UNCHANGED <<refund, notes>> /\ worker'[c].step = "idle"
        /\ \A d \in Workers \ {c} : worker'[d] = worker[d]
    BY <1>0, <1>7 DEF Crash, Stop, Idle, TypeOK
  <2>2. CASE worker[c].step # "recordNote" /\ UNCHANGED lost
    BY <1>0, <2>1, <2>2, NotesStay
  \* The row is left with one lost note more, and nobody at it.
  <2>3. CASE worker[c].step = "recordNote" /\ lost' = [lost EXCEPT ![worker[c].key] = @ + 1]
    <3>1. Working(c)
      BY <2>3 DEF Working
    <3>2. PICK k \in Keys : k = worker[c].key
      BY <1>4, <3>1
    <3>3. \A d \in Workers \ {c} : Working(d) => worker[d].key # k
      BY <1>4, <3>1, <3>2
    <3>4. lost'[k] = lost[k] + 1 /\ \A j \in Keys \ {k} : lost'[j] = lost[j]
      BY <1>0, <2>3, <3>2 DEF TypeOK
    <3>5. /\ notes[k] \in Nat /\ lost[k] \in Nat /\ notes[k] <= 1 + lost[k]
          /\ refund[k].noted => refund[k].refunded
      BY <1>0 DEF TypeOK, NotesInOrder
    <3>6. notes'[k] <= 1 + lost'[k] /\ ~(notes'[k] > lost'[k])
      BY <2>1, <3>4, <3>5
    <3>7. WorkerInOrder(c)'
      BY <2>1 DEF WorkerInOrder
    <3> QED
      BY <1>0, <2>1, <3>2, <3>3, <3>4, <3>5, <3>6, <3>7, NotesKept
  <2> QED
    BY <1>7, <2>2, <2>3 DEF Crash
<1>8. CASE UNCHANGED <<refund, notes, worker, lost>>
  BY <1>8 DEF NotesInOrder, WorkerInOrder
<1> QED
  BY <1>1, <1>2, <1>3, <1>6, <1>7, <1>8 DEF Next, Step, GoQuiet, vars

\* However a refund is carried on, and whatever dies on the way, it is credited once, and
\* once more for each request that died between making its note and recording it.
THEOREM NotedOnce ==
    ASSUME "slow" \notin Faults
    PROVE  Spec => []CreditedOnce
<1>1. Init => NotesInOrder
  BY DEF Init, NotesInOrder, WorkerInOrder, Idle
<1>2. Inv /\ NotesInOrder /\ [Next]_vars => NotesInOrder'
  BY StepNotes
<1>3. NotesInOrder => CreditedOnce
  BY DEF NotesInOrder, CreditedOnce
<1> QED
  BY <1>1, <1>2, <1>3, Invariance, PTL DEF Spec

\* Without such a death no note is lost.
NoneLost == lost = [k \in Keys |-> 0]

\* Without such a death, no refund has two credit notes.
THEOREM NeverTwoNotes ==
    ASSUME Faults \cap {"slow", "crashAfterNote"} = {}
    PROVE  Spec => []OneNotePerRefund
<1>1. "slow" \notin Faults
  OBVIOUS
<1>2. Init => NoneLost
  BY DEF Init, NoneLost
<1>3. NoneLost /\ [Next]_vars => NoneLost'
  <2>1. ASSUME NEW c \in Workers, Step(c) PROVE UNCHANGED lost
    BY <2>1 DEF Step, Insert, Ask, RecordRefund, RecordFailure, MakeNote, RecordNote, Settle
  <2>2. ASSUME NEW c \in Workers, Crash(c) PROVE UNCHANGED lost
    BY <2>2 DEF Crash
  <2> QED
    BY <2>1, <2>2 DEF Next, vars, NoneLost, New, CarryOn, GoQuiet
<1>4. NoneLost /\ CreditedOnce => OneNotePerRefund
  BY DEF NoneLost, CreditedOnce, OneNotePerRefund
<1>5. Spec => []CreditedOnce
  BY <1>1, NotedOnce
<1> QED
  BY <1>2, <1>3, <1>4, <1>5, PTL DEF Spec

-----------------------------------------------------------------------------
(* The books of the invoice.                                               *)

\* What has been settled of payment p.
SettledOf(p) ==
    TotalOf([k \in Keys |-> IF refund[k].status = "processed" /\ refund[k].payment = p
                            THEN refund[k].amount ELSE 0])

\* A payment has allocated all that was captured, less what was settled; and the paid
\* amount is what payments allocated.
BooksInOrder ==
    /\ \A p \in Payments : books.alloc[p] + SettledOf(p) = Captured[p]
    /\ PaidMatchesAllocations

\* The settled amount is what the ledger has paid out.
LEMMA SettledInLedger ==
    ASSUME TypeOK, NEW p \in Payments
    PROVE  SettledOf(p) \in Nat /\ Ledger!ClaimedIn({"paid"}, p) = SettledOf(p)
<1> DEFINE f == [k \in Keys |-> IF refund[k].status = "processed" /\ refund[k].payment = p
                                THEN refund[k].amount ELSE 0]
           g == [k \in Keys |-> IF Claims[k].state \in {"paid"} /\ Claims[k].payment = p
                                THEN Claims[k].amount ELSE 0]
<1>1. ASSUME NEW k \in Keys PROVE f[k] = g[k]
  <2>1. refund[k] \in Row /\ Claims[k] = ClaimOf(refund[k])
    BY DEF Claims, TypeOK
  <2> QED
    BY <2>1, ClaimStates
<1>2. f = g
  BY <1>1
<1>3. SettledOf(p) = TotalOf(f) /\ Ledger!ClaimedIn({"paid"}, p) = TotalOf(g)
  BY SameTotal DEF SettledOf, Ledger!ClaimedIn
<1>4. f \in [Keys -> Nat]
  BY DEF TypeOK, Row
<1> HIDE DEF f, g
<1>5. TotalOf(f) \in Nat
  BY <1>4, TotalIsNat, RefundAssumption
<1> QED
  BY <1>2, <1>3, <1>5

\* A step that settles nothing leaves what was settled.
LEMMA SettledSame ==
    ASSUME TypeOK, NEW k \in Keys, NEW row, Touch(k, row) \/ UNCHANGED refund,
           row.status # "processed", refund[k].status # "processed"
    PROVE  \A p \in Payments : SettledOf(p)' = SettledOf(p)
<1> SUFFICES ASSUME NEW p \in Payments PROVE SettledOf(p)' = SettledOf(p)
  OBVIOUS
<1> DEFINE f == [j \in Keys |-> IF refund[j].status = "processed" /\ refund[j].payment = p
                                THEN refund[j].amount ELSE 0]
           g == [j \in Keys |-> IF refund'[j].status = "processed" /\ refund'[j].payment = p
                                THEN refund'[j].amount ELSE 0]
<1>1. \A j \in Keys : refund'[j] = refund[j] \/ (j = k /\ refund'[j] = row)
  BY DEF Touch, TypeOK
<1>2. f = g
  BY <1>1
<1>3. SettledOf(p) = TotalOf(f) /\ SettledOf(p)' = TotalOf(g)
  BY DEF SettledOf
<1> HIDE DEF f, g
<1> QED
  BY <1>2, <1>3

\* Settling row k settles its amount of its payment.
LEMMA SettledMore ==
    ASSUME TypeOK, TypeOK', NEW k \in Keys, refund[k].status = "pending",
           refund'[k].status = "processed", refund'[k].payment = refund[k].payment,
           refund'[k].amount = refund[k].amount, \A j \in Keys \ {k} : refund'[j] = refund[j]
    PROVE  \A p \in Payments :
              SettledOf(p)' = SettledOf(p) + (IF p = refund[k].payment THEN refund[k].amount ELSE 0)
<1> SUFFICES ASSUME NEW p \in Payments
             PROVE  SettledOf(p)' = SettledOf(p) + (IF p = refund[k].payment THEN refund[k].amount ELSE 0)
  OBVIOUS
<1> DEFINE f == [j \in Keys |-> IF refund[j].status = "processed" /\ refund[j].payment = p
                                THEN refund[j].amount ELSE 0]
           g == [j \in Keys |-> IF refund'[j].status = "processed" /\ refund'[j].payment = p
                                THEN refund'[j].amount ELSE 0]
<1>1. f \in [Keys -> Nat] /\ g \in [Keys -> Nat]
  BY DEF TypeOK, Row
<1>2. \A j \in Keys \ {k} : f[j] = g[j]
  OBVIOUS
<1>3. f[k] = 0 /\ g[k] = (IF p = refund[k].payment THEN refund[k].amount ELSE 0)
  OBVIOUS
<1>4. SettledOf(p) = TotalOf(f) /\ SettledOf(p)' = TotalOf(g)
  BY DEF SettledOf
<1> HIDE DEF f, g
<1>5. IsFiniteSet(Keys)
  BY RefundAssumption
<1>6. TotalOf(g) = TotalOf(f) - f[k] + g[k]
  BY <1>1, <1>2, <1>5, TotalUpdate
<1>7. TotalOf(f) \in Nat
  BY <1>1, <1>5, TotalIsNat
<1> QED
  BY <1>3, <1>4, <1>6, <1>7

LEMMA StepBooks ==
    ASSUME "slow" \notin Faults, Inv, BooksInOrder, [Next]_vars
    PROVE  BooksInOrder'
<1>0. TypeOK /\ TypeOK' /\ WorkIsClaimed /\ BookedIsMoved
  BY StepTyped DEF Inv
\* A step that settles nothing.
<1>1. ASSUME UNCHANGED books, \A p \in Payments : SettledOf(p)' = SettledOf(p)
      PROVE  BooksInOrder'
  BY <1>1 DEF BooksInOrder, PaidMatchesAllocations
<1>2. ASSUME UNCHANGED <<books, refund>> PROVE BooksInOrder'
  BY <1>1, <1>2 DEF SettledOf
<1>3. ASSUME NEW c \in Workers, NEW k \in Keys, CarryOn(c, k) PROVE BooksInOrder'
  <2> DEFINE row == [refund[k] EXCEPT !.status = "pending"]
  <2>1. Touch(k, row) /\ UNCHANGED books /\ refund[k] \in Row /\ refund[k].status # "processed"
    BY <1>0, <1>3 DEF CarryOn, Claimable, TypeOK
  <2>2. row.status # "processed"
    BY <2>1 DEF Row
  <2> HIDE DEF row
  <2> QED
    BY <1>0, <1>1, <2>1, <2>2, SettledSame
<1>4. ASSUME NEW c \in Workers, Insert(c) PROVE BooksInOrder'
  <2>1. PICK k \in Keys : k = worker[c].key
    BY <1>0, <1>4 DEF Insert, TypeOK
  <2>2. UNCHANGED books
    BY <1>4 DEF Insert
  <2>3. \/ UNCHANGED refund
        \/ \E row : Touch(k, row) /\ row.status = "pending" /\ refund[k].status = "none"
    BY <1>4, <2>1 DEF Insert
  <2> QED
    BY <1>0, <1>1, <1>2, <2>2, <2>3, SettledSame
\* A request works on a row that is pending.
<1>5. ASSUME NEW c \in Workers, Working(c)
      PROVE  /\ worker[c].key \in Keys /\ refund[worker[c].key] \in Row
             /\ refund[worker[c].key].status = "pending"
  BY <1>0, <1>5 DEF WorkIsClaimed, TypeOK, Working
<1>6. ASSUME NEW c \in Workers, RecordRefund(c) \/ RecordFailure(c) \/ RecordNote(c)
      PROVE  BooksInOrder'
  <2>1. Working(c) /\ UNCHANGED books
    BY <1>6 DEF RecordRefund, RecordFailure, RecordNote, Working
  <2>2. PICK k \in Keys : k = worker[c].key /\ refund[k] \in Row /\ refund[k].status = "pending"
    BY <1>5, <2>1
  <2>3. \E row : Touch(k, row) /\ row.status \in {"pending", "failed"}
    <3>1. CASE RecordRefund(c)
      <4>1. [refund[k] EXCEPT !.refunded = TRUE, !.status = "pending"].status = "pending"
        BY <2>2 DEF Row
      <4> QED
        BY <2>2, <3>1, <4>1 DEF RecordRefund
    <3>2. CASE RecordFailure(c)
      <4>1. [refund[k] EXCEPT !.status = "failed"].status = "failed"
        BY <2>2 DEF Row
      <4> QED
        BY <2>2, <3>2, <4>1 DEF RecordFailure
    <3>3. CASE RecordNote(c)
      <4>1. [refund[k] EXCEPT !.noted = TRUE].status = "pending"
        BY <2>2 DEF Row
      <4> QED
        BY <2>2, <3>3, <4>1 DEF RecordNote
    <3> QED
      BY <1>6, <3>1, <3>2, <3>3
  <2> QED
    BY <1>0, <1>1, <2>1, <2>2, <2>3, SettledSame
<1>7. ASSUME NEW c \in Workers, Settle(c) PROVE BooksInOrder'
  <2>1. Working(c) /\ worker[c].key \in moved
    BY <1>0, <1>7 DEF Settle, Working, BookedIsMoved, BooksSteps
  <2>2. PICK k \in Keys : /\ k = worker[c].key /\ refund[k] \in Row /\ refund[k].status = "pending"
                          /\ k \in moved
    BY <1>5, <2>1
  <2>3. PICK p \in Payments : p = refund[k].payment
    BY <1>0, <2>2 DEF TypeOK
  <2>4. PICK amount \in Nat : amount = refund[k].amount
    BY <2>2 DEF Row
  <2> DEFINE old == refund[k]
             row == [old EXCEPT !.status = "processed", !.noted = TRUE]
             alloc == AllocationLeft(books.alloc, p, amount)
  <2>5. /\ books' = [paid |-> Greater(books.paid - amount, 0), alloc |-> alloc,
                     refunded |-> books.refunded + amount]
        /\ refund' = [refund EXCEPT ![k] = row]
    BY <1>7, <2>2, <2>3, <2>4 DEF Settle, Touch
  <2>6. /\ refund'[k].status = "processed" /\ refund'[k].payment = p /\ refund'[k].amount = amount
        /\ \A j \in Keys \ {k} : refund'[j] = refund[j]
    <3>1. refund'[k] = row /\ \A j \in Keys \ {k} : refund'[j] = refund[j]
      BY <1>0, <2>5 DEF TypeOK
    <3>2. old \in Row /\ old.payment = p /\ old.amount = amount
      BY <2>2, <2>3, <2>4
    <3> HIDE DEF old
    <3> QED
      BY <3>1, <3>2 DEF Row
  <2>7. \A q \in Payments : SettledOf(q)' = SettledOf(q) + (IF q = p THEN amount ELSE 0)
    BY <1>0, <2>2, <2>3, <2>4, <2>6, SettledMore
  <2>8. /\ books.alloc \in [Payments -> Nat] /\ books.paid \in Nat /\ IsFiniteSet(Payments)
        /\ ByHand \in Nat
    BY <1>0, RefundAssumption DEF TypeOK
  <2>9. \A q \in Payments : SettledOf(q) \in Nat /\ Captured[q] \in Nat
    BY <1>0, SettledInLedger, RefundAssumption
  <2>10. SettledOf(p) + amount <= Captured[p]
    BY <1>0, <2>2, <2>3, <2>4, SettledFits, SettledInLedger DEF Ledger!Fits
  <2>11. books.alloc[p] >= amount /\ books.alloc[p] \in Nat
    BY <2>8, <2>9, <2>10 DEF BooksInOrder
  <2>12. alloc = [books.alloc EXCEPT ![p] = books.alloc[p] - amount]
    BY <2>11 DEF AllocationLeft, Greater
  <2> HIDE DEF alloc
  <2>13. /\ alloc \in [Payments -> Nat] /\ alloc[p] = books.alloc[p] - amount
         /\ \A q \in Payments \ {p} : alloc[q] = books.alloc[q]
    BY <2>8, <2>11, <2>12
  <2>14. books'.alloc = alloc /\ books'.paid = Greater(books.paid - amount, 0)
    BY <2>5
  <2>15. \A q \in Payments : books'.alloc[q] + SettledOf(q)' = Captured[q]
    BY <2>7, <2>8, <2>9, <2>13, <2>14 DEF BooksInOrder
  <2>16. /\ TotalOf(alloc) = TotalOf(books.alloc) - amount
         /\ TotalOf(alloc) \in Nat /\ TotalOf(books.alloc) \in Nat
    <3> DEFINE f == books.alloc
    <3>1. f \in [Payments -> Nat] /\ \A q \in Payments \ {p} : f[q] = alloc[q]
      BY <2>8, <2>13
    <3> HIDE DEF f
    <3>2. TotalOf(alloc) = TotalOf(f) - f[p] + alloc[p]
      BY <2>8, <2>13, <3>1, TotalUpdate
    <3>3. TotalOf(f) \in Nat /\ TotalOf(alloc) \in Nat
      BY <2>8, <2>13, <3>1, TotalIsNat
    <3>4. f[p] \in Nat /\ alloc[p] = f[p] - amount
      BY <2>11, <2>13 DEF f
    <3> QED
      BY <3>2, <3>3, <3>4 DEF f
  <2>17. books.paid = ByHand + TotalOf(books.alloc)
    BY DEF BooksInOrder, PaidMatchesAllocations
  <2>18. books'.paid = ByHand + TotalOf(books'.alloc)
    <3> DEFINE before == TotalOf(books.alloc)
               after == TotalOf(alloc)
               paid == books.paid
    <3>1. /\ before \in Nat /\ after \in Nat /\ after = before - amount
          /\ paid = ByHand + before /\ ByHand \in Nat
          /\ books'.paid = Greater(paid - amount, 0)
      BY <2>8, <2>14, <2>16, <2>17
    <3> HIDE DEF before, after, paid
    <3>2. books'.paid = ByHand + after
      BY <3>1 DEF Greater
    <3> QED
      BY <2>14, <3>2 DEF after
  <2> QED
    BY <2>15, <2>18 DEF BooksInOrder, PaidMatchesAllocations
<1> QED
  BY <1>2, <1>3, <1>4, <1>6, <1>7
     DEF Next, Step, New, Ask, MakeNote, Crash, GoQuiet, vars

\* When all that was captured was allocated to the invoice, settling refunds keeps its paid
\* amount what its payments have allocated, next to what was paid by hand, whatever dies,
\* times out or is sent again.
THEOREM PaidIsAllocated ==
    ASSUME "slow" \notin Faults, Allocated = Captured
    PROVE  Spec => []PaidMatchesAllocations
<1>1. ASSUME Init PROVE BooksInOrder
  <2>1. ASSUME NEW p \in Payments PROVE books.alloc[p] + SettledOf(p) = Captured[p]
    <3> DEFINE f == [k \in Keys |-> IF refund[k].status = "processed" /\ refund[k].payment = p
                                    THEN refund[k].amount ELSE 0]
    <3>1. f \in [Keys -> Nat] /\ \A k \in Keys : f[k] = 0
      BY <1>1 DEF Init
    <3>2. SettledOf(p) = TotalOf(f)
      BY DEF SettledOf
    <3> HIDE DEF f
    <3>3. SettledOf(p) = 0
      BY <3>1, <3>2, TotalOfZeroes
    <3> QED
      BY <1>1, <3>3, RefundAssumption DEF Init
  <2>2. PaidMatchesAllocations
    BY <1>1 DEF Init, PaidMatchesAllocations
  <2> QED
    BY <2>1, <2>2 DEF BooksInOrder
<1>2. Init => BooksInOrder
  BY <1>1
<1>3. Inv /\ BooksInOrder /\ [Next]_vars => BooksInOrder'
  BY StepBooks
<1>4. BooksInOrder => PaidMatchesAllocations
  BY DEF BooksInOrder
<1> QED
  BY <1>2, <1>3, <1>4, Invariance, PTL DEF Spec

-----------------------------------------------------------------------------
(* What the ledger promises.  Each of its steps changes one claim, so a    *)
(* sum over the claims changes by that claim's term (TotalUpdate); only    *)
(* Pay makes a term of the paid claims grow, and it pays only what the     *)
(* payment has left.                                                       *)

\* What claim k has paid out of payment p, and of any payment.
Term(k, p) == IF Claims[k].state = "paid" /\ Claims[k].payment = p THEN Claims[k].amount ELSE 0
PaidTerm(k) == IF Claims[k].state = "paid" THEN Claims[k].amount ELSE 0

\* Every step keeps the ledger well typed: a claim has a state, a payment and an
\* amount of its own.
THEOREM LedgerTypeCorrect == Ledger!Spec => []Ledger!TypeOK
<1>1. Ledger!Init => Ledger!TypeOK
  BY DEF Ledger!Init, Ledger!TypeOK, Ledger!Claim
<1>2. Ledger!TypeOK /\ [Ledger!Next]_(Ledger!vars) => Ledger!TypeOK'
  <2> SUFFICES ASSUME Ledger!TypeOK, [Ledger!Next]_(Ledger!vars) PROVE Ledger!TypeOK'
    OBVIOUS
  <2>1. ASSUME NEW k \in Keys, NEW p \in Payments, NEW amount \in 1 .. Captured[p],
               Ledger!Open(k, p, amount)
        PROVE  Ledger!TypeOK'
    <3>1. amount \in Nat
      BY RefundAssumption
    <3> QED
      BY <2>1, <3>1 DEF Ledger!TypeOK, Ledger!Claim, Ledger!Open
  <2>2. ASSUME NEW k \in Keys, Ledger!Close(k) PROVE Ledger!TypeOK'
    BY <2>2 DEF Ledger!TypeOK, Ledger!Claim, Ledger!Close
  <2>3. ASSUME NEW k \in Keys, Ledger!Reopen(k) PROVE Ledger!TypeOK'
    BY <2>3 DEF Ledger!TypeOK, Ledger!Claim, Ledger!Reopen
  <2>4. ASSUME NEW k \in Keys, Ledger!Pay(k) PROVE Ledger!TypeOK'
    BY <2>4 DEF Ledger!TypeOK, Ledger!Claim, Ledger!Pay
  <2>5. CASE UNCHANGED Ledger!vars
    BY <2>5 DEF Ledger!TypeOK, Ledger!vars
  <2> QED
    BY <2>1, <2>2, <2>3, <2>4, <2>5 DEF Ledger!Next
<1> QED
  BY <1>1, <1>2, PTL DEF Ledger!Spec

\* A step that changes claim k alone changes what payment p is claimed for by
\* the change of k's term.
LEMMA ClaimedUpdate ==
    ASSUME Ledger!TypeOK, Ledger!TypeOK', NEW k \in Keys, NEW p \in Payments,
           \A j \in Keys \ {k} : Claims'[j] = Claims[j]
    PROVE  /\ Ledger!ClaimedIn({"paid"}, p) \in Nat
           /\ Ledger!ClaimedIn({"paid"}, p)' =
                Ledger!ClaimedIn({"paid"}, p) - Term(k, p) + Term(k, p)'
<1> DEFINE before == [j \in Keys |-> IF Claims[j].state \in {"paid"} /\ Claims[j].payment = p
                                     THEN Claims[j].amount ELSE 0]
           after == [j \in Keys |-> IF Claims'[j].state \in {"paid"} /\ Claims'[j].payment = p
                                    THEN Claims'[j].amount ELSE 0]
<1>1. before \in [Keys -> Nat] /\ after \in [Keys -> Nat]
  BY DEF Ledger!TypeOK, Ledger!Claim
<1>2. \A j \in Keys \ {k} : before[j] = after[j]
  OBVIOUS
<1>3. before[k] = Term(k, p) /\ after[k] = Term(k, p)'
  BY DEF Term
<1>4. /\ Ledger!ClaimedIn({"paid"}, p) = TotalOf(before)
      /\ Ledger!ClaimedIn({"paid"}, p)' = TotalOf(after)
  BY SameTotal DEF Ledger!ClaimedIn
<1> HIDE DEF before, after
<1>5. TotalOf(after) = TotalOf(before) - before[k] + after[k]
  BY <1>1, <1>2, TotalUpdate, RefundAssumption
<1>6. TotalOf(before) \in Nat
  BY <1>1, TotalIsNat, RefundAssumption
<1> QED
  BY <1>3, <1>4, <1>5, <1>6

\* A step that changes claim k alone changes the sum of the paid claims by the
\* change of what k has paid out.
LEMMA PaidUpdate ==
    ASSUME Ledger!TypeOK, Ledger!TypeOK', NEW k \in Keys,
           \A j \in Keys \ {k} : Claims'[j] = Claims[j]
    PROVE  Ledger!PaidOnce /\ books'.refunded = books.refunded - PaidTerm(k) + PaidTerm(k)' => Ledger!PaidOnce'
<1> DEFINE before == [j \in Keys |-> IF Claims[j].state = "paid" THEN Claims[j].amount ELSE 0]
           after == [j \in Keys |-> IF Claims'[j].state = "paid" THEN Claims'[j].amount ELSE 0]
<1>1. before \in [Keys -> Nat] /\ after \in [Keys -> Nat]
  BY DEF Ledger!TypeOK, Ledger!Claim
<1>2. \A j \in Keys \ {k} : before[j] = after[j]
  OBVIOUS
<1>3. before[k] = PaidTerm(k) /\ after[k] = PaidTerm(k)'
  BY DEF PaidTerm
<1>4. /\ Ledger!PaidOnce <=> books.refunded = TotalOf(before)
      /\ Ledger!PaidOnce' <=> books'.refunded = TotalOf(after)
  BY SameTotal DEF Ledger!PaidOnce
<1> HIDE DEF before, after
<1>5. TotalOf(after) = TotalOf(before) - before[k] + after[k]
  BY <1>1, <1>2, TotalUpdate, RefundAssumption
<1>6. TotalOf(before) \in Nat
  BY <1>1, TotalIsNat, RefundAssumption
<1> QED
  BY <1>3, <1>4, <1>5, <1>6

\* Whatever is claimed, refused, claimed again and paid, what is paid out of a
\* payment never comes to more than was captured of it.
THEOREM LedgerPaysWithinCaptured == Ledger!Spec => []Ledger!WithinCaptured
<1>1. Ledger!Init => Ledger!WithinCaptured
  <2> SUFFICES ASSUME Ledger!Init, NEW p \in Payments
               PROVE  Ledger!ClaimedIn({"paid"}, p) <= Captured[p]
    BY DEF Ledger!WithinCaptured
  <2> DEFINE f == [k \in Keys |-> IF Claims[k].state \in {"paid"} /\ Claims[k].payment = p
                                  THEN Claims[k].amount ELSE 0]
  <2>1. f \in [Keys -> Nat] /\ \A k \in Keys : f[k] = 0
    BY DEF Ledger!Init
  <2>2. Ledger!ClaimedIn({"paid"}, p) = TotalOf(f)
    BY SameTotal DEF Ledger!ClaimedIn
  <2> HIDE DEF f
  <2>3. TotalOf(f) = 0
    BY <2>1, TotalOfZeroes
  <2> QED
    BY <2>2, <2>3, RefundAssumption
<1>2. Ledger!TypeOK /\ Ledger!TypeOK' /\ Ledger!WithinCaptured /\ [Ledger!Next]_(Ledger!vars) => Ledger!WithinCaptured'
  <2> SUFFICES ASSUME Ledger!TypeOK, Ledger!TypeOK', Ledger!WithinCaptured, [Ledger!Next]_(Ledger!vars), NEW p \in Payments
               PROVE  Ledger!ClaimedIn({"paid"}, p)' <= Captured[p]
    BY DEF Ledger!WithinCaptured
  <2> DEFINE sum == Ledger!ClaimedIn({"paid"}, p)
  <2>1. sum <= Captured[p] /\ Captured[p] \in Nat
    BY RefundAssumption DEF Ledger!WithinCaptured
  <2>2. ASSUME NEW k \in Keys, NEW q \in Payments, NEW amount \in 1 .. Captured[q],
               Ledger!Open(k, q, amount)
        PROVE  sum' <= Captured[p]
    <3>1. sum \in Nat /\ sum' = sum - Term(k, p) + Term(k, p)'
      BY <2>2, ClaimedUpdate DEF Ledger!Open, Ledger!TypeOK
    <3>2. Term(k, p) = 0 /\ Term(k, p)' = 0
      BY <2>2 DEF Ledger!Open, Term, Ledger!TypeOK
    <3> HIDE DEF sum
    <3> QED
      BY <2>1, <3>1, <3>2
  <2>3. ASSUME NEW k \in Keys, Ledger!Close(k) PROVE sum' <= Captured[p]
    <3>1. sum \in Nat /\ sum' = sum - Term(k, p) + Term(k, p)'
      BY <2>3, ClaimedUpdate DEF Ledger!Close, Ledger!TypeOK
    <3>2. Term(k, p) = 0 /\ Term(k, p)' = 0
      BY <2>3 DEF Ledger!Close, Term, Ledger!TypeOK, Ledger!Claim
    <3> HIDE DEF sum
    <3> QED
      BY <2>1, <3>1, <3>2
  <2>4. ASSUME NEW k \in Keys, Ledger!Reopen(k) PROVE sum' <= Captured[p]
    <3>1. sum \in Nat /\ sum' = sum - Term(k, p) + Term(k, p)'
      BY <2>4, ClaimedUpdate DEF Ledger!Reopen, Ledger!TypeOK
    <3>2. Term(k, p) = 0 /\ Term(k, p)' = 0
      BY <2>4 DEF Ledger!Reopen, Term, Ledger!TypeOK, Ledger!Claim
    <3> HIDE DEF sum
    <3> QED
      BY <2>1, <3>1, <3>2
  <2>5. ASSUME NEW k \in Keys, Ledger!Pay(k) PROVE sum' <= Captured[p]
    <3>1. sum \in Nat /\ sum' = sum - Term(k, p) + Term(k, p)'
      BY <2>5, ClaimedUpdate DEF Ledger!Pay, Ledger!TypeOK
    <3>2. Term(k, p) = 0 /\ Term(k, p)' = IF Claims[k].payment = p THEN Claims[k].amount ELSE 0
      BY <2>5 DEF Ledger!Pay, Term, Ledger!TypeOK, Ledger!Claim
    <3>3. Claims[k].payment = p => sum + Claims[k].amount <= Captured[p]
      BY <2>5 DEF Ledger!Pay, Ledger!Fits
    <3>4. Claims[k].amount \in Nat
      BY DEF Ledger!TypeOK, Ledger!Claim
    <3> HIDE DEF sum
    <3> QED
      BY <2>1, <3>1, <3>2, <3>3, <3>4
  <2>6. CASE UNCHANGED Ledger!vars
    BY <2>1, <2>6 DEF Ledger!vars, Ledger!ClaimedIn
  <2> QED
    BY <2>2, <2>3, <2>4, <2>5, <2>6 DEF Ledger!Next
<1> QED
  BY <1>1, <1>2, LedgerTypeCorrect, PTL DEF Ledger!Spec

\* What left the order is at any time the sum of the claims that were paid, so
\* none is paid twice however often its request is sent.
THEOREM LedgerPaysOnce == Ledger!Spec => []Ledger!PaidOnce
<1>1. Ledger!Init => Ledger!PaidOnce
  <2> SUFFICES ASSUME Ledger!Init PROVE Ledger!PaidOnce
    OBVIOUS
  <2> DEFINE f == [k \in Keys |-> IF Claims[k].state = "paid" THEN Claims[k].amount ELSE 0]
  <2>1. f \in [Keys -> Nat] /\ \A k \in Keys : f[k] = 0
    BY DEF Ledger!Init
  <2>2. Ledger!PaidOnce <=> books.refunded = TotalOf(f)
    BY SameTotal DEF Ledger!PaidOnce
  <2> HIDE DEF f
  <2>3. TotalOf(f) = 0
    BY <2>1, TotalOfZeroes
  <2> QED
    BY <2>2, <2>3 DEF Ledger!Init
<1>2. Ledger!TypeOK /\ Ledger!TypeOK' /\ Ledger!PaidOnce /\ [Ledger!Next]_(Ledger!vars) => Ledger!PaidOnce'
  <2> SUFFICES ASSUME Ledger!TypeOK, Ledger!TypeOK', Ledger!PaidOnce, [Ledger!Next]_(Ledger!vars) PROVE Ledger!PaidOnce'
    OBVIOUS
  <2>1. ASSUME NEW k \in Keys, NEW p \in Payments, NEW amount \in 1 .. Captured[p],
               Ledger!Open(k, p, amount)
        PROVE  Ledger!PaidOnce'
    <3>1. PaidTerm(k) = 0 /\ PaidTerm(k)' = 0
      BY <2>1 DEF Ledger!Open, PaidTerm, Ledger!TypeOK
    <3>2. books'.refunded = books.refunded - PaidTerm(k) + PaidTerm(k)'
      BY <2>1, <3>1 DEF Ledger!Open, Ledger!TypeOK
    <3> QED
      BY <2>1, <3>2, PaidUpdate DEF Ledger!Open, Ledger!TypeOK
  <2>2. ASSUME NEW k \in Keys, Ledger!Close(k) PROVE Ledger!PaidOnce'
    <3>1. PaidTerm(k) = 0 /\ PaidTerm(k)' = 0
      BY <2>2 DEF Ledger!Close, PaidTerm, Ledger!TypeOK, Ledger!Claim
    <3>2. books'.refunded = books.refunded - PaidTerm(k) + PaidTerm(k)'
      BY <2>2, <3>1 DEF Ledger!Close, Ledger!TypeOK
    <3> QED
      BY <2>2, <3>2, PaidUpdate DEF Ledger!Close, Ledger!TypeOK
  <2>3. ASSUME NEW k \in Keys, Ledger!Reopen(k) PROVE Ledger!PaidOnce'
    <3>1. PaidTerm(k) = 0 /\ PaidTerm(k)' = 0
      BY <2>3 DEF Ledger!Reopen, PaidTerm, Ledger!TypeOK, Ledger!Claim
    <3>2. books'.refunded = books.refunded - PaidTerm(k) + PaidTerm(k)'
      BY <2>3, <3>1 DEF Ledger!Reopen, Ledger!TypeOK
    <3> QED
      BY <2>3, <3>2, PaidUpdate DEF Ledger!Reopen, Ledger!TypeOK
  <2>4. ASSUME NEW k \in Keys, Ledger!Pay(k) PROVE Ledger!PaidOnce'
    <3>1. PaidTerm(k) = 0 /\ PaidTerm(k)' = Claims[k].amount /\ Claims[k].amount \in Nat
      BY <2>4 DEF Ledger!Pay, PaidTerm, Ledger!TypeOK, Ledger!Claim
    <3>2. books'.refunded = books.refunded - PaidTerm(k) + PaidTerm(k)'
      BY <2>4, <3>1 DEF Ledger!Pay, Ledger!TypeOK
    <3> QED
      BY <2>4, <3>2, PaidUpdate DEF Ledger!Pay, Ledger!TypeOK
  <2>5. CASE UNCHANGED Ledger!vars
    BY <2>5 DEF Ledger!vars, Ledger!PaidOnce
  <2> QED
    BY <2>1, <2>2, <2>3, <2>4, <2>5 DEF Ledger!Next
<1> QED
  BY <1>1, <1>2, LedgerTypeCorrect, PTL DEF Ledger!Spec

\* So the refunds that are settled of a payment never come to more than was captured
\* of it, and what the books say was refunded is what the settled rows come to.
THEOREM SettledOnceWithinCaptured ==
    ASSUME "slow" \notin Faults
    PROVE  Spec => [](Ledger!WithinCaptured /\ Ledger!PaidOnce)
<1>1. Spec => Ledger!Spec
  BY RefundImplementsLedger DEF ImplementsLedger
<1> QED
  BY <1>1, LedgerPaysWithinCaptured, LedgerPaysOnce, PTL
=============================================================================
