\* Two payments by Razorpay and one by hand, two requests served by two processes.
SPECIFICATION FairSpec
CONSTANTS
  p1 = p1  p2 = p2  k1 = k1  k2 = k2  w1 = w1  w2 = w2
  Payments = {p1, p2}
  Captured <- TwoPayments
  Allocated <- TwoPayments
  ByHand = 1
  Total = 4
  Keys = {k1, k2}
  Amounts = {1, 2}
  Workers = {w1, w2}
  NoKey = NoKey
  NoPayment = NoPayment
  MaxCrashes = 2
  Faults = {"timeout", "crash", "crashAfterNote"}
INVARIANTS
  TypeOK
  OneRequestAtATime
  BooksFollowMoney
  CreditedOnce
  PaidMatchesAllocations
PROPERTIES
  ImplementsLedger
  EveryRefundEnds
CHECK_DEADLOCK FALSE
