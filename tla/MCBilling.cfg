SPECIFICATION Spec
CONSTANTS
  Kinds = {"plan", "addon"}
  Tiers = {1, 2}
  MaxSubs = 2
  MaxCharges = 2
  MaxTries = 1
  Period = 2
  Grace = 1
  MaxLate = 0
  MaxDay = 4
  MaxHandlers = 2
  Uses = {"change", "cancel", "grant"}
  Faults = {"crash"}
INVARIANTS
  ChargesInvoicedOnce
  EndedIsNotCharged
  PlanInForce
  BilledOnce
CHECK_DEADLOCK FALSE
