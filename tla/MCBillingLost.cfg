SPECIFICATION Spec
CONSTANTS
  Kinds = {"plan"}
  Tiers = {1, 2}
  MaxSubs = 1
  MaxCharges = 2
  MaxTries = 1
  Period = 2
  Grace = 1
  MaxLate = 0
  MaxDay = 4
  MaxHandlers = 2
  Uses = {}
  Faults = {"crashAtEvent"}
INVARIANTS
  ChargesInvoicedOnce
CHECK_DEADLOCK FALSE
