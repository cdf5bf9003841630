SPECIFICATION FairSpec
CONSTANTS
  Kinds = {"plan"}
  Tiers = {1, 2}
  MaxSubs = 1
  MaxCharges = 2
  MaxTries = 2
  Period = 2
  Grace = 1
  MaxLate = 2
  MaxDay = 5
  MaxHandlers = 2
  Uses = {"change", "cancel"}
  Faults = {}
INVARIANTS
  TypeOK
  PaidTimeIsGiven
PROPERTIES
  OnlyForward
  UnpaidGoesReadOnly
  EndsHereToo
CHECK_DEADLOCK FALSE
