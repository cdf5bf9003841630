\* One scheduler; requests stay off the templates that a tick is working on.
SPECIFICATION FairSpec
CONSTANTS
  t1 = t1  s1 = s1  s2 = s2  u1 = u1
  Templates = {t1}
  Schedulers = {s1}
  Users = {u1}
  Periods = {1, 2}
  RunLimits = {0, 2}
  Ends = {0, 3}
  Unlimited = 0
  MaxCatchup = 2
  Batch = 1
  NoTemplate = NoTemplate
  Horizon = 3
  MaxByHand = 2
  Uses = {"lapses"}
INVARIANTS
  TypeOK
  RunsCountInvoices
PROPERTIES
  OncePerDate
  NeverPastLimits
  DroppedForGood
  DueIsHandled
CHECK_DEADLOCK FALSE
