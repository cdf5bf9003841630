\* Two ticks at once: two instances of the server, or one tick that takes over a minute.
SPECIFICATION Spec
CONSTANTS
  t1 = t1  s1 = s1  s2 = s2  u1 = u1
  Templates = {t1}
  Schedulers = {s1, s2}
  Users = {u1}
  Periods = {1, 2}
  RunLimits = {0, 2}
  Ends = {0, 3}
  Unlimited = 0
  MaxCatchup = 2
  Batch = 1
  NoTemplate = NoTemplate
  Horizon = 3
  MaxByHand = 2
  Uses = {}
PROPERTIES
  OncePerDate
CHECK_DEADLOCK FALSE
