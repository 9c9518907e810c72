SPECIFICATION Spec
CONSTANTS
  t1 = t1
  t2 = t2
  t3 = t3
  Thread = {t1, t2}
  MaxFutures = 1
  MaxCalls = 3
  MaxSteps = 0
  Ops = {"create", "await", "settle"}
INVARIANT SettlingWakesThreads
CHECK_DEADLOCK FALSE
