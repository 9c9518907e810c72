SPECIFICATION FairSpec
CONSTANTS
  t1 = t1
  t2 = t2
  t3 = t3
  Thread = {t1, t2, t3}
  MaxFutures = 2
  MaxCalls = 5
  MaxSteps = 1
  Ops = {"create", "call", "await", "settle"}
INVARIANTS AwaitTellsTheTruth SignalIsKept NoCoroutineForgotten
PROPERTIES TakenSignalEndsWait
CHECK_DEADLOCK FALSE
