SPECIFICATION FairSpec
CONSTANTS
  a = a
  b = b
  MaxCoroutines = 3
  MaxFutures = 2
  MaxSteps = 2
  Channel = {a}
  Capacity <- OneSlot
  Ops = {"go", "call", "await", "sleep", "timeout", "http", "select", "send"}
  Selects <- BothSides
INVARIANTS ExactlyOnePlace NoLostWakeup SomeoneWillSettle
PROPERTIES SettlesOnce ReadyIsFifo EventuallyReturns ScheduledWakes
