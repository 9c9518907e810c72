SPECIFICATION Spec
CONSTANTS
  a = a
  b = b
  MaxCoroutines = 2
  MaxFutures = 0
  MaxSteps = 2
  Channel = {a}
  Capacity <- Rendezvous
  Ops = {"go", "receive", "close"}
  Selects <- NoSelects
INVARIANT ResumesAtAnInstruction
