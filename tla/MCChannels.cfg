SPECIFICATION Spec
CONSTANTS
  a = a
  b = b
  MaxCoroutines = 3
  MaxFutures = 0
  MaxSteps = 3
  Channel = {a, b}
  Capacity <- Mixed
  Ops = {"go", "send", "receive", "iterate", "select", "poll", "close", "cancel"}
  Selects <- ReceiveOrSend
INVARIANTS ChannelDiscipline LeavesOnlyTheStuck
PROPERTY ChannelsAreFifo
