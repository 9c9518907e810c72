SPECIFICATION Spec
CONSTANTS
  MaxFrames = 3
  MaxBlocks = 1
  MaxDefers = 2
  MaxNatives = 1
  MaxOpen <- Mixed
PROPERTIES NativeUnharmed
