SPECIFICATION Spec
CONSTANTS
  MaxFrames = 3
  MaxBlocks = 2
  MaxDefers = 2
  MaxNatives = 2
  MaxOpen <- Mixed
INVARIANTS HandlersMatchFrames DefersBelongToFrames EscapedIsTaken
