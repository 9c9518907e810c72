CONSTANTS
    Object = {a, b, c}
    Slot = {s}
    Root = {x, y}
    NoRef = NoRef
    Gone = Gone
    Ages = {1, 2}
    Adaptive = FALSE
    MaxFlags = 1
    MaxLarge = 1
    Requests = {"minor", "major", "full"}
SYMMETRY Symmetry
SPECIFICATION Spec
INVARIANTS RootsNeverDangle CarefulUseIsSafe BytesAreExact
PROPERTIES CollectionsAreInvisible FullLeavesNoGarbage
CHECK_DEADLOCK FALSE
