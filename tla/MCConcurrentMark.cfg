CONSTANTS
    Object = {a, b}
    Root = {x, y}
    Worker = {v, w}
    Coordinator = Coordinator
    NoRef = NoRef
    Gone = Gone
    MaxNew = 1
    MinorAt = {"Idle", "ConcurrentMark"}
SPECIFICATION FairSpec
INVARIANTS NothingDangles RendezvousIsReal IdleIsClean
PROPERTIES CycleFreesGarbage CycleEnds WaitEnds
CHECK_DEADLOCK FALSE
