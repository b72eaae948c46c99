CONSTANTS
    Slots = {s1, s2}
    MaxValue = 2
    None = None
    Objects = {o1, o2}
    Nothing = Nothing
    MaxPool = 2
    MaxCalls = 2
    MaxStack = 2
    MaxFrames = 3
    MaxLevels = 3
    MaxHandlers = 2
    MaxDepth = 2
    StackTop = 3
    Callers = {c1, c2, c3}
    Requested <- MCRequested
    MaxSends = 2
    Main = Main
    Tasks = {t1, t2}
    MaxObjects = 4
SPECIFICATION MCSpec
INVARIANTS
    ComponentTypes
    OwnerAndClosuresAgree
    FlagSound
    LocalInstancesRecycledSafely
    CatchIsInnermost
    StackBalanced
    FramesAccountedFor
    NothingLost
    NobodyStranded
    NothingShared
PROPERTIES
    FrozenStaysFrozen
    ImplementsFifo
CHECK_DEADLOCK FALSE
