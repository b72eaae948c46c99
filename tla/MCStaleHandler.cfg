CONSTANTS
    MaxFrames = 2
    MaxLevels = 1
    MaxHandlers = 2
    MaxDepth = 1
    StackTop = 3
SPECIFICATION Spec
INVARIANT UncaughtIsReported
CHECK_DEADLOCK FALSE
