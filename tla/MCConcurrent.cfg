CONSTANTS
    Futures = {f1, f2, f3}
    NoFuture = NoFuture
    Callers = {c1, c2}
    Values = {v}
    Errors = {e}
    Nil = Nil
    NoError = NoError
    Cancelled = Cancelled
    NoVM = NoVM
    MaxCalls = 4
    Threads = {main}
    Loops = {l1, l2}
    Nobody = Nobody
    Slice = 1
    Room = 1
    MaxPosts = 3
    MaxBegun = 4
    Priority <- MCPriority
SPECIFICATION MCSpec
INVARIANTS
    ComponentTypes
    AnswersAgree
    OneWinner
    ClosureDiscipline
    ChainOutcome
    TasksAccountedFor
PROPERTIES
    ImplementsPromise
    FailureTravels
    GetComesBack
    TurnComes
CHECK_DEADLOCK FALSE
