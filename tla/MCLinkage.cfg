CONSTANTS
    main = main
    a = a
    b = b
    s = s
    t = t
    x = x
    d1 = d1
    d2 = d2
    None = None
    Missing = Missing
    Project = {main, a, b}
    Std = {s, t}
    Entry = main
    Names = {x}
    MaxStack = 6
    Order <- MCOrder
    Programs <- MCPrograms
SPECIFICATION Spec
INVARIANT ReadsOwnModule
CHECK_DEADLOCK FALSE
