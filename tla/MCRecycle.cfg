CONSTANTS
    Objects = {o1, o2}
    Slots = {s1, s2}
    Nothing = Nothing
    MaxPool = 1
    MaxDepth = 2
    MaxStack = 2
SPECIFICATION Spec
INVARIANT PooledIsGarbage
