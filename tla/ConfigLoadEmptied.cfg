SPECIFICATION Spec
CONSTANTS
    f1 = f1
    f2 = f2
    f3 = f3
    f4 = f4
    Null = Null
    Files = {f1, f2, f3, f4}
    Root = f1
    MaxDepth = 2
    Cases <- LoadCases
INVARIANTS
    EmptiedIsAbsent
CHECK_DEADLOCK FALSE
