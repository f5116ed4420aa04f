SPECIFICATION FairSpec
CONSTANTS
    f1 = f1
    f2 = f2
    f3 = f3
    f4 = f4
    Null = Null
    Files = {f1, f2, f3, f4}
    Root = f1
    MaxDepth = 2
    Cases <- LoadCases
INVARIANTS
    TypeOK
    NearestWins
    UnresolvedExact
    RefusedForCause
PROPERTIES
    LoadEnds
\* The behaviour ends with the load.
CHECK_DEADLOCK FALSE
