SPECIFICATION FairSpec
CONSTANTS
    status = status
    short = short
    other = other
    n1 = n1
    n2 = n2
    Status = status
    ShortName = short
    Fields = {status, short, other}
    Nodes = {n1, n2}
    MaxWorkers = 2
    Cases <- CheckCases
INVARIANTS
    TypeOK
    NeverOverstated
    OkMeansReady
    StatusesMatch
    KeptAnswered
    NoProbeOutlives
PROPERTIES
    CheckEnds
\* The behaviour ends with the check.
CHECK_DEADLOCK FALSE
