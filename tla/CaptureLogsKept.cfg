SPECIFICATION FairSpec
CONSTANTS
    n1 = n1
    n2 = n2
    Nodes = {n1, n2}
    Local = Local
    NoNode = NoNode
    Configs <- RetriedConfigs
    KeepFiles = {nameplate}
    NoFile = NoFile
    Torn = Torn
    MaxRuns = 2
    MaxSecond = 1
PROPERTIES
    LogsKept
CHECK_DEADLOCK FALSE
