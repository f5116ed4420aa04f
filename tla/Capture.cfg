SPECIFICATION MCSpec
CONSTANTS
    n1 = n1
    n2 = n2
    Nodes = {n1, n2}
    Local = Local
    NoNode = NoNode
    Configs <- EveryConfig
    KeepFiles = {nameplate, metering}
    NoFile = NoFile
    Torn = Torn
    MaxRuns = 2
    MaxSecond = 1
INVARIANTS
    TypeOK
    CompleteMeansWhole
    PartialByConsent
    DeclaredAcceleratorSeen
    NothingLeftBehind
    FreshHardware
    AnswerIsTrue
    LogMatchesAnswer
PROPERTIES
    ReplacedOnlyByVerified
    LiftedBesideDeliverable
    Implements
    RunEnds
\* The last run allowed by MaxRuns ends the behaviour.
CHECK_DEADLOCK FALSE
