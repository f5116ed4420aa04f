SPECIFICATION FairSpec
CONSTANTS
    MaxCaptures = 2
    Echo = {2}
    PipeCapacity = 1
    MaxWrites = 2
    MaxKids = 1
    MaxRecords = 1
    MaxFd = 10
INVARIANTS
    TypeOK
    OutputWhole
    LogShape
    DescriptorsReturned
PROPERTIES
    CaptureReturns
    PipeDrains
\* The process exits after the last capture allowed by MaxCaptures.
CHECK_DEADLOCK FALSE
