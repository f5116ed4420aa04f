SPECIFICATION Spec
CONSTANTS
    MaxCaptures = 2
    Echo = {1}
    PipeCapacity = 1
    MaxWrites = 2
    MaxKids = 1
    MaxRecords = 0
    MaxFd = 10
INVARIANTS
    EchoOnlyToTerminal
\* The process exits after the last capture allowed by MaxCaptures.
CHECK_DEADLOCK FALSE
