SPECIFICATION Spec
CONSTANTS
    MaxCaptures = 2
    MaxRecords = 3
    BufferLimit = 2
INVARIANTS
    TypeOK
    FileInOrder
    TerminalTold
    NothingForgotten
\* The process exits after the last record allowed by MaxRecords.
CHECK_DEADLOCK FALSE
