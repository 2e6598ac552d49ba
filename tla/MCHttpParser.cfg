CONSTANTS
    Alpha <- Letters
    Digits = {"0", "1"}
    Other = {"x"}
    Chunks <- MCChunks
    Requests <- MCRequests
    MaxReads = 4
SPECIFICATION Spec
INVARIANTS TypeOK BackIsSafe AcceptedWasWritten WrittenIsAccepted
PROPERTY ReadConforms
CHECK_DEADLOCK FALSE
