CONSTANTS
    Entries <- MCEntries
    AllFileSize = 3
    Faults = {"create", "source", "dest", "read", "write", "close"}
SPECIFICATION Spec
INVARIANT ResultAfterFinish
CHECK_DEADLOCK FALSE
