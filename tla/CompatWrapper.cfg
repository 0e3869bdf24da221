CONSTANTS
    Msgs <- MCMsgs
    MaxMsgs = 3
SPECIFICATION Spec
INVARIANT TypeOK
INVARIANT HandledOnce
PROPERTY BackendBound
CHECK_DEADLOCK FALSE
