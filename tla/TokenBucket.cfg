CONSTANTS
    t1 = t1
    t2 = t2
    Threads = {t1, t2}
    Tokens = {1}
    TimePerToken = 1
    TimePerBurst = 2
    W = 4
    ClockStart = 0
    MaxTime = 4
    MaxSpurious = 1
    GrantCap = 3
SPECIFICATION Spec
INVARIANT TypeOK
PROPERTY ConsumeReturns
