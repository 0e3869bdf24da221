CONSTANTS
    t1 = t1
    t2 = t2
    Threads = {t1, t2}
    Tokens = {1, 2}
    TimePerToken = 1
    TimePerBurst = 2
    W = 4
    ClockStart = 2
    MaxTime = 7
    MaxSpurious = 0
    GrantCap = 3
SPECIFICATION Spec
INVARIANT BurstBound
