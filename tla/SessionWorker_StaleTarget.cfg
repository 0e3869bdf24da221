CONSTANTS
    a1 = a1
    a2 = a2
    Addrs <- MCAddrs
    NoAddr = NoAddr
    DO_SUCCESS = DO_SUCCESS
    LOGIN_SUCCESS = LOGIN_SUCCESS
    NullMask = NullMask
SPECIFICATION Spec
INVARIANT ConnectsToRequested
