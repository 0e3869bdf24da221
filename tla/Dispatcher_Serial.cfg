CONSTANTS
    p1 = p1
    p2 = p2
    cBase = cBase
    cTrans = cTrans
    NoPeer = NoPeer
    Peers = {p1, p2}
    Consumers = {cBase, cTrans}
    Kinds <- MCStartStop
    InCap = 2
    OutCap = 1
    MaxMsgs = 2
    PeerKinds <- MCAnyKind
SPECIFICATION Spec
PROPERTY SerialRefinement
