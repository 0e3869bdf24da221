CONSTANTS
    p1 = p1
    p2 = p2
    cBase = cBase
    cTrans = cTrans
    NoPeer = NoPeer
    Peers = {p1, p2}
    Consumers = {cBase, cTrans}
    Kinds <- MCShapes
    InCap = 1
    OutCap = 1
    MaxMsgs = 2
    PeerKinds <- MCAnyKind
SPECIFICATION Spec
INVARIANT TypeOK

PROPERTY EveryEnvelopeHandled
