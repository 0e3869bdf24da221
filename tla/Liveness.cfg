CONSTANTS
    a1 = a1
    a2 = a2
    i1 = i1
    i2 = i2
    Apps = {a1, a2}
    Ips = {i1, i2}
    AppIp <- MCAppIp
    SearchPing = SearchPing
    NoApp = NoApp
    MaxSilence = 6
    MaxQueued = 2
    MaxNotes = 2

SPECIFICATION Spec

INVARIANT TypeOK
INVARIANT ReportedOncePerReason
PROPERTY OfflineOnlyAfterSilence
PROPERTY SilentPeerDropped
