CONSTANTS
    g1 = g1
    g2 = g2
    k = k
    v1 = v1
    v2 = v2
    Groups = {g1, g2}
    Keys = {k}
    Vals = {v1, v2}
    Absent = Absent
    NoFile = NoFile
    Outcomes = {"ok", "openFail", "shortWrite", "flushFail"}
    DefaultVal <- MCDefault
    FallbackVal <- MCFallback
    DefaultOrder <- MCDefaultOrder
    FallbackOrder <- MCFallbackOrder
SPECIFICATION Spec

PROPERTY NoSilentChange
