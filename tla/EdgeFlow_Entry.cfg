CONSTANTS
    a = a
    b = b
    c = c
    NoScreen = NoScreen
    Screens = {a, b}
    Neighbour <- MCSideBySide
    Controller = a
    Widths = {3}
    Heights = {3}
SPECIFICATION Spec
PROPERTY EnteredAtOppositeEdge
