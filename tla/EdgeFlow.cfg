CONSTANTS
    a = a
    b = b
    c = c
    NoScreen = NoScreen
    Screens = {a, b, c}
    Neighbour <- MCCorner
    Controller = a
    Widths = {2, 3}
    Heights = {2}
SPECIFICATION Spec
INVARIANT TypeOK
INVARIANT OnePointer
