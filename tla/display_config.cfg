SPECIFICATION Spec
CONSTANTS
    NMonitors = 3
    Widths <- MCWidths
    Preferred <- MCPreferred
    Positions <- MCPositions
    MaxX = 3
INVARIANTS
    TypeOK
    OnePrimary
PROPERTIES
    JoinedIsLinear
    ImplementsLayout
