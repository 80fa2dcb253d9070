SPECIFICATION Spec
CONSTANTS
    NMonitors = 3
    Sizes <- MCSizes
    Layouts <- MCLayouts
    Spots <- MCSpots
    MaxSteps = 5
    MajorSnap = 25
    MinorSnap = 5
    Far = 9999
    MinOverlap = 25
    Zoom = 20
INVARIANTS
    TypeOK
    PairSettles
PROPERTIES
    PairStaysAttached
    NewcomerFits
CHECK_DEADLOCK FALSE
