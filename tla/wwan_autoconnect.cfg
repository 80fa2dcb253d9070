SPECIFICATION Spec
CONSTANTS
    NSims = 2
    NApns = 4
    SimOf <- MCSimOf
    Stored <- MCStored
    Starts <- MCStarts
    MaxSteps = 3
INVARIANTS
    DataStaysEnabled
CHECK_DEADLOCK FALSE
