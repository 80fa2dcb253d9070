SPECIFICATION Spec
CONSTANTS
    NDevices = 2
    Parent <- Chained
    Enrolled = {1}
    MaxInbox = 3
    MaxBusy = 1
    MaxOperations = 2
INVARIANTS
    ListsFollowBoltd
    BoxesFollowLists
PROPERTIES
    ParentsFirst
    OperationsEnd
CHECK_DEADLOCK FALSE
