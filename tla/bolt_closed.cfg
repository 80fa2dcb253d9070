SPECIFICATION Spec
CONSTANTS
    NDevices = 2
    Parent <- Chained
    Enrolled = {2}
    MaxInbox = 2
    MaxBusy = 2
    MaxOperations = 2
PROPERTIES
    AnswersFindTheirDialog
CHECK_DEADLOCK FALSE
