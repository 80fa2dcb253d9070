SPECIFICATION Spec
CONSTANTS
    Printers = {1, 2}
    None = 0
    Additions <- Second
    Renamings <- FirstToSecond
    MaxListings = 1
    MaxTests = 2
INVARIANTS
    DeletedIsHidden
    DeletionsAreTracked
PROPERTIES
    OnlyDeletedAreRemoved
    DeletionsAreSent
CHECK_DEADLOCK FALSE
