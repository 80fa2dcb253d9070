SPECIFICATION Spec
CONSTANTS
    NPanels = 4
    VisibilityOf <- ShippedVisibility
    MaxHistory = 3
INVARIANTS
    ListFollowsWindow
    RowsMatchVisibility
PROPERTIES
    NewPanelIsSelected
    NavigatesAsHistory
    HiddenPanelIsLeft
    IdleKeepsPanel
    LastPanelComesBack
