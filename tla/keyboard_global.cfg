SPECIFICATION Spec
CONSTANTS
    None = None
    www = www
    switch = switch
    switchback = switchback
    app = app
    Keyvals = {"a", "b", "c"}
    Codes = {1, 2}
    NPaths = 2
    MaxChanges = 1
    Standard <- MCStandard
    Globals <- MCGlobals
    CodeOf <- MCCodeOf
    Presses <- MCPresses
    Default <- MCDefault
    Reverse <- MCReverse
    Hidden = {}
    Group <- MCGroup
    Order <- MCOrder
    Foreign <- MCForeign
    Starts <- MCStarts
INVARIANT
    NeverCrashes
CHECK_DEADLOCK FALSE
