SPECIFICATION StorageSpec
CONSTANTS
    PanelTypes <- MCPanels
    Keys <- MCKeys
    SyncKeys <- MCSyncKeys
    AsyncKeys <- MCAsyncKeys
    MaxInstances = 4
INVARIANTS
    NeverFails
    ProxiesAreShared
PROPERTIES
    AnswersReachLivePanel
    RequestsAreAnswered
