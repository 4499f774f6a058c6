SPECIFICATION FairSpec
CONSTANTS
    v1 = v1
    Viewers <- MCViewers
    Rates <- MCRates
    Settings <- MCSettings
    Messages <- MCMessages
    NoViewer = NoViewer
    MaxMessages = 2
    RemoteControl = TRUE
INVARIANTS Coherent TierCoherent RoleIsTheViewersOwn
PROPERTIES ControlKeepsOthers Served
