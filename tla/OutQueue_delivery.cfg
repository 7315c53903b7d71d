SPECIFICATION FairSpec
CONSTANTS
    a = a
    b = b
    c = c
    Signals <- AllSignals
    Tables <- BothTables
    GiOrder <- OrderAll
    Commands = {c}
    Unsupported = {"M_EP_TD_1"}
    Updaters = {"cli"}
    MaxObj = 2
    MaxUpdates = 1
    MaxGi = 1
    MaxStops = 1
INVARIANTS
    TypeOK
    ConfirmationFirst
    InterrogationComplete
    OneLateFrame
PROPERTIES
    DeliveredOnce
    EventuallyTaken
CHECK_DEADLOCK FALSE
