SPECIFICATION FairSpec
CONSTANTS
    Pieces = {1, 7, 30}
    MaxRxBuf = 57
    ServerScripts <- RtuScripts
    ClientScripts <- ScadaScripts
INVARIANTS
    TypeOK
    RoundTrip
    NoFrameWaits
    FullBatchFits
PROPERTIES
    AllProcessed
CHECK_DEADLOCK FALSE
