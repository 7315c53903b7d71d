SPECIFICATION FairSpec
CONSTANTS
    SeqSize = 4
    K = 2
    W = 2
    MaxObj = 2
    GiObjects = 1
    MaxQueue = 2
    MaxGi = 0
INVARIANTS
    IInv
    WindowSound
PROPERTIES
    WindowReopensWithoutGi
