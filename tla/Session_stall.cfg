SPECIFICATION FairSpec
CONSTANTS
    SeqSize = 5
    K = 2
    W = 2
    MaxObj = 1
    GiObjects = 0
    MaxQueue = 1
    MaxGi = 1
PROPERTIES
    WindowReopens
