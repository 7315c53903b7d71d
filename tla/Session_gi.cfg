SPECIFICATION Spec
CONSTANTS
    SeqSize = 5
    K = 2
    W = 2
    MaxObj = 2
    GiObjects = 2
    MaxQueue = 0
    MaxGi = 2
INVARIANTS
    TypeOK
    ServerFramesInSequence
    InterrogationsCounted
    InterrogationsAcknowledged
    StallOnlyByStaleAck
