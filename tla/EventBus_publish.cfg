SPECIFICATION FairSpec
CONSTANTS
    tcp = tcp
    udp = udp
    Handlers <- Subscribers
    Filter <- Filters
    Locked = {tcp}
    Remote = {tcp}
    Lossy = {udp}
    NoFilter = NoFilter
    Sessions = {"s1", "s2"}
    Frames <- TwoFrames
    Callers = {"main", "console"}
INVARIANTS
    TypeOK
    NoGap
    CallsWhole
    ClosedOnce
PROPERTIES
    PublishEnds
CHECK_DEADLOCK FALSE
