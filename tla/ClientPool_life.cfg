SPECIFICATION FairSpec
CONSTANTS
    Names = {n1, n2}
    MaxConns = 3
    MAX_CONNECTIONS = 2
    MaxListed = 2
INVARIANTS
    TypeOK
    OwnedOnce
    UnownedStops
    LimitTestedOnce
    ExitClosesAll
PROPERTIES
    DeadSessionLeaves
CHECK_DEADLOCK FALSE
