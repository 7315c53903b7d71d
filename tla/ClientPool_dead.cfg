SPECIFICATION FairSpec
CONSTANTS
    Names = {n1}
    MaxConns = 1
    MAX_CONNECTIONS = 1
    MaxListed = 1
PROPERTIES
    DeadSessionRemoved
CHECK_DEADLOCK FALSE
