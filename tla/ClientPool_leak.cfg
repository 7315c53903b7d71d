SPECIFICATION Spec
CONSTANTS
    Names = {n1}
    MaxConns = 2
    MAX_CONNECTIONS = 2
    MaxListed = 1
INVARIANTS
    SessionsManaged
CHECK_DEADLOCK FALSE
