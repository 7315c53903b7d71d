SPECIFICATION FairSpec
CONSTANTS
    MaxConns = 2
    Addrs <- OneHost
INVARIANTS
    TypeOK
    NoGhosts
    Registered
    Listed
PROPERTIES
    LeftForgotten
    SenderFollows
CHECK_DEADLOCK FALSE
