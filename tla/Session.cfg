SPECIFICATION FairSpec
CONSTANTS
    Sockets = {s1, s2}
    Jobs = {j1}
    MaxDrops = 1
    Null = Null
INVARIANTS
    TypeOK
    NoGhosts
    OneChain
PROPERTIES
    StaysListed
    GoneIsUnlisted
    ReturnGetsResult
CHECK_DEADLOCK FALSE
