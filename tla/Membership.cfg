SPECIFICATION FairSpec
CONSTANTS
    Nodes = {n1, n2}
    MaxStarts = 3
    MaxCuts = 1
    MaxLost = 1
INVARIANTS
    TypeOK
    NoFalseSuspicion
PROPERTIES
    DeadIsSuspected
    MeetAndStay
CHECK_DEADLOCK FALSE
