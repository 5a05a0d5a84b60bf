SPECIFICATION FairSpec
CONSTANTS
    Nodes = {1, 2, 3}
    First = 1
    Null = Null
    Deaf <- OneDeaf
    Crashable = {1, 3}
    Restartable = {3}
    SlowRestart = TRUE
    MaxElections = 2
    MaxTasks = 1
INVARIANTS TypeOK 
PROPERTIES TakeoverIsDue CoordinatorEmerges 
CHECK_DEADLOCK FALSE
