SPECIFICATION FairSpec
CONSTANTS
    Requests = {r1, r2, r3, r4}
    MAX_CONCURRENT_BLOCKS = 2

INVARIANTS TypeOK SlotsBalance
PROPERTIES AcceptedEnds
CHECK_DEADLOCK FALSE
