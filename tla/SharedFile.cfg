SPECIFICATION Spec
CONSTANTS
    Blocks = {b}
    Nodes = {p1, p2}
    Browsers = {}
    Null = Null
    Empty = Empty
    MaxAttempt = 4

INVARIANT HolderIsAtWork
PROPERTY ProductStays
CHECK_DEADLOCK FALSE
