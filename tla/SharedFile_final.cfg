SPECIFICATION Spec
CONSTANTS
    Blocks = {b}
    Nodes = {p1, p2}
    Browsers = {}
    Null = Null
    Empty = Empty
    MaxAttempt = 4

PROPERTY CompleteIsFinal
CHECK_DEADLOCK FALSE
