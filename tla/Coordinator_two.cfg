SPECIFICATION FairSpec
CONSTANTS
    n1 = n1
    n2 = n2
    Blocks = {b1, b2}
    Nodes = {n1, n2}
    Browsers = {}
    Null = Null
    Empty = Empty
    Runs = {r1, r2}
    FirstRun = r1
    HostOf <- TwoHosts
    WorkersOf <- FirstOnly
    Mirrors = {}
    Informed = {n1, n2}
    Flaky = {}
    Crashable = {n1}
    MaxAttempt = 3


INVARIANTS AnswerIsWhole 
PROPERTIES  TakeoverCompletes
CHECK_DEADLOCK FALSE
