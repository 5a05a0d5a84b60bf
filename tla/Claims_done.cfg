SPECIFICATION FairSpec
CONSTANTS
    n1 = n1
    n2 = n2
    Blocks = {b1, b2}
    Nodes = {n1, n2}
    Browsers = {}
    Null = Null
    Empty = Empty
    Runs = {r1}
    FirstRun = r1
    HostOf <- OneHost
    WorkersOf <- Everyone
    Mirrors = {}
    Informed = {n1, n2}
    Flaky = {}
    Crashable = {}
    MaxAttempt = 3


PROPERTY DoneIsTerminal
CHECK_DEADLOCK FALSE
