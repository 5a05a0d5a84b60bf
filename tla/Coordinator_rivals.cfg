SPECIFICATION Spec
CONSTANTS
    n1 = n1
    n2 = n2
    Blocks = {b1}
    Nodes = {n1, n2}
    Browsers = {p1}
    Null = Null
    Empty = Empty
    Runs = {r1, r2, r3}
    FirstRun = r1
    HostOf <- TwoHosts
    WorkersOf <- FirstOnly
    Mirrors = {n2}
    Informed = {n1, n2, p1}
    Flaky = {b1}
    Crashable = {n1}
    MaxAttempt = 4
SYMMETRY Symmetry
INVARIANTS  AnswerIsWhole CompleteIsStored

CHECK_DEADLOCK FALSE
