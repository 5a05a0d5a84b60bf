SPECIFICATION RFairSpec
CONSTANTS
    n1 = n1
    n2 = n2
    Blocks = {b1}
    Nodes = {n1, n2}
    Browsers = {p1}
    Null = Null
    Empty = Empty
    Runs = {r1}
    FirstRun = r1
    HostOf <- OneHost
    WorkersOf <- Everyone
    Mirrors = {}
    Informed = {n1, n2, p1}
    Flaky = {b1}
    Crashable = {n1}
    MaxAttempt = 2
    Backups = {n2}
    Unlisted = {n2}
    Attempts = 3
    MaxLate = 2
INVARIANTS RTypeOK BackupNeverAhead 
    DatabaseKnowsOwner ContributionsExact NoSpuriousFailure
PROPERTIES RunEnds
CHECK_DEADLOCK FALSE
