SPECIFICATION FairSpec
CHECK_DEADLOCK FALSE
CONSTANTS
    Hosts = {h1}
    Paths = {p1, p2}
    None = None
    Discoveries = {d1, d2}
    Fetches = {f1, f2}
    MaxServers = 3
    MaxOps = 3
    MaxFaults = 1
INVARIANT
    OneRowPerInstall
PROPERTIES
    OperatorCommandKept
    PageCatchesUp
