SPECIFICATION FairSpec
CONSTANTS
    h1 = h1
    b1 = b1
    b2 = b2
    Hosts = {h1}
    Runs = {b1, b2}
    Batched = {b1, b2}
    HostOf <- MCHostOf
    JobType <- MCJobType
    ReadLimit = 1
    Cancels = {}
    MaxFaults = 0
    MaxProgress = 0
PROPERTY
    BatchCompletes
