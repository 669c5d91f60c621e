SPECIFICATION Spec
SYMMETRY MCSymmetry
CONSTANTS
    h1 = h1
    b1 = b1
    b2 = b2
    Hosts = {h1}
    Runs <- MCRuns
    Batched = {b1, b2}
    HostOf <- MCHostOf
    JobType <- MCJobType
    ReadLimit = 1
    Cancels = {c1}
    MaxFaults = 1
    MaxProgress = 0
INVARIANTS
    
    CountsAddUp
