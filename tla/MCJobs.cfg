SPECIFICATION Spec
SYMMETRY MCSymmetry
CONSTANTS
    h1 = h1
    m1 = m1
    m2 = m2
    Hosts <- MCHosts
    Runs <- MCRuns
    Batched = {}
    HostOf <- MCHostOf
    JobType <- MCJobType
    ReadLimit = 1
    Cancels = {}
    MaxFaults = 2
    MaxProgress = 1
INVARIANTS
    TypeOK
    MutationsSerialized
    NoParkedMutation

    
    
