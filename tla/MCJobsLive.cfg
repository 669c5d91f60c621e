SPECIFICATION FairSpec
CONSTANTS
    h1 = h1
    m1 = m1
    q1 = q1
    Hosts <- MCHosts
    Runs <- MCRuns
    Batched = {}
    HostOf <- MCHostOf
    JobType <- MCJobType
    ReadLimit = 1
    Cancels = {}
    MaxFaults = 1
    MaxProgress = 0
PROPERTIES
    RunningResolves
    
