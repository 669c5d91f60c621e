SPECIFICATION PagesSpec
CHECK_DEADLOCK FALSE
CONSTANTS
    None = None
    Sizes <- MCSizes
    Total = 2
    Fresh = 1
    LogWindow = 3
    Attempts = 2
    MaxNow = 2
    MaxVisits = 2
    MaxJoins = 1
    MaxSends = 2
    MaxAnswers = 1
    MaxFaults = 1
    Players = {p1, p2}
    Windows = {0, 2}
    DefaultWindow = 2
    Retention = 4
    MaxHistory = 3
    MaxPolls = 5
    Servers = {s1, s2}
    Initial = 3
    Take = 2
    Longest = 3
    Retentions = {1, 9}
    DefaultRetention = 9
    MaxRows = 4
    MaxMoments = 3
SYMMETRY Symmetry
INVARIANTS
    
    
    
    ShowsSelected
    NoRowSkipped
PROPERTY
    PausedNeverRewinds
