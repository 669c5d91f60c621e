SPECIFICATION DiscordSpec
CHECK_DEADLOCK FALSE
CONSTANTS
    Stamps <- ThreeLines
    ServerLines = {3}
    BadLines = {2}
    Appends = {q1, q2}
    None = None
    MaxFaults = 1
    MaxEdits = 1
    Rules = {k1, k2}
    Sources = {log, list}
    Quiet = 1
    RateLimit = 2
    RateWindow = 3
    Attempts = 2
    MaxNow = 2
    MaxRestarts = 1
SYMMETRY Symmetry
INVARIANTS
    RecordedOnce
    UploadedIsRecorded
    NoMessageLost
    
    PostedOncePerWindow
