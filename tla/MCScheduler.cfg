SPECIFICATION Spec
CHECK_DEADLOCK FALSE
CONSTANTS
    Schedules = {s1}
    Runs = {r1, r2}
    NoRun = NoRun
    Crons = {1, 2}
    Field = 3
    Horizon = 3
    MaxChanges = 1
    MaxFaults = 2
CONSTRAINT EditsOrFaults
SYMMETRY Symmetry
INVARIANTS
    NoOverlapUnedited
    ChainAlive
