SPECIFICATION Spec
CHECK_DEADLOCK FALSE
CONSTANTS
    Agents = {a1, a2}
    Hosts = {h1, h2}
    Tokens = {t1, t2}
    Asks = {k1, k2}
    None = None
    Pairs = {p1}
    Rotations = {r1}
    MaxVersion = 2
    MaxFaults = 1
SYMMETRY
    Symmetry
INVARIANTS
    OneKeyPerToken
    
    ShownIsLatest
