SPECIFICATION Spec
CONSTANTS
    Conns = {c1, c2}
    Codes = {k1, k2}
    Sweep = Sweep
    Viewer = Viewer
    None = None
    Shells = {TRUE, FALSE}
    MaxStamp = 4
    MaxSubscribes = 2
INVARIANTS
    FeedExact
PROPERTIES
    DeltasExact
CHECK_DEADLOCK FALSE
