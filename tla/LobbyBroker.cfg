SPECIFICATION Spec
CONSTANTS
    Conns = {c1, c2}
    Codes = {k1, k2}
    Tokens = {t1, t2}
    Sizes = {3}
    NoGame = NoGame
    NoReg = NoReg
    NoToken = NoToken
    Shells = {TRUE, FALSE}
    Timeout = 3
    Quantum = 2
    Lifetime = 1
    MaxEntries = 2
    MaxGenerations = 2
INVARIANTS
    StampIsOwn
    LiveHostKept
    SeatsHaveHolders
    EvictionLosesNothing
    ReaperAwake
PROPERTIES
    RemovedRightly
SYMMETRY Symmetric
