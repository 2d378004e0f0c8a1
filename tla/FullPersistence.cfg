SPECIFICATION Spec
CONSTANTS
    Handlers = {h1, h2}
    MaxGen = 2
    MaxRev = 2
    MaxBoots = 2
    None = None
INVARIANTS
    LiveIsRecoverable
PROPERTIES
    DiskMovesForward
    RemovalOwesNothing
CHECK_DEADLOCK FALSE
SYMMETRY HandlerSymmetry
