SPECIFICATION Spec
CONSTANTS
    Sockets = {x1, x2, x3}
    MaxSeats = 3
    MinPlayers = 2
    MaxTokens = 3
    MaxBoots = 1
    None = None
INVARIANT ForfeitDeserved
CHECK_DEADLOCK FALSE
SYMMETRY SocketSymmetry
