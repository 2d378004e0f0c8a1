SPECIFICATION Spec
CONSTANTS
    Humans = {alice, bob}
    AiSeats = {bot}
    Hostings = {"SingleUser"}
    MAX_TAKEBACK_HISTORY = 2
    MAX_TURN_REWIND_HISTORY = 2
    MaxTransitions = 3
    MaxTurn = 3
    MaxAiResults = 1
    Nothing = Nothing
INVARIANTS
    RollbackSound
    VoteIsShown
PROPERTIES
    OnlyByConsent
CHECK_DEADLOCK FALSE
SYMMETRY HumanSymmetry
