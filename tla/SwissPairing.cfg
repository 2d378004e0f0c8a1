SPECIFICATION HistorySpec
CONSTANTS
    PodSizes = {2, 3, 4, 5, 6}
    MaxRounds = 4
INVARIANTS
    NoAvoidableRematch
    StandingsOrderFirst
    ByeAsLowAsAllowed
CHECK_DEADLOCK FALSE
