SPECIFICATION EventSpec
CONSTANTS
    Events <- MCOnePod
    SwissRounds = 3
    NoPlayer = NoPlayer
INVARIANTS
    RecordsTally
CHECK_DEADLOCK FALSE
