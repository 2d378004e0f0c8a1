SPECIFICATION FairEventSpec
CONSTANTS
    Events <- MCEvents
    SwissRounds = 3
    NoPlayer = NoPlayer
INVARIANTS
    RecordsTallyUnlessMisread
    OneTablePerRound
    BracketSound
PROPERTIES
    EventEnds
CHECK_DEADLOCK FALSE
