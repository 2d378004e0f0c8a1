SPECIFICATION FairSpec
CONSTANTS
    NumSeats = 3
    PileCount = 3
    MaxCards = 11
    HistoryCapacity = 4
    NoCard = NoCard
    Stacks <- MCStacks
INVARIANTS
    TypeOK
    TableTold
    Restorable
PROPERTIES
    ImplementsCardDraft
    DrawnCardStaysHidden
    DraftEnds
CHECK_DEADLOCK FALSE
