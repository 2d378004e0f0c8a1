SPECIFICATION FairSpec
CONSTANTS
    NumSeats = 3
    PackCount = 2
    PickCounts = {1, 2}
    MaxPackSize = 4
    NoPack = NoPack
    NoSeat = NoSeat
    Deals <- MCDeals
    EffectCards <- MCEffectCards
INVARIANTS
    SomeoneOwesPick
    FairShare
    OriginTellsPack
PROPERTIES
    ImplementsCardDraft
    DraftEnds
CHECK_DEADLOCK FALSE
