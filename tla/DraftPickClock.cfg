SPECIFICATION FairSpec
CONSTANTS
    Seats = {s1, s2}
    Timers = {t1, t2, t3, t4}
    NoTimer = NoTimer
    Windows = 3
    MaxDisconnects = 2
    MaxRestarts = 1
INVARIANTS
    NoTimerPileUp
    ConnectedHasNoGrace
PROPERTIES
    SweepSparesConnected
    ClockNeverStops
    ClockDrivesDraft
CHECK_DEADLOCK FALSE
