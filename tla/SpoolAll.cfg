SPECIFICATION FairSpec
CONSTANTS
    Daemon = {d1, d2}
    Id = {i1}
    Size <- MCSize
    Policy <- MCPolicy
    Disks <- MCDisks
    Outcomes = {"delivered"}
    NoId = NoId
    MaxCrashes = 1
INVARIANTS
    CapturedStays
PROPERTIES
    OwnersOnly
    DeadReservationsGo
CHECK_DEADLOCK FALSE
