SPECIFICATION FairSpec
CONSTANTS
    Batches = 4
    EntryCloseDelay = 2
    ExitTimeout = 3
INVARIANTS
    TypeOK
    RestingArm
    NoStaleReopen
    LampTellsDirection
PROPERTIES
    VehicleGrace
    ImplementsBarrier
    ReportsGateStates
    PressServed
    ClosesWhenClear
    StopEnds
