SPECIFICATION Spec
CONSTANTS
    Slots = {s1, s2}
    LockTurns = 1
    LockTimeout = 1
    ReleaseCount = 1
SYMMETRY Symmetry
VIEW LiveState
INVARIANTS
    LockMatchesBarrier
    WorksOwed
    NoLostChange
PROPERTIES
    ReportsSlotFeed
