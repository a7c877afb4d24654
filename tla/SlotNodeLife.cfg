SPECIFICATION FairSpec
CONSTANTS
    Slots = {s1}
    LockTurns = 2
    LockTimeout = 2
    ReleaseCount = 3
INVARIANTS
    TypeOK
PROPERTIES
    LocksOnlyStayingCar
    ChangeReported
    UnlockEnds
    StayingCarLocked
