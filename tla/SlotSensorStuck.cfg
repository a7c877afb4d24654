SPECIFICATION FairSpec
CONSTANTS
    Slots = {s1}
    LockTurns = 1
    LockTimeout = 1
    ReleaseCount = 1
PROPERTIES
    SensorMeasuresAgain
