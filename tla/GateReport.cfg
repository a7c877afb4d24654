SPECIFICATION FairSpec
CONSTANTS
    MaxQueue = 3
    MayCrash = TRUE
INVARIANTS
    TypeOK
    LastWordTells
PROPERTIES
    EventsBacked
    GateSettles
