SPECIFICATION FairSpec
CONSTANTS
    MaxQueue = 2
    MayCrash = FALSE
PROPERTIES
    ExitAnnounced
