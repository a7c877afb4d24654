SPECIFICATION FairSpec
CONSTANTS
    Batches = 2
    EntryCloseDelay = 1
    ExitTimeout = 1
PROPERTIES
    ApproachRenewsTimer
