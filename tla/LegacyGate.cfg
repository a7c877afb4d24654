SPECIFICATION FairSpec
CONSTANTS
    Batches = 4
    EntryCloseDelay = 2
    ExitTimeout = 3
    Prompt = TRUE
INVARIANTS
    TypeOK
    OneStroke
    StateTellsGate
    WordTells
PROPERTIES
    ArmIsBarrier
    ClosesWhenClear
