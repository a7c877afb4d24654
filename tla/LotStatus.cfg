SPECIFICATION FairSpec
CONSTANTS
    Slots = {s1}
    MaxQueue = 2
    MaxFlight = 1
INVARIANTS
    TypeOK
    LotWordTells
PROPERTIES
    ViewsSettle
