SPECIFICATION FairMonitor
CONSTANTS
    Drivers = {"gate", "slot", "status"}
    HeartbeatTimeout = 1
    Window = 2
INVARIANTS
    TypeOK
    UsersHaveTheirMeans
    OpenPinsModule
PROPERTIES
    ReleasesWhatIsHeld
    LeaksConfined
    LampPutOut
    SilentNodeShown
    LiveNodeShown
