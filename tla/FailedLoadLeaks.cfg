SPECIFICATION Spec
CONSTANTS
    Drivers = {"gate"}
INVARIANTS
    FailedLoadReleases
