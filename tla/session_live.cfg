\* A device that may stop answering while its port stays open.
SPECIFICATION FairSpec
CONSTANTS
    Chunks <- MCChunks
    MaxFiles = 2
    MaxDirs = 1
    MissedLimit = 2
    Ops <- LiveOps
    MaxOps = 2
    MaxInFlight = 3
    LateDialogs = FALSE
    UseWifi = FALSE
    PendingLimit = 1
    Quiet = FALSE
    Lossy = FALSE
    MayWedge = TRUE
PROPERTIES
    WedgeRecovered
    TransfersEnd
