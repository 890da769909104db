\* USB and WiFi taking over from each other under whatever is running.
SPECIFICATION Spec
CONSTANTS
    Chunks <- MCChunks
    MaxFiles = 2
    MaxDirs = 1
    MissedLimit = 2
    Ops <- LinkOps
    MaxOps = 2
    MaxInFlight = 3
    LateDialogs = TRUE
    UseWifi = TRUE
    PendingLimit = 1
    Quiet = FALSE
    Lossy = FALSE
    MayWedge = FALSE
INVARIANTS
    OneTransfer
    TransferHasDeadline
    HeldBackOnlyOffline
