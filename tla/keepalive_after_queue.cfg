\* An upload of several files on a link that never fails.
SPECIFICATION Spec
CONSTANTS
    Chunks <- MCChunks
    MaxFiles = 2
    MaxDirs = 1
    MissedLimit = 2
    Ops = {"files"}
    MaxOps = 1
    MaxInFlight = 3
    LateDialogs = FALSE
    UseWifi = FALSE
    PendingLimit = 1
    Quiet = TRUE
    Lossy = FALSE
    MayWedge = FALSE
INVARIANTS
    KeepaliveWhileIdle
