\* A bank erase whose link drops before the answer.
SPECIFICATION Spec
CONSTANTS
    Chunks <- MCChunks
    MaxFiles = 2
    MaxDirs = 1
    MissedLimit = 2
    Ops = {"erase"}
    MaxOps = 1
    MaxInFlight = 3
    LateDialogs = FALSE
    UseWifi = FALSE
    PendingLimit = 1
    Quiet = TRUE
    Lossy = FALSE
    MayWedge = FALSE
PROPERTIES
    EraseCompleteIsEarned
