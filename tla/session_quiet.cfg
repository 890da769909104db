\* Calls made one after another on a connected link.
SPECIFICATION Spec
CONSTANTS
    Chunks <- MCChunks
    MaxFiles = 2
    MaxDirs = 1
    MissedLimit = 2
    Ops <- QuietOps
    MaxOps = 4
    MaxInFlight = 4
    LateDialogs = FALSE
    UseWifi = FALSE
    PendingLimit = 1
    Quiet = TRUE
    Lossy = TRUE
    MayWedge = FALSE
INVARIANTS
    WholeImageAtFinish
    ExclusiveStream
    StopAndWait
PROPERTIES
    CompletionIsEarned
    TransfersRefine
