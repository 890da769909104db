\* Any interleaving: calls at any time, dialogs confirmed late.
SPECIFICATION Spec
CONSTANTS
    Chunks <- MCChunks
    MaxFiles = 2
    MaxDirs = 2
    MissedLimit = 2
    Ops <- AllOps
    MaxOps = 2
    MaxInFlight = 3
    LateDialogs = TRUE
    UseWifi = FALSE
    PendingLimit = 1
    Quiet = FALSE
    Lossy = FALSE
    MayWedge = FALSE
INVARIANTS
    TypeOK
    OneTransfer
    TransferHasDeadline
    SuspendedMeansSilent
    OffsetsMatchPhase
