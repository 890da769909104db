\* DFU, SWD and downloads on one M1, with either DFU tool and either probe.
SPECIFICATION Spec
CONSTANTS
    f1 = f1
    f2 = f2
    Image <- MCImage
    Factory = Factory
    Partial = Partial
    None = None
    MaxCalls = 4
CHECK_DEADLOCK FALSE
INVARIANTS
    TypeOK
    OnlyOverlapMixesUp
    DialogHasProcess
    NoDeafDownload
PROPERTIES
    BootBankWhole
    FlashedAsAsked
    SwdCompleteIsEarned
