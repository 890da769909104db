\* Two serial ports and one WiFi address, with and without --port.
SPECIFICATION FairSpec
CONSTANTS
    A = A
    B = B
    home = home
    None = None
    Port <- MCPort
    Addr <- MCAddr
    Requests = {None, A}
    SerialMax = 2
    WifiMax = 2
    MaxEvents = 4
CHECK_DEADLOCK FALSE
INVARIANTS
    TypeOK
    RetryHasTimer
    UserCloseIsFinal
    NoSteal
    IntentIsFresh
PROPERTIES
    RetriesSettle
    UsbComesBack
