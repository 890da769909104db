\* A WiFi link that drops and cannot be dialled again at once.
SPECIFICATION Spec
CONSTANTS
    A = A
    B = B
    home = home
    None = None
    Port <- MCPort
    Addr <- MCAddr
    Requests = {None, A}
    SerialMax = 2
    WifiMax = 2
    MaxEvents = 2
CHECK_DEADLOCK FALSE
PROPERTIES
    FailedAttemptFollowed
