\* The screen stream is started, stopped and started again.
SPECIFICATION Spec
CONSTANTS
    Base = 4
    Sync = 3
    MaxPayload = 2
    Crc <- MCCrc
    MaxPending = 1
    SeqRange = 8
    FirstSeq = 7
    Replies <- MCReplies
    MaxDials = 2
    MaxCloses = 1
    MaxWrites = 3
    MaxCalls = 5
    MaxStreams = 2
    MaxGrams = 2
    MaxQueue = 2
CHECK_DEADLOCK FALSE
INVARIANTS
    ListensToRunningStream
