\* The first frame of the device reads the same in both CRC dialects.
SPECIFICATION Spec
CONSTANTS
    Base = 4
    Sync = 3
    MaxPayload = 2
    Crc <- MCCrc
    MaxPending = 1
    SeqRange = 8
    FirstSeq = 7
    Replies <- MCTwinReply
    MaxDials = 1
    MaxCloses = 0
    MaxWrites = 2
    MaxCalls = 5
    MaxStreams = 2
    MaxGrams = 2
    MaxQueue = 2
CHECK_DEADLOCK FALSE
INVARIANTS
    FirstFrameTellsDialect
