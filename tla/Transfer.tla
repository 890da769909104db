------------------------------ MODULE Transfer ------------------------------
(***************************************************************************)
(* What each of the three transfers of M1Device promises, seen from        *)
(* outside: firmware update, ESP32 update and file upload are announced    *)
(* with START, then hand over chunks 0, 1, ..., Size - 1 in this order,    *)
(* none skipped and none repeated, and only then ask for FINISH.  A        *)
(* transfer may be given up at any point.                                  *)
(***************************************************************************)
EXTENDS Naturals

CONSTANTS
    Size,       \* number of chunks of the image
    Chained     \* TRUE when the next file of a queue may follow directly

VARIABLES
    st,         \* FwUpdateState, EspUpdateState or FileUploadState
    off         \* chunks handed to the transport so far

tvars == <<st, off>>

Phases == {"Idle", "WaitingStartAck", "SendingData", "WaitingFinishAck"}

TInit == st = "Idle" /\ off = 0

Begin ==
    /\ st = "Idle" \/ (Chained /\ st = "WaitingFinishAck")
    /\ st' = "WaitingStartAck"
    /\ off' = 0

Chunk ==
    /\ st \in {"WaitingStartAck", "SendingData"}
    /\ off < Size
    /\ st' = "SendingData"
    /\ off' = off + 1

Finish ==
    /\ st = "SendingData"
    /\ off = Size
    /\ st' = "WaitingFinishAck"
    /\ UNCHANGED off

End ==
    /\ st # "Idle"
    /\ st' = "Idle"
    /\ off' = 0

TNext == Begin \/ Chunk \/ Finish \/ End

TSpec == TInit /\ [][TNext]_tvars
=============================================================================
