----------------------------- MODULE DfuFlasher -----------------------------
(***************************************************************************)
(* DfuFlasher (src/backend/updater/dfu_flasher.cpp) and the programs it    *)
(* runs: the bundled helper tools/stm32_dfu_flash.c, or                    *)
(* STM32_Programmer_CLI where there is no helper.  Three processes may     *)
(* exist at a time, a scan, a flash and a bank swap.  A process runs on    *)
(* its own; its output and its end reach the GUI thread as slots, later.   *)
(*                                                                         *)
(* kill() takes effect within the waitForFinished() that follows it, which *)
(* delivers finished() before it returns; deleteLater() on the pointer the *)
(* slot has cleared does nothing in Qt 6.4.2, which the releases are built *)
(* with.  A tool is installed: without one scanOnce() reports no device,   *)
(* and nothing starts.                                                     *)
(***************************************************************************)
EXTENDS FlashBanks

VARIABLES
    cli,        \* m_useCliDirect
    scanning,   \* m_scanning, and m_scanTimer runs
    found,      \* m_dfuDeviceFound
    flashing,   \* m_flashing
    flashOk,    \* m_flashOk
    scanProc,   \* m_scanProcess: what it has printed
    flashProc,  \* m_flashProcess
    swapProc    \* m_swapProcess

guiVars == <<scanning, found, flashing, flashOk>>
procVars == <<scanProc, flashProc, swapProc>>
dfuVars == <<cli, guiVars, procVars>>

Target == {"inactive", "bank1", "bank2"}
ExitCode == {None, "ok", "failed", "crash"}

\* A flash process: how far it is, its arguments, the bank it writes, the image
\* it has read, whether the line that says it is done waits to be read, and how
\* it ended.
FlashStage == {"starting", "dead", "claimed", "writing", "written", "ended"}
FlashProc == [at : FlashStage, file : Image, target : Target, to : Bank \cup {None},
              image : Image \cup {None}, said : BOOLEAN, code : ExitCode]
SwapProc == [at : {"starting", "dead", "claimed", "ended"}, code : ExitCode]

\* A null pointer is no process, and no process has ended without an exit code.
ASSUME ProcessAssumption ==
    None \notin FlashProc \cup SwapProc
                \cup {"starting", "dead", "nothing", "device", "ok", "failed", "crash"}

Alive(p) == p # None /\ p.at \notin {"dead", "ended"}
Ended(p) == p # None /\ p.at = "ended"

DfuInit ==
    /\ cli \in BOOLEAN
    /\ scanning = FALSE /\ found = FALSE
    /\ flashing = FALSE /\ flashOk = FALSE
    /\ scanProc = None /\ flashProc = None /\ swapProc = None

----------------------------------------------------------------------------
\* Scanning

\* setDfuDeviceFound(), and what becomes of m_scanProcess with it.
Saw(seen) == found' = seen /\ scanProc' = None

\* scanOnce().
ScanOnce ==
    /\ scanProc' = IF scanProc = None THEN "starting" ELSE scanProc
    /\ UNCHANGED found

\* startScanning().
StartScanning ==
    /\ scanning' = TRUE
    /\ IF scanning THEN UNCHANGED <<found, scanProc>> ELSE ScanOnce

\* stopScanning(): a scan is killed, and its finished() is handled on the way.
\* A process that never started has no finished().
StopScanning ==
    /\ scanning' = FALSE
    /\ scanProc' = None
    /\ found' = IF scanProc \in {None, "dead"} THEN found ELSE scanProc = "device"

\* A view is opened, a session ends: main.qml and DfuFlashView.qml.
WantScan == StartScanning /\ UNCHANGED <<flashing, flashOk, flashProc, swapProc>>
\* An M1 connects as a normal device.
NoMoreScan == StopScanning /\ UNCHANGED <<flashing, flashOk, flashProc, swapProc>>
\* m_scanTimer, or the Scan button.
ScanTick ==
    /\ scanning \/ ~flashing
    /\ ScanOnce
    /\ UNCHANGED <<scanning, flashing, flashOk, flashProc, swapProc>>

\* The scan looks at the USB: it prints what it finds, or does not start.
ScanLooks ==
    /\ scanProc = "starting"
    /\ scanProc' \in {"dead", "nothing"} \cup (IF dfu THEN {"device"} ELSE {})
    /\ UNCHANGED <<guiVars, flashProc, swapProc>>

\* onScanFinished().
OnScanFinished ==
    /\ scanProc \in {"nothing", "device"}
    /\ Saw(scanProc = "device")
    /\ UNCHANGED <<scanning, flashing, flashOk, flashProc, swapProc>>

----------------------------------------------------------------------------
\* Flashing

\* startFlash().  Its tests of the file's size are left out: a file of Image
\* has passed them.
StartFlash(file, target) ==
    /\ ~flashing /\ found /\ files[file] # None
    /\ StopScanning
    /\ flashing' = TRUE /\ flashOk' = FALSE
    /\ flashProc' = [at |-> "starting", file |-> file, target |-> target, to |-> None,
                     image |-> None, said |-> FALSE, code |-> None]
    /\ UNCHANGED swapProc

\* onFlashOutput().  The line may be cut by the end of a chunk: it is then
\* read in two halves, neither of which is "OK".
OnFlashOutput ==
    /\ flashProc # None /\ flashProc.said
    /\ flashOk' \in {TRUE, flashOk}
    /\ flashProc' = [flashProc EXCEPT !.said = FALSE]
    /\ UNCHANGED <<scanning, found, flashing, scanProc, swapProc>>

\* Mutant of FlashSuccess: what was printed is believed, whatever the exit code.
FlashSuccessByOutput(code) == code # "crash" /\ (flashOk \/ flashProc.said)

\* onFlashFinished(): it starts to scan again, whatever the end.
FlashSuccess(code) == code = "ok" /\ (flashOk \/ flashProc.said)
FlashFinished(code) ==
    /\ flashProc' = None /\ flashing' = FALSE
    /\ scanning' = TRUE
    /\ scanProc' = IF scanning \/ scanProc # None THEN scanProc ELSE "starting"
    /\ found' = (found /\ ~FlashSuccess(code))
    /\ UNCHANGED <<flashOk, swapProc>>
OnFlashFinished == Ended(flashProc) /\ FlashFinished(flashProc.code) /\ UNCHANGED bankVars

Release(who) == claim' = IF claim = who THEN None ELSE claim

\* cancel(): a running process is killed, and its finished() reports a crash; one
\* that has ended is heard out; one that never started is just dropped.
Cancel ==
    /\ flashProc # None
    /\ IF flashProc.at = "dead"
       THEN /\ flashProc' = None /\ flashing' = FALSE
            /\ StartScanning
            /\ UNCHANGED <<flashOk, swapProc, claim>>
       ELSE /\ FlashFinished(IF Alive(flashProc) THEN "crash" ELSE flashProc.code)
            /\ Release("flash")
    /\ UNCHANGED <<swapByte, bank, dfu>>

----------------------------------------------------------------------------
\* The bank swap

\* swapBank().
SwapBank ==
    /\ ~flashing /\ swapProc = None /\ found
    /\ StopScanning
    /\ swapProc' = [at |-> "starting", code |-> None]
    /\ UNCHANGED <<flashing, flashOk, flashProc>>

\* onSwapBankFinished().
OnSwapBankFinished ==
    /\ Ended(swapProc)
    /\ swapProc' = None
    /\ scanning' = TRUE
    /\ found' = (found /\ swapProc.code # "ok")
    /\ scanProc' = IF scanning \/ scanProc # None THEN scanProc ELSE "starting"
    /\ UNCHANGED <<flashing, flashOk, flashProc>>

----------------------------------------------------------------------------
\* The programs.  Each claims the DFU interface before it reads SWAP_BANK, and
\* holds it until it ends, or until the M1 is gone.

\* cmdFlash(), or the command line that stands for it: connect, read SWAP_BANK,
\* find the bank to write.
FlashClaims ==
    /\ flashProc # None /\ flashProc.at = "starting"
    /\ dfu /\ claim = None /\ claim' = "flash"
    /\ flashProc' = [flashProc EXCEPT !.at = "claimed",
                       !.to = IF cli THEN TargetAddress(flashProc.target, swapByte)
                              ELSE TargetBank(flashProc.target, swapByte)]
    /\ UNCHANGED <<swapByte, bank, dfu>>

\* The file is read and the bank erased.
FlashErases ==
    /\ flashProc # None /\ flashProc.at = "claimed" /\ claim = "flash"
    /\ files[flashProc.file] # None
    /\ flashProc' = [flashProc EXCEPT !.at = "writing", !.image = files[flashProc.file]]
    /\ bank' = [bank EXCEPT ![flashProc.to] = Partial]
    /\ UNCHANGED <<swapByte, dfu, claim>>

\* downloadFile() verifies before it returns.  The command line tool says "File
\* download complete", and verifies after that: what it wrote may be bad.
FlashWrites ==
    /\ flashProc # None /\ flashProc.at = "writing" /\ claim = "flash"
    /\ flashProc' = [flashProc EXCEPT !.at = "written", !.said = cli]
    /\ \E written \in {flashProc.image} \cup (IF cli THEN {Partial} ELSE {}) :
           bank' = [bank EXCEPT ![flashProc.to] = written]
    /\ UNCHANGED <<swapByte, dfu, claim>>

\* The helper sets SWAP_BANK for the bank it wrote, without looking at the
\* result, or starts the firmware; it says OK.
FlashBoots ==
    /\ flashProc # None /\ flashProc.at = "written" /\ ~cli
    /\ flashProc' = [flashProc EXCEPT !.at = "ended", !.said = TRUE, !.code = "ok"]
    /\ dfu' = (dfu /\ claim # "flash") /\ claim' = IF claim = "flash" THEN None ELSE claim
    /\ swapByte' \in {swapByte} \cup (IF claim = "flash" THEN {SwapByteFor(flashProc.to)} ELSE {})
    /\ UNCHANGED bank

\* The command line tool verifies and resets, and leaves SWAP_BANK alone.
FlashVerifies ==
    /\ flashProc # None /\ flashProc.at = "written" /\ cli /\ claim = "flash"
    /\ flashProc' = [flashProc EXCEPT !.at = "ended",
                       !.code = IF bank[flashProc.to] = Partial THEN "failed" ELSE "ok"]
    /\ dfu' = FALSE /\ claim' = None
    /\ UNCHANGED <<swapByte, bank>>

\* No device, no interface, no file, a write that fails, a cable that comes
\* out; a crash; a program that cannot be started.
FlashEnds(code) ==
    /\ Alive(flashProc)
    /\ code = "failed" => cli \/ flashProc.at # "written"
    /\ flashProc' = [flashProc EXCEPT !.at = "ended", !.code = code]
    /\ Release("flash") /\ UNCHANGED <<swapByte, bank, dfu>>
FlashFailsToStart ==
    /\ flashProc # None /\ flashProc.at = "starting"
    /\ flashProc' = [flashProc EXCEPT !.at = "dead"]
    /\ UNCHANGED bankVars

FlashTool ==
    /\ \/ FlashClaims \/ FlashErases \/ FlashWrites \/ FlashBoots \/ FlashVerifies
       \/ FlashEnds("failed") \/ FlashEnds("crash") \/ FlashFailsToStart
    /\ UNCHANGED <<guiVars, scanProc, swapProc>>

\* cmdSwapBank() toggles SWAP_BANK; the command line tool is told to set it.
SwapClaims ==
    /\ swapProc # None /\ swapProc.at = "starting"
    /\ dfu /\ claim = None /\ claim' = "swap"
    /\ swapProc' = [swapProc EXCEPT !.at = "claimed"]
    /\ UNCHANGED <<swapByte, bank, dfu>>
SwapSets ==
    /\ swapProc # None /\ swapProc.at = "claimed" /\ claim = "swap"
    /\ SetSwapByte(IF cli THEN 1 ELSE 1 - swapByte)
    /\ claim' = None
    /\ swapProc' = [at |-> "ended", code |-> "ok"]
SwapEnds(code) ==
    /\ Alive(swapProc)
    /\ swapProc' = [at |-> "ended", code |-> code]
    /\ Release("swap") /\ UNCHANGED <<swapByte, bank, dfu>>
SwapFailsToStart ==
    /\ swapProc # None /\ swapProc.at = "starting"
    /\ swapProc' = [swapProc EXCEPT !.at = "dead"]
    /\ UNCHANGED bankVars

SwapTool ==
    /\ \/ SwapClaims \/ SwapSets \/ SwapEnds("failed") \/ SwapEnds("crash") \/ SwapFailsToStart
    /\ UNCHANGED <<guiVars, scanProc, flashProc>>

----------------------------------------------------------------------------
DfuTypeOK ==
    /\ cli \in BOOLEAN
    /\ scanning \in BOOLEAN /\ found \in BOOLEAN
    /\ flashing \in BOOLEAN /\ flashOk \in BOOLEAN
    /\ scanProc \in {None, "starting", "dead", "nothing", "device"}
    /\ flashProc \in {None} \cup FlashProc
    /\ swapProc \in {None} \cup SwapProc
=============================================================================
