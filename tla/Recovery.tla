------------------------------ MODULE Recovery ------------------------------
(***************************************************************************)
(* The two ways to bring an M1 back, DFU and SWD, with the downloads that  *)
(* feed them: one user, one device, one temporary folder.  The programs    *)
(* and the network go on by themselves; while a flash or an SWD operation  *)
(* runs, a modal dialog (FlashProgressDialog.qml) leaves the user nothing  *)
(* but its cancel button.                                                  *)
(***************************************************************************)
EXTENDS DfuFlasher, SwdRecovery, Downloads

CONSTANT MaxCalls       \* bound: calls of the user, changes of the cabling

VARIABLE calls

vars == <<bankVars, files, dfuVars, swdVars, dlVars, calls>>

ASSUME CallsAssumption == MaxCalls \in Nat

Init == BanksInit /\ DfuInit /\ SwdInit /\ DlInit /\ calls = 0

Modal == flashing \/ running
Call == calls < MaxCalls /\ calls' = calls + 1

\* What the user is let do, with any file chosen before: the confirm dialog
\* flashes the file it was opened with, whatever has been selected since.  The
\* guided install starts its download when the release is found, over a flash
\* if there is one.
User ==
    /\ Call
    /\ \/ /\ ~Modal /\ active = "dfu"
          /\ \E n \in Image, t \in Target : StartFlash(n, t)
          /\ UNCHANGED <<bankVars, files, cli, swdVars, dlVars>>
       \/ /\ ~Modal /\ active = "dfu" /\ SwapBank
          /\ UNCHANGED <<bankVars, files, cli, swdVars, dlVars>>
       \/ flashing /\ Cancel /\ UNCHANGED <<files, cli, swdVars, dlVars>>
       \/ /\ ~Modal /\ active = "swd"
          /\ \/ /\ selected["swd"] # None
                /\ \/ RecoveryFlash(selected["swd"])
                   \/ \E b \in Bank : VerifyBank(b, selected["swd"])
             \/ SwdSwapBank \/ CloneBank1ToBank2 \/ ReadStatus \/ SetProbeType
          /\ UNCHANGED <<bankVars, files, dfuVars, dlVars>>
       \/ running /\ SwdCancel /\ UNCHANGED <<files, dfuVars, dlVars>>
       \/ /\ \E n \in Image :
                \/ (~Modal \/ active = "dfu") /\ DownloadAsset(n)
                \/ ~Modal /\ Browse(n)
          /\ UNCHANGED <<bankVars, dfuVars, swdVars>>
       \/ ~Modal /\ Navigate /\ UNCHANGED <<bankVars, dfuVars, swdVars>>

\* The device is put into DFU mode or taken away; an M1 connects or goes.  The
\* keys of DFU mode are held for five seconds: no slot waits that long.
World ==
    /\ Call
    /\ UNCHANGED <<files, swdVars, dlVars>>
    /\ \/ /\ ~Ended(flashProc) /\ ~Ended(swapProc) /\ ~SwdEnded
          /\ EnterDfu /\ UNCHANGED dfuVars
       \/ LeaveDfu /\ UNCHANGED dfuVars
       \/ (WantScan \/ NoMoreScan) /\ UNCHANGED <<bankVars, cli>>

\* The tools, and the slots that hear of them.
DfuRuns ==
    /\ \/ ScanLooks /\ UNCHANGED bankVars
       \/ FlashTool \/ SwapTool
       \/ (OnScanFinished \/ OnFlashOutput \/ OnSwapBankFinished) /\ UNCHANGED bankVars
       \/ OnFlashFinished
    /\ UNCHANGED <<files, cli, swdVars, dlVars, calls>>
ScanTimer == ScanTick /\ UNCHANGED <<bankVars, files, cli, swdVars, dlVars, calls>>
SwdRuns ==
    /\ SwdTool \/ OnProcessFinished \/ SwdFailsToStart
    /\ UNCHANGED <<files, dfuVars, dlVars, calls>>
NetworkRuns == Network /\ UNCHANGED <<bankVars, dfuVars, swdVars, calls>>

Next == User \/ World \/ DfuRuns \/ ScanTimer \/ SwdRuns \/ NetworkRuns

Spec == Init /\ [][Next]_vars

TypeOK == /\ BanksTypeOK /\ DfuTypeOK /\ SwdTypeOK /\ DlTypeOK
          /\ calls \in 0..MaxCalls

\* What boots is whole, and a flash to the inactive bank keeps it so, whatever
\* is killed, pulled out, swapped or downloaded meanwhile.  It takes a flash of
\* a bank by name, a swap, or an SWD script to leave the M1 without a firmware.
Boots == bank[BootBank(swapByte)] # Partial
BootBankWhole ==
    [][Boots /\ ~Boots' =>
         \/ flashProc # None /\ flashProc.target # "inactive" /\ claim = "flash"
         \/ claim = "swap"
         \/ swdProc # None]_vars

\* "Flash complete" is said of a bank that holds the image of the file that was
\* chosen: the exit code, the line "OK" and the file all belong to this flash.
FlashedAsAsked ==
    [][flashProc # None /\ flashProc' = None /\ FlashSuccess(flashProc.code) =>
         bank[flashProc.to] = flashProc.file \/ overlapped]_vars

\* The same of SWD, by the exit code alone: after a recovery the M1 boots the
\* image, after a clone the banks are equal, a verified bank is the file's.
Achieved ==
    CASE swdProc.op = "Recovery" -> bank[BootBank(swapByte)] = swdProc.file \/ overlapped
      [] swdProc.op = "Verify1" -> bank[1] = swdProc.file \/ overlapped
      [] swdProc.op = "Verify2" -> bank[2] = swdProc.file \/ overlapped
      [] swdProc.op = "Clone" -> bank[1] = bank[2]
      [] OTHER -> TRUE
SwdCompleteIsEarned ==
    [][swdProc # None /\ swdProc' = None /\ SwdSuccess => Achieved]_vars

\* A file holds the image it is named after, as long as one download ends before
\* the next begins.
OnlyOverlapMixesUp == overlapped \/ \A n \in Image : files[n] \in {n, None}

\* The modal dialog is up exactly while there is a process whose end, or the
\* cancel button, takes it down again; an SWD program that could not be started
\* does not hold it up.
DialogHasProcess ==
    /\ flashing <=> flashProc # None
    /\ running <=> swdProc # None /\ swdProc.code # "dead"

\* A view that shows a download under way has a reply to come, unless its own
\* failed, or came while the other view was on the screen.
NoDeafDownload ==
    \A v \in View : downloading[v] => v \in missed \/ \E i \in DOMAIN replies : replies[i].view = v
=============================================================================
