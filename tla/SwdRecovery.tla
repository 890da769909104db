---------------------------- MODULE SwdRecovery ----------------------------
(***************************************************************************)
(* SwdRecovery (src/backend/updater/swd_recovery.cpp): one operation at a  *)
(* time, each a script that OpenOCD (Pico probe) or STM32_Programmer_CLI   *)
(* (ST-Link) runs in a process of its own.  A script stops at its first    *)
(* error; the operation is reported by the exit code alone.                *)
(***************************************************************************)
EXTENDS FlashBanks, Sequences

VARIABLES
    probe,      \* m_probeType
    running,    \* m_running
    swdProc     \* m_process, with m_currentOp

swdVars == <<probe, running, swdProc>>

Op == {"Recovery", "Swap", "Verify1", "Verify2", "Clone", "Status"}

\* The steps of each script, after the probe has been attached.
Script(op, st) ==
    CASE op = "Recovery" -> IF st THEN <<"erase_all", "program">>
                            ELSE <<"clear_swap", "erase", "program">>
      [] op = "Swap" -> <<"toggle">>
      [] op \in {"Verify1", "Verify2"} -> <<"verify">>
      [] op = "Clone" -> <<"dump", "program_2">>
      [] OTHER -> <<>>

\* A process: its script, how many steps are done (-1 before it attaches), the
\* file it was given, what it has dumped, a program step begun, how it ended.
SwdProc == [op : Op, st : BOOLEAN, done : -1..3, file : Image \cup {None},
            dump : Content \cup {None}, busy : BOOLEAN,
            code : {None, "ok", "failed", "crash", "dead"}]

ASSUME SwdAssumption == None \notin SwdProc \cup {"ok", "failed", "crash", "dead"}

SwdAlive == swdProc # None /\ swdProc.code = None
SwdEnded == swdProc # None /\ swdProc.code \in {"ok", "failed", "crash"}

\* The address of a physical bank under SWAP_BANK, and the bank behind it.
AddressOf(b, swap) == IF BootBank(swap) = b THEN "0x08000000" ELSE "0x08100000"
BankAt(address, swap) ==
    IF address = "0x08000000" THEN BootBank(swap) ELSE Other(BootBank(swap))

SwdInit ==
    /\ probe = "Pico" /\ running = FALSE /\ swdProc = None

\* setProbeType(): the combo box is disabled while an operation runs.
SetProbeType ==
    /\ ~running
    /\ probe' = IF probe = "Pico" THEN "STLink" ELSE "Pico"
    /\ UNCHANGED <<running, swdProc>>

\* runOpenOcd(), runCubeProgrammer() past their validation: m_process is
\* overwritten, whatever it was.
Run(op, st, file) ==
    /\ running' = TRUE
    /\ swdProc' = [op |-> op, st |-> st, done |-> -1, file |-> file, dump |-> None,
                   busy |-> FALSE, code |-> None]
    /\ UNCHANGED probe

RecoveryFlash(file) ==
    /\ ~running /\ files[file] # None
    /\ Run("Recovery", probe = "STLink", file)
SwdSwapBank == ~running /\ probe = "Pico" /\ Run("Swap", FALSE, None)
VerifyBank(b, file) ==
    /\ ~running /\ files[file] # None
    /\ Run(IF b = 1 THEN "Verify1" ELSE "Verify2", FALSE, file)
CloneBank1ToBank2 == ~running /\ Run("Clone", FALSE, None)
ReadStatus == ~running /\ Run("Status", probe = "STLink", None)

\* The program is gone, and the debug port free.
Detach == claim' = (IF claim = "swd" THEN None ELSE claim) /\ UNCHANGED <<swapByte, bank, dfu>>

\* Mutant of SwdFailsToStart: errorOccurred() has no handler.
SwdFailsToStartUnheard ==
    /\ SwdAlive /\ swdProc.done = -1
    /\ swdProc' = [swdProc EXCEPT !.code = "dead"]
    /\ UNCHANGED <<probe, running, bankVars>>

\* errorOccurred(FailedToStart): m_process stays.
SwdFailsToStart ==
    /\ SwdAlive /\ swdProc.done = -1
    /\ swdProc' = [swdProc EXCEPT !.code = "dead"]
    /\ running' = FALSE
    /\ UNCHANGED <<probe, bankVars>>

\* onProcessFinished(): complete by the exit code.  After a crash errorOccurred
\* has cleared m_running already.
SwdSuccess == swdProc.code = "ok"
SwdFinished == swdProc' = None /\ running' = FALSE /\ UNCHANGED probe
OnProcessFinished == SwdEnded /\ SwdFinished /\ UNCHANGED bankVars

\* cancel().  The process is killed in the middle of what it does.
SwdCancel ==
    /\ swdProc # None
    /\ IF swdProc.code = "dead" THEN swdProc' = None /\ UNCHANGED <<probe, running>>
       ELSE SwdFinished
    /\ Detach

----------------------------------------------------------------------------
\* The scripts

Step(name) ==
    /\ SwdAlive /\ claim = "swd" /\ swdProc.done \in 0..(Len(Script(swdProc.op, swdProc.st)) - 1)
    /\ Script(swdProc.op, swdProc.st)[swdProc.done + 1] = name
Did == swdProc' = [swdProc EXCEPT !.done = @ + 1, !.busy = FALSE]

\* init; halt: whatever the processor was doing stops, its DFU included.  The
\* scripts lose the device when it is started again under their hands.
Attach ==
    /\ SwdAlive /\ swdProc.done = -1
    /\ Did /\ dfu' = FALSE /\ claim' = "swd" /\ UNCHANGED <<swapByte, bank>>

ClearSwap == Step("clear_swap") /\ Did /\ SetSwapByte(0) /\ UNCHANGED claim
Toggle == Step("toggle") /\ Did /\ SetSwapByte(1 - swapByte) /\ UNCHANGED claim

\* stm32h5x mass_erase 0, after SWAP_BANK was cleared; -e all.
Erase ==
    /\ Step("erase") /\ Did
    /\ bank' = [bank EXCEPT ![BootBank(swapByte)] = Partial]
    /\ UNCHANGED <<swapByte, dfu, claim>>
EraseAll ==
    /\ Step("erase_all") /\ Did
    /\ bank' = [b \in Bank |-> Partial]
    /\ UNCHANGED <<swapByte, dfu, claim>>

\* program {...} address verify: the bank is erased, written, and compared.
Program(b, content) ==
    /\ content # None
    /\ IF swdProc.busy
       THEN bank' = [bank EXCEPT ![b] = content] /\ Did
       ELSE /\ bank' = [bank EXCEPT ![b] = Partial]
            /\ swdProc' = [swdProc EXCEPT !.busy = TRUE]
    /\ UNCHANGED <<swapByte, dfu, claim>>

\* Mutant of ProgramFile: physical bank 1, whatever boots.
ProgramFileBank1 == Step("program") /\ Program(1, files[swdProc.file])

ProgramFile ==
    Step("program") /\ Program(BankAt("0x08000000", swapByte), files[swdProc.file])
ProgramDump ==
    Step("program_2") /\ Program(BankAt(AddressOf(2, swapByte), swapByte), swdProc.dump)

\* dump_image of bank 1, erased parts and all.
DumpBank1 ==
    /\ Step("dump")
    /\ swdProc' = [swdProc EXCEPT !.done = @ + 1,
                                  !.dump = bank[BankAt(AddressOf(1, swapByte), swapByte)]]
    /\ UNCHANGED bankVars

\* verify_image of a bank against the file.
VerifyImage ==
    /\ Step("verify")
    /\ bank[BankAt(AddressOf(IF swdProc.op = "Verify1" THEN 1 ELSE 2, swapByte), swapByte)]
         = files[swdProc.file]
    /\ Did /\ UNCHANGED bankVars

\* The script is through; or a step fails, or the program crashes.
ScriptDone ==
    /\ SwdAlive /\ claim = "swd" /\ swdProc.done = Len(Script(swdProc.op, swdProc.st))
    /\ swdProc' = [swdProc EXCEPT !.code = "ok"]
    /\ Detach
ScriptFails(code) ==
    /\ SwdAlive
    /\ swdProc' = [swdProc EXCEPT !.code = code]
    /\ Detach

SwdTool ==
    /\ \/ Attach \/ ClearSwap \/ Toggle \/ Erase \/ EraseAll \/ ProgramFile \/ ProgramDump
       \/ DumpBank1 \/ VerifyImage \/ ScriptDone \/ ScriptFails("failed") \/ ScriptFails("crash")
    /\ UNCHANGED <<probe, running>>

----------------------------------------------------------------------------
SwdTypeOK ==
    /\ probe \in {"Pico", "STLink"} /\ running \in BOOLEAN
    /\ swdProc \in {None} \cup SwdProc
=============================================================================
