----------------------------- MODULE FlashBanks -----------------------------
(***************************************************************************)
(* What the recovery tools work on.  The M1: two physical flash banks, the *)
(* option byte SWAP_BANK that says which of them is mapped at 0x08000000   *)
(* and boots, the DFU interface of its ROM, which one program claims at a  *)
(* time, and the debug port, which halts everything else; what the code in *)
(* src/ assumes of it, no more.  And the firmware files in the temporary   *)
(* folder of the computer.                                                 *)
(***************************************************************************)
EXTENDS Integers

CONSTANTS
    Image,      \* firmware images; a download's file is named after its image
    Factory,    \* the firmware in both banks at first
    Partial,    \* what an erase or an interrupted write leaves in a bank
    None

ASSUME BanksAssumption ==
    /\ Partial \notin Image \cup {Factory, None}
    /\ None \notin Image \cup {Factory, "flash", "swap", "swd"}

VARIABLES
    swapByte,   \* SWAP_BANK
    bank,       \* what each physical bank holds
    dfu,        \* the ROM's DFU interface is on the USB
    claim,      \* the program that has the device: over USB, or over SWD
    files       \* the image in the file of each name, or None

bankVars == <<swapByte, bank, dfu, claim>>

Bank == {1, 2}
Content == Image \cup {Factory, Partial}

\* The bank at the boot address 0x08000000, and the one at 0x08100000.
BootBank(swap) == IF swap = 0 THEN 1 ELSE 2
Other(b) == 3 - b

\* Mutant of TargetBank: bank 2 is taken for the inactive one.
TargetBankTwo(target, swap) == IF target = "bank1" THEN 1 ELSE 2

\* The bank cmdFlash() writes: "inactive", or a physical one.
TargetBank(target, swap) ==
    CASE target = "bank1" -> 1 [] target = "bank2" -> 2
      [] OTHER -> Other(BootBank(swap))

\* STM32_Programmer_CLI is given a logical address.
TargetAddress(target, swap) ==
    IF target = "bank1" THEN BootBank(swap) ELSE Other(BootBank(swap))

\* Mutant of SwapByteFor: the number of the bank.
SwapByteForZero(b) == IF b = 1 THEN 0 ELSE 2

\* SWAP_BANK for a bank to boot.
SwapByteFor(b) == IF b = 1 THEN 0 ELSE 1

\* SWAP_BANK is written: the M1 resets, out of the ROM.
SetSwapByte(value) == swapByte' = value /\ dfu' = FALSE /\ UNCHANGED bank

BanksInit ==
    /\ swapByte \in {0, 1}
    /\ bank = [b \in Bank |-> Factory]
    /\ dfu = TRUE /\ claim = None
    /\ files = [n \in Image |-> n]

\* Somebody holds the keys that start the ROM; or the cable comes out, or the
\* M1 is switched off.
EnterDfu == ~dfu /\ dfu' = TRUE /\ claim' = None /\ UNCHANGED <<swapByte, bank>>
LeaveDfu == dfu /\ dfu' = FALSE /\ claim' = None /\ UNCHANGED <<swapByte, bank>>

BanksTypeOK ==
    /\ swapByte \in {0, 1} /\ bank \in [Bank -> Content]
    /\ dfu \in BOOLEAN /\ claim \in {None, "flash", "swap", "swd"}
    /\ files \in [Image -> Image \cup {None}]
=============================================================================
