-------------------------- MODULE Recovery_proofs --------------------------
(***************************************************************************)
(* Proofs about Recovery, for any number of images and of user calls.      *)
(*                                                                         *)
(* RInv is inductive.  Its parts: the downloads (DlInv) by themselves; the *)
(* rest (Core) given the downloads.  The argument of Core is who may touch *)
(* the banks.  The ROM's DFU interface is claimed by one program, and only *)
(* while it is on the USB (Claims); an SWD script runs with the M1 halted, *)
(* out of DFU mode; a flash and an SWD operation never live together, for  *)
(* the dialog of one keeps the user from starting the other (OneDialog).   *)
(* So what FlashState says of the bank a flash writes, and SwdState of the *)
(* banks a script has been through, is disturbed by no other actor.        *)
(***************************************************************************)
EXTENDS Recovery, SequenceTheorems, TLAPS

----------------------------------------------------------------------------
\* The steps of Next, by what they leave alone.

Downloading ==
    /\ Navigate \/ Network \/ \E n \in Image : DownloadAsset(n) \/ Browse(n)
    /\ UNCHANGED <<bankVars, dfuVars, swdVars>>

SwdCalled ==
    /\ ~flashing /\ ~running
    /\ \/ SetProbeType \/ SwdSwapBank \/ CloneBank1ToBank2 \/ ReadStatus
       \/ \E n \in Image : RecoveryFlash(n) \/ \E b \in Bank : VerifyBank(b, n)
    /\ UNCHANGED <<bankVars, files, dfuVars, dlVars>>

SwdHeard ==
    /\ SwdCancel \/ OnProcessFinished \/ SwdFailsToStart
    /\ UNCHANGED <<files, dfuVars, dlVars>>

SwdWorks == SwdTool /\ UNCHANGED <<files, dfuVars, dlVars>>

DfuCalled ==
    /\ ~flashing /\ ~running
    /\ SwapBank \/ \E n \in Image, t \in Target : StartFlash(n, t)
    /\ UNCHANGED <<bankVars, files, cli, swdVars, dlVars>>

DfuHeard ==
    /\ Cancel \/ OnFlashFinished
    /\ UNCHANGED <<files, cli, swdVars, dlVars>>

DfuListens ==
    /\ \/ WantScan \/ NoMoreScan \/ ScanTick \/ ScanLooks \/ OnScanFinished
       \/ OnFlashOutput \/ OnSwapBankFinished
    /\ UNCHANGED <<bankVars, files, cli, swdVars, dlVars>>

FlashWorks == FlashTool /\ UNCHANGED <<files, cli, swdVars, dlVars>>
SwapWorks == SwapTool /\ UNCHANGED <<files, cli, swdVars, dlVars>>

Cabled ==
    /\ \/ ~Ended(flashProc) /\ ~Ended(swapProc) /\ ~SwdEnded /\ EnterDfu
       \/ LeaveDfu
    /\ UNCHANGED <<files, dfuVars, swdVars, dlVars>>

Stutters == UNCHANGED <<bankVars, files, dfuVars, swdVars, dlVars, calls>>

\* calls grows under its bound.
Counts == \/ UNCHANGED calls
          \/ calls < MaxCalls /\ calls' = calls + 1

\* Every step is one of these; a selected file is a file of Image.
LEMMA StepCases ==
    DlTypeOK /\ [Next]_vars =>
        /\ Counts
        /\ \/ Downloading
           \/ SwdCalled \/ SwdHeard \/ SwdWorks
           \/ DfuCalled \/ DfuHeard \/ DfuListens \/ FlashWorks \/ SwapWorks
           \/ Cabled
           \/ Stutters
<1> SUFFICES ASSUME DlTypeOK, [Next]_vars
             PROVE  /\ Counts
                    /\ \/ Downloading
                       \/ SwdCalled \/ SwdHeard \/ SwdWorks
                       \/ DfuCalled \/ DfuHeard \/ DfuListens \/ FlashWorks \/ SwapWorks
                       \/ Cabled
                       \/ Stutters
    OBVIOUS
<1> USE DEF Modal, Call, Counts
<1>1. selected["swd"] \in Image \cup {None}
    BY DEF DlTypeOK, View
<1>2. CASE User
    BY <1>1, <1>2 DEF User, Downloading, SwdCalled, SwdHeard, DfuCalled, DfuHeard
<1>3. CASE World
    BY <1>3 DEF World, Cabled, DfuListens
<1>4. CASE DfuRuns \/ ScanTimer
    BY <1>4 DEF DfuRuns, ScanTimer, DfuListens, DfuHeard, FlashWorks, SwapWorks
<1>5. CASE SwdRuns \/ NetworkRuns
    BY <1>5 DEF SwdRuns, NetworkRuns, SwdHeard, SwdWorks, Downloading
<1>6. CASE UNCHANGED vars
    BY <1>6 DEF vars, Stutters
<1> QED
    BY <1>2, <1>3, <1>4, <1>5, <1>6 DEF Next

----------------------------------------------------------------------------
\* RemoveAt, of SequencesExt: what is left of the sequence, and where.
LEMMA RemoveAtProperties ==
    ASSUME NEW S, NEW s \in Seq(S), NEW i \in 1..Len(s)
    PROVE  /\ RemoveAt(s, i) \in Seq(S)
           /\ Len(RemoveAt(s, i)) = Len(s) - 1
           /\ \A j \in 1..(Len(s) - 1) :
                  RemoveAt(s, i)[j] = IF j < i THEN s[j] ELSE s[j + 1]
<1> DEFINE front == SubSeq(s, 1, i - 1)
           back == SubSeq(s, i + 1, Len(s))
<1>1. /\ front \in Seq(S) /\ Len(front) = i - 1
      /\ \A j \in 1..(i - 1) : front[j] = s[j]
    BY SubSeqProperties, ElementOfSeq, LenProperties
<1>2. /\ back \in Seq(S) /\ Len(back) = Len(s) - i
      /\ \A j \in 1..(Len(s) - i) : back[j] = s[i + j]
    BY SubSeqProperties, ElementOfSeq, LenProperties
<1>3. RemoveAt(s, i) = front \o back
    BY DEF RemoveAt
<1> HIDE DEF front, back
<1>4. Len(s) \in Nat
    BY LenProperties
<1>5. /\ front \o back \in Seq(S) /\ Len(front \o back) = Len(front) + Len(back)
      /\ \A j \in 1..(Len(front) + Len(back)) :
             (front \o back)[j] = IF j <= Len(front) THEN front[j] ELSE back[j - Len(front)]
    BY <1>1, <1>2, ConcatProperties
<1>6. Len(front) + Len(back) = Len(s) - 1
    BY <1>1, <1>2, <1>4
<1>7. ASSUME NEW j \in 1..(Len(s) - 1)
      PROVE  RemoveAt(s, i)[j] = IF j < i THEN s[j] ELSE s[j + 1]
  <2>1. RemoveAt(s, i)[j] = IF j <= i - 1 THEN front[j] ELSE back[j - (i - 1)]
    BY <1>1, <1>3, <1>5, <1>6
  <2>2. CASE j < i
    BY <1>1, <1>4, <2>1, <2>2
  <2>3. CASE j >= i
    <3>1. j - (i - 1) \in 1..(Len(s) - i) /\ i + (j - (i - 1)) = j + 1 /\ ~(j <= i - 1)
        BY <1>4, <2>3
    <3> QED
        BY <1>2, <2>1, <2>3, <3>1
  <2> QED
    BY <2>2, <2>3, <1>4
<1> QED
    BY <1>3, <1>5, <1>6, <1>7

----------------------------------------------------------------------------
\* The downloads: without overlapping there is one reply at most, and it brings
\* what the destination is named after.
DlState ==
    /\ replies # <<>> => dest \in Image
    /\ ~overlapped => Len(replies) <= 1 /\ \A i \in DOMAIN replies : replies[i].image = dest

FilesOK == files \in [Image -> Image \cup {None}]

DlInv == DlTypeOK /\ FilesOK /\ DlState /\ OnlyOverlapMixesUp /\ NoDeafDownload

\* A download asked for adds its reply, and names the destination.
LEMMA DownloadAssetStep ==
    ASSUME DlInv, NEW n \in Image, DownloadAsset(n)
    PROVE  DlInv'
<1> USE DEF DlInv, DownloadAsset, SetDest, Reply, View
<1>1. [image |-> n, view |-> active] \in Reply
    BY DEF DlTypeOK
<1>2. /\ replies' \in Seq(Reply) /\ Len(replies') = Len(replies) + 1
      /\ \A i \in 1..Len(replies) : replies'[i] = replies[i]
      /\ replies'[Len(replies) + 1] = [image |-> n, view |-> active]
    BY <1>1, AppendProperties DEF DlTypeOK
<1>3. DlTypeOK'
    BY <1>2 DEF DlTypeOK
<1>4. FilesOK' /\ OnlyOverlapMixesUp'
    BY DEF FilesOK, OnlyOverlapMixesUp, DlTypeOK
<1>5. DOMAIN replies = 1..Len(replies) /\ DOMAIN replies' = 1..Len(replies') /\ Len(replies) \in Nat
    BY <1>2, LenProperties DEF DlTypeOK
<1>6. DlState'
  <2>1. dest' = n /\ (~overlapped' => replies = <<>>)
    BY DEF DlTypeOK
  <2>2. CASE replies = <<>>
    <3>1. Len(replies') = 1 /\ replies'[1].image = n
        BY <1>2, <2>2
    <3> QED
        BY <1>5, <2>1, <3>1 DEF DlState
  <2> QED
    BY <2>1, <2>2 DEF DlState
<1>7. NoDeafDownload'
  <2> SUFFICES ASSUME NEW v \in View, downloading'[v], v \notin missed
               PROVE  \E i \in DOMAIN replies' : replies'[i].view = v
    BY DEF NoDeafDownload
  <2>1. CASE v = active
    <3>1. Len(replies) + 1 \in DOMAIN replies' /\ replies'[Len(replies) + 1].view = v
        BY <1>2, <1>5, <2>1
    <3> QED
        BY <3>1
  <2>2. CASE v # active
    <3>1. downloading[v] /\ v \notin missed
        BY <2>2 DEF DlTypeOK
    <3>2. PICK i \in 1..Len(replies) : replies[i].view = v
        BY <1>5, <3>1 DEF NoDeafDownload
    <3>3. i \in DOMAIN replies' /\ replies'[i].view = v
        BY <1>2, <1>5, <3>2
    <3> QED
        BY <3>3
  <2> QED
    BY <2>1, <2>2
<1> QED
    BY <1>3, <1>4, <1>6, <1>7

\* A reply leaves the others in their order.
LEMMA ReplyStep ==
    ASSUME DlInv, NEW i \in DOMAIN replies, DownloadArrives(i) \/ DownloadFails(i)
    PROVE  DlInv'
<1> USE DEF DlInv
<1>0. /\ i \in 1..Len(replies) /\ Len(replies) \in Nat
      /\ replies[i] \in Reply
    BY LenProperties, ElementOfSeq DEF DlTypeOK
<1> USE DEF Reply, View
<1>1. /\ i \in 1..Len(replies) /\ Len(replies) \in Nat /\ replies # <<>>
      /\ replies[i] \in Reply /\ replies[i].view \in View /\ replies[i].image \in Image
    BY <1>0
<1>2. /\ replies' \in Seq(Reply) /\ Len(replies') = Len(replies) - 1
      /\ \A j \in 1..(Len(replies) - 1) :
             replies'[j] = IF j < i THEN replies[j] ELSE replies[j + 1]
    BY <1>1, RemoveAtProperties DEF DlTypeOK, DownloadArrives, DownloadFails
<1>3. dest \in Image /\ dest' = dest /\ overlapped' = overlapped /\ active' = active
    BY <1>1 DEF DlState, DownloadArrives, DownloadFails
<1>4. FilesOK' /\ OnlyOverlapMixesUp'
  <2>1. CASE DownloadArrives(i)
    BY <1>1, <1>3, <2>1 DEF DownloadArrives, FilesOK, OnlyOverlapMixesUp, CleanUp, DlState, DlTypeOK
  <2>2. CASE DownloadFails(i)
    BY <1>1, <1>3, <2>2 DEF DownloadFails, FilesOK, OnlyOverlapMixesUp, CleanUp
  <2> QED
    BY <2>1, <2>2
<1>5. DlTypeOK'
  <2>1. missed' \subseteq View
    BY <1>1 DEF DlTypeOK, DownloadArrives, DownloadFails
  <2>2. downloading' \in [View -> BOOLEAN] /\ selected' \in [View -> Image \cup {None}]
    <3>1. CASE Heard
        BY <1>3, <3>1 DEF DlTypeOK, Heard
    <3>2. CASE UNCHANGED <<downloading, selected>>
        BY <3>2 DEF DlTypeOK
    <3> QED
        BY <3>1, <3>2 DEF DownloadArrives, DownloadFails
  <2> QED
    BY <1>2, <1>3, <2>1, <2>2 DEF DlTypeOK
<1>6. DlState'
    BY <1>1, <1>2, <1>3, LenProperties DEF DlState, DlTypeOK
<1>7. NoDeafDownload'
  <2> SUFFICES ASSUME NEW v \in View, downloading'[v], v \notin missed'
               PROVE  \E j \in DOMAIN replies' : replies'[j].view = v
    BY DEF NoDeafDownload
  <2>1. downloading[v] /\ v \notin missed /\ v # replies[i].view
    BY <1>1 DEF DlTypeOK, DownloadArrives, DownloadFails, Heard
  <2>2. PICK k \in 1..Len(replies) : replies[k].view = v
    BY <2>1, LenProperties DEF NoDeafDownload, DlTypeOK
  <2>3. k # i
    BY <2>1, <2>2
  <2>4. CASE k < i
    BY <1>1, <1>2, <2>2, <2>4, LenProperties
  <2>5. CASE k > i
    <3>1. k - 1 \in 1..Len(replies') /\ replies'[k - 1] = replies[k]
        BY <1>1, <1>2, <2>5
    <3> QED
        BY <1>2, <2>2, <3>1, LenProperties
  <2> QED
    BY <2>3, <2>4, <2>5, <1>1
<1> QED
    BY <1>4, <1>5, <1>6, <1>7

\* Nothing but the views and the network changes the downloads.
LEMMA DlStep ==
    ASSUME DlInv, [Next]_vars
    PROVE  DlInv'
<1>1. CASE UNCHANGED <<dlVars, files>>
    BY <1>1 DEF DlInv, DlTypeOK, FilesOK, DlState, OnlyOverlapMixesUp, NoDeafDownload, dlVars
<1>2. ASSUME NEW n \in Image, DownloadAsset(n)
      PROVE DlInv'
    BY <1>2, DownloadAssetStep
<1>3. CASE Network
    BY <1>3, ReplyStep DEF Network
<1>4. ASSUME Navigate \/ \E n \in Image : Browse(n)
      PROVE DlInv'
  <2>1. DlTypeOK'
    BY <1>4 DEF DlInv, DlTypeOK, Navigate, Browse, View
  <2>2. UNCHANGED <<dest, replies, downloading, overlapped, missed, files>>
    BY <1>4 DEF Navigate, Browse
  <2> QED
    BY <2>1, <2>2 DEF DlInv, FilesOK, DlState, OnlyOverlapMixesUp, NoDeafDownload
<1>5. \/ Downloading \/ UNCHANGED <<dlVars, files>>
    BY StepCases DEF DlInv, SwdCalled, SwdHeard, SwdWorks, DfuCalled, DfuHeard,
          DfuListens, FlashWorks, SwapWorks, Cabled, Stutters
<1> QED
    BY <1>1, <1>2, <1>3, <1>4, <1>5 DEF Downloading

----------------------------------------------------------------------------
\* p: the flash process.  It has read the image its file is named after.
Reads(p) == p.image # None /\ (p.image = p.file \/ overlapped)

\* Who has the device is a process that lives, and its mode fits.
Claims ==
    /\ claim = "flash" =>
         dfu /\ flashProc # None /\ flashProc.at \in {"claimed", "writing", "written"}
    /\ claim = "swap" => dfu /\ swapProc # None /\ swapProc.at = "claimed"
    /\ claim = "swd" => ~dfu /\ SwdAlive /\ swdProc.done >= 0

\* There is one modal dialog.
OneDialog == ~(flashing /\ running)

\* What the flash process knows: the bank it claimed is the one it was told to
\* write; what is written is what it has read, or what the command line tool has
\* not verified yet; an exit code 0 stands for a bank that holds the image.
FlashState ==
    flashProc # None =>
      /\ flashProc.at \in {"claimed", "writing", "written"} =>
           /\ flashProc.to \in Bank
           /\ claim = "flash" /\ flashProc.target = "inactive" =>
                flashProc.to = Other(BootBank(swapByte))
      /\ flashProc.at \in {"writing", "written"} => Reads(flashProc)
      /\ flashProc.at = "written" =>
           \/ bank[flashProc.to] = flashProc.image
           \/ cli /\ bank[flashProc.to] = Partial
      /\ flashProc.at # "ended" => flashProc.code = None
      /\ flashProc.code = "ok" =>
           /\ flashProc.to \in Bank /\ Reads(flashProc)
           /\ bank[flashProc.to] = flashProc.image

\* p: the SWD process.  What its script has achieved so far, and keeps until the
\* exit code is read.
Finished(p) == p.done = Len(Script(p.op, p.st))
Progress(p) ==
      /\ p.op = "Recovery" /\ Finished(p) =>
           bank[BootBank(swapByte)] = p.file \/ overlapped
      /\ p.op = "Verify1" /\ p.done = 1 => bank[1] = p.file \/ overlapped
      /\ p.op = "Verify2" /\ p.done = 1 => bank[2] = p.file \/ overlapped
      /\ p.op = "Clone" /\ p.done >= 1 => p.dump = bank[1]
      /\ p.op = "Clone" /\ p.done = 2 => bank[1] = bank[2]
SwdState ==
    swdProc # None =>
      /\ swdProc.op \in {"Recovery", "Verify1", "Verify2"} => swdProc.file \in Image
      /\ claim = "swd" => Progress(swdProc)
      /\ swdProc.code = "ok" => ~dfu /\ Progress(swdProc) /\ Finished(swdProc)

\* All but the downloads.
Core ==
    /\ BanksTypeOK /\ DfuTypeOK /\ SwdTypeOK
    /\ DialogHasProcess /\ OneDialog /\ Claims /\ FlashState /\ SwdState

\* The fields of the processes.
LEMMA ProcFields ==
    /\ \A p \in FlashProc :
         /\ p # None
         /\ p.at \in FlashStage /\ p.file \in Image /\ p.target \in Target
         /\ p.to \in Bank \cup {None} /\ p.image \in Image \cup {None}
         /\ p.said \in BOOLEAN /\ p.code \in ExitCode
    /\ \A p \in SwapProc :
         p # None /\ p.at \in {"starting", "dead", "claimed", "ended"} /\ p.code \in ExitCode
    /\ \A p \in SwdProc :
         /\ p # None
         /\ p.op \in Op /\ p.st \in BOOLEAN /\ p.done \in -1..3 /\ p.file \in Image \cup {None}
         /\ p.dump \in Content \cup {None} /\ p.busy \in BOOLEAN
         /\ p.code \in {None, "ok", "failed", "crash", "dead"}
<1>1. \A p \in FlashProc \cup SwapProc \cup SwdProc : p # None
    BY ProcessAssumption, SwdAssumption
<1> QED
    BY <1>1 DEF FlashProc, SwapProc, SwdProc

\* A flash and an SWD operation exclude each other: the dialog is modal.
LEMMA Exclusion ==
    ASSUME Core
    PROVE  /\ SwdAlive \/ SwdEnded => flashProc = None /\ claim # "flash"
           /\ flashProc # None => claim # "swd" /\ (swdProc # None => swdProc.code = "dead")
<1>1. None # "dead" /\ None # "ok"
    BY ProcessAssumption
<1>2. swdProc # None => swdProc.code \in {None, "ok", "failed", "crash", "dead"}
    BY ProcFields DEF Core, SwdTypeOK
<1> QED
    BY <1>1, <1>2 DEF Core, DialogHasProcess, OneDialog, Claims, SwdAlive, SwdEnded

\* Only the temporary folder changes, and overlapped grows.
LEMMA DownloadingStep ==
    ASSUME Core, DlInv, DlInv', Downloading
    PROVE  Core'
<1>1. overlapped => overlapped'
    BY DEF Downloading, Navigate, Network, DownloadAsset, Browse, DownloadArrives, DownloadFails
<1>2. /\ UNCHANGED <<swapByte, bank, dfu, claim>>
      /\ UNCHANGED <<cli, scanning, found, flashing, flashOk, scanProc, flashProc, swapProc>>
      /\ UNCHANGED <<probe, running, swdProc>>
    BY DEF Downloading, bankVars, dfuVars, guiVars, procVars, swdVars
<1>3. BanksTypeOK'
    BY <1>2 DEF Core, BanksTypeOK, DlInv, FilesOK
<1>4. DfuTypeOK' /\ SwdTypeOK' /\ DialogHasProcess' /\ OneDialog' /\ Claims'
    BY <1>2 DEF Core, DfuTypeOK, SwdTypeOK, DialogHasProcess, OneDialog, Claims, SwdAlive
<1>5. FlashState'
    BY <1>1, <1>2 DEF Core, FlashState, Reads
<1>6. SwdState'
    BY <1>1, <1>2 DEF Core, SwdState, Progress, Finished
<1> QED
    BY <1>3, <1>4, <1>5, <1>6 DEF Core

\* The claim is lost; DFU mode waits for an SWD end to be heard.
LEMMA CabledStep ==
    ASSUME Core, Cabled
    PROVE  Core'
<1>0. None \notin {"flash", "swap", "swd", "ok"}
    BY BanksAssumption, ProcessAssumption
<1>1. /\ UNCHANGED <<swapByte, bank, files, overlapped>> /\ claim' = None
      /\ dfu' \in BOOLEAN /\ (dfu' => ~SwdEnded)
      /\ UNCHANGED <<cli, scanning, found, flashing, flashOk, scanProc, flashProc, swapProc>>
      /\ UNCHANGED <<probe, running, swdProc>>
    BY DEF Cabled, EnterDfu, LeaveDfu, bankVars, dfuVars, guiVars, procVars, swdVars, dlVars
<1>2. BanksTypeOK'
    BY <1>1 DEF Core, BanksTypeOK
<1>3. DfuTypeOK' /\ SwdTypeOK' /\ DialogHasProcess' /\ OneDialog'
    BY <1>1 DEF Core, DfuTypeOK, SwdTypeOK, DialogHasProcess, OneDialog
<1>4. Claims'
    BY <1>0, <1>1 DEF Claims
<1>5. FlashState'
    BY <1>0, <1>1 DEF Core, FlashState, Reads
<1>6. SwdState'
    BY <1>0, <1>1 DEF Core, SwdState, Progress, Finished, SwdEnded
<1> QED
    BY <1>2, <1>3, <1>4, <1>5, <1>6 DEF Core

\* Nothing changes.
LEMMA StuttersStep ==
    ASSUME Core, Stutters
    PROVE  Core'
<1>1. /\ UNCHANGED <<swapByte, bank, dfu, claim, files, overlapped>>
      /\ UNCHANGED <<cli, scanning, found, flashing, flashOk, scanProc, flashProc, swapProc>>
      /\ UNCHANGED <<probe, running, swdProc>>
    BY DEF Stutters, bankVars, dfuVars, guiVars, procVars, swdVars, dlVars
<1>2. (BanksTypeOK /\ DfuTypeOK /\ SwdTypeOK /\ DialogHasProcess /\ OneDialog /\ Claims)'
    BY <1>1 DEF Core, BanksTypeOK, DfuTypeOK, SwdTypeOK, DialogHasProcess, OneDialog, Claims,
                SwdAlive
<1>3. FlashState'
    BY <1>1 DEF Core, FlashState, Reads
<1>4. SwdState'
    BY <1>1 DEF Core, SwdState, Progress, Finished
<1> QED
    BY <1>2, <1>3, <1>4 DEF Core

----------------------------------------------------------------------------
\* The DFU side.

\* An SWD operation does not notice what neither touches the device nor claims it.
LEMMA SwdUntouched ==
    ASSUME Core, UNCHANGED <<swdProc, overlapped>>, claim' # "swd" \/ claim = "swd",
           UNCHANGED <<swapByte, bank, dfu>> \/ (claim' # "swd" /\ ~SwdEnded)
    PROVE  SwdState'
BY DEF Core, SwdState, Progress, Finished, SwdEnded

\* startFlash(), swapBank(): no dialog was up, so no SWD program lives.
LEMMA DfuCalledStep ==
    ASSUME Core, DfuCalled
    PROVE  Core'
<1> USE ProcFields, ProcessAssumption
<1>1. /\ UNCHANGED <<swapByte, bank, dfu, claim, files, cli, probe, running, swdProc, overlapped>>
      /\ ~flashing /\ ~running /\ flashProc = None
      /\ claim \notin {"flash", "swd"}
      /\ swdProc # None => swdProc.code = "dead"
    BY DEF DfuCalled, bankVars, swdVars, dlVars, Core, DialogHasProcess, Claims, SwdAlive
<1>2. BanksTypeOK' /\ SwdTypeOK' /\ SwdState'
    BY <1>1, SwdUntouched DEF Core, BanksTypeOK, SwdTypeOK
<1>3. ASSUME NEW n \in Image, NEW t \in Target, StartFlash(n, t)
      PROVE  Core'
  <2>1. /\ flashProc' \in FlashProc /\ flashProc'.at = "starting" /\ flashProc'.code = None
        /\ flashing' = TRUE /\ flashOk' = FALSE /\ scanning' = FALSE /\ found' \in BOOLEAN
        /\ scanProc' = None /\ swapProc' = swapProc
    BY <1>3 DEF StartFlash, StopScanning, FlashProc, FlashStage, ExitCode, Core, DfuTypeOK
  <2>2. DfuTypeOK'
    BY <1>1, <2>1 DEF Core, DfuTypeOK
  <2>3. DialogHasProcess' /\ OneDialog' /\ Claims'
    BY <1>1, <2>1 DEF Core, DialogHasProcess, OneDialog, Claims, SwdAlive
  <2>4. FlashState'
    BY <2>1 DEF FlashState
  <2> QED
    BY <1>2, <2>2, <2>3, <2>4 DEF Core
<1>4. CASE SwapBank
  <2>1. /\ UNCHANGED <<flashing, flashOk, flashProc>> /\ scanning' = FALSE /\ found' \in BOOLEAN
        /\ scanProc' = None /\ swapProc = None /\ swapProc' \in SwapProc
    BY <1>4 DEF SwapBank, StopScanning, SwapProc, ExitCode, Core, DfuTypeOK
  <2>2. DfuTypeOK'
    BY <1>1, <2>1 DEF Core, DfuTypeOK
  <2>3. DialogHasProcess' /\ OneDialog' /\ Claims'
    BY <1>1, <2>1 DEF Core, DialogHasProcess, OneDialog, Claims, SwdAlive
  <2>4. FlashState'
    BY <1>1, <2>1 DEF FlashState
  <2> QED
    BY <1>2, <2>2, <2>3, <2>4 DEF Core
<1> QED
    BY <1>3, <1>4 DEF DfuCalled

\* onFlashFinished() clears the process and takes the dialog down.
LEMMA FlashFinishedTypes ==
    ASSUME DfuTypeOK, NEW c, FlashFinished(c)
    PROVE  /\ flashProc' = None /\ flashing' = FALSE /\ scanning' = TRUE
           /\ scanProc' \in {None, "starting", "dead", "nothing", "device"}
           /\ found' \in BOOLEAN
           /\ UNCHANGED <<flashOk, swapProc>>
BY DEF DfuTypeOK, FlashFinished

\* A process that ends by cancel() releases what it had claimed.
LEMMA DfuHeardStep ==
    ASSUME Core, DfuHeard
    PROVE  Core'
<1> USE ProcFields, ProcessAssumption
<1>1. UNCHANGED <<files, cli, probe, running, swdProc, overlapped>>
    BY DEF DfuHeard, swdVars, dlVars
<1>2. /\ flashProc # None /\ flashProc' = None /\ flashing' = FALSE /\ scanning' = TRUE
      /\ scanProc' \in {None, "starting", "dead", "nothing", "device"}
      /\ found' \in BOOLEAN
      /\ UNCHANGED <<flashOk, swapProc>>
  <2>1. CASE OnFlashFinished
    BY <2>1, FlashFinishedTypes DEF OnFlashFinished, Ended, Core
  <2>2. CASE Cancel /\ flashProc.at = "dead"
    BY <2>2 DEF Cancel, StartScanning, ScanOnce, Core, DfuTypeOK
  <2>3. CASE Cancel /\ flashProc.at # "dead"
    BY <2>3, FlashFinishedTypes DEF Cancel, Core
  <2> QED
    BY <2>1, <2>2, <2>3 DEF DfuHeard
<1>3. UNCHANGED <<swapByte, bank, dfu>> /\ claim' = IF claim = "flash" THEN None ELSE claim
  <2>1. CASE OnFlashFinished
    BY <2>1 DEF OnFlashFinished, Ended, bankVars, Core, Claims
  <2>2. CASE Cancel /\ flashProc.at = "dead"
    BY <2>2 DEF Cancel, Core, Claims
  <2>3. CASE Cancel /\ flashProc.at # "dead"
    BY <2>3 DEF Cancel, Release
  <2> QED
    BY <2>1, <2>2, <2>3 DEF DfuHeard
<1>4. BanksTypeOK' /\ SwdTypeOK' /\ DfuTypeOK'
    BY <1>1, <1>2, <1>3 DEF Core, BanksTypeOK, SwdTypeOK, DfuTypeOK
<1>5. SwdState'
    BY <1>1, <1>3, BanksAssumption, SwdUntouched
<1>6. DialogHasProcess' /\ OneDialog'
    BY <1>1, <1>2 DEF Core, DialogHasProcess, OneDialog
<1>7. Claims'
    BY <1>1, <1>2, <1>3, BanksAssumption DEF Core, Claims, SwdAlive
<1>8. FlashState'
    BY <1>2 DEF FlashState
<1> QED
    BY <1>4, <1>5, <1>6, <1>7, <1>8 DEF Core

\* The scans, and the slots that leave the flash where it is.
LEMMA DfuListensStep ==
    ASSUME Core, DfuListens
    PROVE  Core'
<1> USE ProcFields, ProcessAssumption
<1>1. UNCHANGED <<swapByte, bank, dfu, claim, files, cli, probe, running, swdProc, overlapped>>
    BY DEF DfuListens, bankVars, swdVars, dlVars
<1>2. BanksTypeOK' /\ SwdTypeOK' /\ SwdState'
    BY <1>1, SwdUntouched DEF Core, BanksTypeOK, SwdTypeOK
<1>3. CASE WantScan \/ NoMoreScan \/ ScanTick \/ ScanLooks \/ OnScanFinished
  <2>1. /\ UNCHANGED <<flashing, flashOk, flashProc, swapProc>>
        /\ scanning' \in BOOLEAN /\ found' \in BOOLEAN
        /\ scanProc' \in {None, "starting", "dead", "nothing", "device"}
    BY <1>3 DEF WantScan, NoMoreScan, ScanTick, ScanLooks, OnScanFinished, StartScanning,
                StopScanning, ScanOnce, Saw, guiVars, Core, DfuTypeOK
  <2>2. DfuTypeOK'
    BY <1>1, <2>1 DEF Core, DfuTypeOK
  <2>3. DialogHasProcess' /\ OneDialog' /\ Claims'
    BY <1>1, <2>1 DEF Core, DialogHasProcess, OneDialog, Claims, SwdAlive
  <2>4. FlashState'
    BY <1>1, <2>1 DEF Core, FlashState, Reads
  <2> QED
    BY <1>2, <2>2, <2>3, <2>4 DEF Core
<1>4. CASE OnFlashOutput
  <2>1. /\ UNCHANGED <<scanning, found, flashing, scanProc, swapProc>> /\ flashOk' \in BOOLEAN
        /\ flashProc \in FlashProc /\ flashProc' = [flashProc EXCEPT !.said = FALSE]
    BY <1>4 DEF OnFlashOutput, Core, DfuTypeOK
  <2>2. /\ flashProc' \in FlashProc
        /\ flashProc'.at = flashProc.at /\ flashProc'.file = flashProc.file
        /\ flashProc'.target = flashProc.target /\ flashProc'.to = flashProc.to
        /\ flashProc'.image = flashProc.image /\ flashProc'.code = flashProc.code
    BY <2>1 DEF FlashProc
  <2>3. DfuTypeOK'
    BY <1>1, <2>1, <2>2 DEF Core, DfuTypeOK
  <2>4. DialogHasProcess' /\ OneDialog' /\ Claims'
    BY <1>1, <2>1, <2>2 DEF Core, DialogHasProcess, OneDialog, Claims, SwdAlive
  <2>5. FlashState'
    BY <1>1, <2>1, <2>2 DEF Core, FlashState, Reads
  <2> QED
    BY <1>2, <2>3, <2>4, <2>5 DEF Core
<1>5. CASE OnSwapBankFinished
  <2>1. /\ UNCHANGED <<flashing, flashOk, flashProc>> /\ scanning' = TRUE /\ found' \in BOOLEAN
        /\ scanProc' \in {None, "starting", "dead", "nothing", "device"}
        /\ swapProc.at = "ended" /\ swapProc' = None
    BY <1>5 DEF OnSwapBankFinished, Ended, Core, DfuTypeOK
  <2>2. DfuTypeOK'
    BY <1>1, <2>1 DEF Core, DfuTypeOK
  <2>3. DialogHasProcess' /\ OneDialog' /\ Claims'
    BY <1>1, <2>1 DEF Core, DialogHasProcess, OneDialog, Claims, SwdAlive
  <2>4. FlashState'
    BY <1>1, <2>1 DEF Core, FlashState, Reads
  <2> QED
    BY <1>2, <2>2, <2>3, <2>4 DEF Core
<1> QED
    BY <1>3, <1>4, <1>5 DEF DfuListens

\* The swap program holds the claim when it writes SWAP_BANK: no flash has it, and
\* no SWD operation has ended well that is not yet heard of.
LEMMA SwapWorksStep ==
    ASSUME Core, SwapWorks
    PROVE  Core'
<1> USE ProcFields, ProcessAssumption, BanksAssumption
<1>1. /\ UNCHANGED <<files, cli, probe, running, swdProc, overlapped, bank>>
      /\ UNCHANGED <<scanning, found, flashing, flashOk, scanProc, flashProc>>
    BY DEF SwapWorks, SwapTool, SwapClaims, SwapSets, SetSwapByte, SwapEnds, SwapFailsToStart,
           bankVars, swdVars, dlVars, guiVars
<1>2. /\ swapProc \in SwapProc /\ swapProc' \in SwapProc
      /\ swapByte' \in {0, 1} /\ dfu' \in BOOLEAN
      /\ claim' \in {claim, "swap", None}
      /\ claim' = "swap" => dfu' /\ swapProc'.at = "claimed"
      /\ \/ UNCHANGED <<swapByte, dfu>>
         \/ claim = "swap" /\ claim' = None
  <2>1. swapProc \in SwapProc
    BY DEF SwapWorks, SwapTool, SwapClaims, SwapSets, SwapEnds, SwapFailsToStart, Alive,
           Core, DfuTypeOK
  <2>2. CASE SwapClaims
    BY <2>1, <2>2 DEF SwapClaims, SwapProc, Core, BanksTypeOK
  <2>3. CASE SwapSets
    <3>1. swapProc' \in SwapProc
        BY <2>3 DEF SwapSets, SwapProc, ExitCode
    <3>2. swapByte' \in {0, 1} /\ dfu' = FALSE /\ claim = "swap" /\ claim' = None
        BY <2>3 DEF SwapSets, SetSwapByte, Core, BanksTypeOK
    <3> QED
        BY <2>1, <3>1, <3>2
  <2>4. CASE SwapEnds("failed") \/ SwapEnds("crash")
    BY <2>1, <2>4 DEF SwapEnds, Release, SwapProc, ExitCode, Core, BanksTypeOK
  <2>5. CASE SwapFailsToStart
    BY <2>1, <2>5 DEF SwapFailsToStart, SwapProc, bankVars, Core, BanksTypeOK, Claims
  <2> QED
    BY <2>2, <2>3, <2>4, <2>5 DEF SwapWorks, SwapTool
<1>3. BanksTypeOK'
    BY <1>1, <1>2 DEF Core, BanksTypeOK
<1>4. DfuTypeOK' /\ SwdTypeOK' /\ DialogHasProcess' /\ OneDialog'
    BY <1>1, <1>2 DEF Core, DfuTypeOK, SwdTypeOK, DialogHasProcess, OneDialog
<1>5. Claims'
    BY <1>1, <1>2 DEF Core, Claims, SwdAlive
<1>6. FlashState'
    BY <1>1, <1>2 DEF Core, FlashState, Reads
<1>7. SwdState'
  <2>1. claim = "swap" => ~(swdProc # None /\ swdProc.code = "ok")
    BY DEF Core, Claims, SwdState
  <2> QED
    BY <1>1, <1>2, <2>1 DEF Core, SwdState, Progress, Finished
<1> QED
    BY <1>3, <1>4, <1>5, <1>6, <1>7 DEF Core

----------------------------------------------------------------------------
\* The flash programs

\* The inactive bank is never the one that boots.
LEMMA BankFacts ==
    /\ \A s \in {0, 1} : BootBank(s) \in Bank /\ Other(BootBank(s)) \in Bank
    /\ \A s \in {0, 1}, t \in Target :
         /\ TargetBank(t, s) \in Bank /\ TargetAddress(t, s) \in Bank
         /\ t = "inactive" => /\ TargetBank(t, s) = Other(BootBank(s))
                              /\ TargetAddress(t, s) = Other(BootBank(s))
    /\ \A b \in Bank : Other(b) # b /\ SwapByteFor(b) \in {0, 1}
BY DEF BootBank, Other, Bank, Target, TargetBank, TargetAddress, SwapByteFor

\* While a flash process lives there is no SWD program to disturb.
LEMMA FlashAlone ==
    ASSUME Core, UNCHANGED <<swdProc, running, probe, flashing, cli, overlapped>>,
           flashing, flashProc' # None, claim' # "swd"
    PROVE  SwdTypeOK' /\ SwdState' /\ DialogHasProcess' /\ OneDialog'
<1>1. swdProc # None => swdProc.code = "dead"
    BY Exclusion DEF Core, DialogHasProcess
<1> QED
    BY <1>1 DEF Core, SwdTypeOK, SwdState, DialogHasProcess, OneDialog

\* The flash program, action by action.
LEMMA FlashWorksStep ==
    ASSUME Core, DlInv, FlashWorks
    PROVE  Core'
<1> USE ProcFields, ProcessAssumption, BanksAssumption, BankFacts
<1>1. /\ UNCHANGED <<files, cli, probe, running, swdProc, overlapped>>
      /\ UNCHANGED <<scanning, found, flashing, flashOk, scanProc, swapProc>>
    BY DEF FlashWorks, FlashTool, swdVars, dlVars, guiVars
<1>2. /\ flashProc # None /\ flashProc \in FlashProc /\ flashing
      /\ flashProc.to \in Bank \cup {None} /\ flashProc.target \in Target
      /\ claim # "swd"
  <2>1. flashProc # None
    BY DEF FlashWorks, FlashTool, FlashClaims, FlashErases, FlashWrites, FlashBoots,
           FlashVerifies, FlashEnds, Alive, FlashFailsToStart
  <2> QED
    BY <2>1, Exclusion DEF Core, DfuTypeOK, DialogHasProcess
<1>3. SUFFICES /\ flashProc' \in FlashProc /\ claim' # "swd"
               /\ BanksTypeOK' /\ Claims' /\ FlashState'
  <2>1. flashProc' # None
    BY <1>3
  <2>2. DfuTypeOK'
    BY <1>1, <1>3 DEF Core, DfuTypeOK
  <2> QED
    BY <1>1, <1>2, <1>3, <2>1, <2>2, FlashAlone DEF Core
<1>4. CASE FlashClaims
  <2>1. /\ flashProc' = [flashProc EXCEPT !.at = "claimed", !.to = flashProc'.to]
        /\ flashProc'.to \in Bank
        /\ flashProc.target = "inactive" => flashProc'.to = Other(BootBank(swapByte))
        /\ flashProc.at = "starting"
        /\ dfu /\ claim = None /\ claim' = "flash" /\ UNCHANGED <<swapByte, bank, dfu>>
    BY <1>2, <1>4 DEF FlashClaims, FlashProc, Core, BanksTypeOK
  <2>2. /\ flashProc' \in FlashProc /\ flashProc'.at = "claimed"
        /\ flashProc'.target = flashProc.target /\ flashProc'.code = flashProc.code
    BY <1>2, <2>1 DEF FlashProc, FlashStage
  <2>3. BanksTypeOK'
    BY <1>1, <2>1 DEF Core, BanksTypeOK
  <2>4. Claims'
    BY <2>1, <2>2 DEF Claims
  <2>5. FlashState'
    BY <1>2, <2>1, <2>2 DEF Core, FlashState
  <2> QED
    BY <2>1, <2>2, <2>3, <2>4, <2>5
<1>5. CASE FlashErases
  <2>1. /\ flashProc.at = "claimed" /\ claim = "flash" /\ files[flashProc.file] # None
        /\ flashProc' = [flashProc EXCEPT !.at = "writing", !.image = files[flashProc.file]]
        /\ bank' = [bank EXCEPT ![flashProc.to] = Partial]
        /\ UNCHANGED <<swapByte, dfu, claim>>
    BY <1>5 DEF FlashErases
  <2>2. /\ flashProc.file \in Image /\ files[flashProc.file] \in Image
        /\ files[flashProc.file] = flashProc.file \/ overlapped
    BY <1>2, <2>1 DEF Core, BanksTypeOK, DlInv, OnlyOverlapMixesUp
  <2>3. /\ flashProc' \in FlashProc /\ flashProc'.at = "writing"
        /\ flashProc'.to = flashProc.to /\ flashProc'.target = flashProc.target
        /\ flashProc'.file = flashProc.file
        /\ flashProc'.image = files[flashProc.file] /\ flashProc'.code = flashProc.code
    BY <1>2, <2>1, <2>2 DEF FlashProc, FlashStage
  <2>4. BanksTypeOK'
    BY <1>1, <2>1 DEF Core, BanksTypeOK, Content
  <2>5. Claims'
    BY <2>1, <2>3 DEF Core, Claims
  <2>6. FlashState'
    BY <1>1, <1>2, <2>1, <2>2, <2>3 DEF Core, FlashState, Reads
  <2> QED
    BY <2>1, <2>3, <2>4, <2>5, <2>6
<1>6. CASE FlashWrites
  <2>1. /\ flashProc.at = "writing" /\ claim = "flash"
        /\ flashProc' = [flashProc EXCEPT !.at = "written", !.said = cli]
        /\ UNCHANGED <<swapByte, dfu, claim>>
    BY <1>6 DEF FlashWrites
  <2>2. PICK w \in {flashProc.image} \cup (IF cli THEN {Partial} ELSE {}) :
            bank' = [bank EXCEPT ![flashProc.to] = w]
    BY <1>6 DEF FlashWrites
  <2>3. flashProc.to \in Bank /\ flashProc.image \in Image
    BY <1>2, <2>1 DEF Core, FlashState, Reads
  <2>4. /\ flashProc' \in FlashProc /\ flashProc'.at = "written"
        /\ flashProc'.to = flashProc.to /\ flashProc'.target = flashProc.target
        /\ flashProc'.file = flashProc.file
        /\ flashProc'.image = flashProc.image /\ flashProc'.code = flashProc.code
    BY <1>2, <2>1 DEF FlashProc, FlashStage, Core, DfuTypeOK
  <2>5. BanksTypeOK'
    BY <1>1, <2>1, <2>2, <2>3 DEF Core, BanksTypeOK, Content
  <2>6. Claims'
    BY <2>1, <2>4 DEF Core, Claims
  <2>7. bank'[flashProc.to] = w
    BY <2>2, <2>3 DEF Core, BanksTypeOK
  <2>8. FlashState'
    BY <1>1, <1>2, <2>1, <2>2, <2>3, <2>4, <2>7 DEF Core, FlashState, Reads
  <2> QED
    BY <2>1, <2>4, <2>5, <2>6, <2>8
<1>7. CASE FlashBoots
  <2>1. /\ flashProc.at = "written" /\ ~cli
        /\ flashProc' = [flashProc EXCEPT !.at = "ended", !.said = TRUE, !.code = "ok"]
        /\ dfu' = (dfu /\ claim # "flash") /\ claim' = IF claim = "flash" THEN None ELSE claim
        /\ swapByte' \in {swapByte} \cup (IF claim = "flash" THEN {SwapByteFor(flashProc.to)} ELSE {})
        /\ UNCHANGED bank
    BY <1>7 DEF FlashBoots
  <2>2. flashProc.to \in Bank /\ Reads(flashProc) /\ bank[flashProc.to] = flashProc.image
    BY <1>2, <2>1 DEF Core, FlashState
  <2>3. /\ flashProc' \in FlashProc /\ flashProc'.at = "ended" /\ flashProc'.code = "ok"
        /\ flashProc'.to = flashProc.to /\ flashProc'.target = flashProc.target
        /\ flashProc'.file = flashProc.file /\ flashProc'.image = flashProc.image
    BY <1>2, <2>1 DEF FlashProc, FlashStage, ExitCode
  <2>4. BanksTypeOK'
    BY <1>1, <2>1, <2>2 DEF Core, BanksTypeOK
  <2>5. Claims'
    BY <1>1, <1>2, <2>1 DEF Core, Claims
  <2>6. FlashState'
    BY <1>1, <2>1, <2>2, <2>3 DEF FlashState, Reads
  <2> QED
    BY <1>2, <2>1, <2>3, <2>4, <2>5, <2>6
<1>8. CASE FlashVerifies
  <2>1. /\ flashProc.at = "written"
        /\ flashProc' = [flashProc EXCEPT !.at = "ended",
                           !.code = IF bank[flashProc.to] = Partial THEN "failed" ELSE "ok"]
        /\ dfu' = FALSE /\ claim' = None /\ UNCHANGED <<swapByte, bank>>
    BY <1>8 DEF FlashVerifies
  <2>2. /\ flashProc.to \in Bank /\ Reads(flashProc)
        /\ bank[flashProc.to] \in {flashProc.image, Partial}
    BY <1>2, <2>1 DEF Core, FlashState
  <2>3. /\ flashProc' \in FlashProc /\ flashProc'.at = "ended"
        /\ flashProc'.code = IF bank[flashProc.to] = Partial THEN "failed" ELSE "ok"
        /\ flashProc'.to = flashProc.to /\ flashProc'.target = flashProc.target
        /\ flashProc'.file = flashProc.file /\ flashProc'.image = flashProc.image
    BY <1>2, <2>1 DEF FlashProc, FlashStage, ExitCode
  <2>4. BanksTypeOK'
    BY <1>1, <2>1 DEF Core, BanksTypeOK
  <2>5. Claims'
    BY <2>1 DEF Claims
  <2>6. FlashState'
    BY <1>1, <2>1, <2>2, <2>3 DEF FlashState, Reads
  <2> QED
    BY <2>1, <2>3, <2>4, <2>5, <2>6
<1>9. ASSUME NEW c \in {"failed", "crash"}, FlashEnds(c)
      PROVE  flashProc' \in FlashProc /\ claim' # "swd" /\ BanksTypeOK' /\ Claims' /\ FlashState'
  <2>1. /\ flashProc' = [flashProc EXCEPT !.at = "ended", !.code = c]
        /\ claim' = (IF claim = "flash" THEN None ELSE claim) /\ UNCHANGED <<swapByte, bank, dfu>>
    BY <1>9 DEF FlashEnds, Release
  <2>2. /\ flashProc' \in FlashProc /\ flashProc'.at = "ended" /\ flashProc'.code = c
    BY <1>2, <2>1 DEF FlashProc, FlashStage, ExitCode
  <2>3. BanksTypeOK'
    BY <1>1, <2>1 DEF Core, BanksTypeOK
  <2>4. Claims'
    BY <1>1, <1>2, <2>1 DEF Core, Claims
  <2>5. FlashState'
    BY <2>2 DEF FlashState
  <2> QED
    BY <1>2, <2>1, <2>2, <2>3, <2>4, <2>5
<1>10. CASE FlashFailsToStart
  <2>1. /\ flashProc.at = "starting" /\ flashProc' = [flashProc EXCEPT !.at = "dead"]
        /\ UNCHANGED <<swapByte, bank, dfu, claim>>
    BY <1>10 DEF FlashFailsToStart, bankVars
  <2>2. /\ flashProc' \in FlashProc /\ flashProc'.at = "dead" /\ flashProc'.code = flashProc.code
    BY <1>2, <2>1 DEF FlashProc, FlashStage
  <2>3. BanksTypeOK'
    BY <1>1, <2>1 DEF Core, BanksTypeOK
  <2>4. Claims'
    BY <1>1, <1>2, <2>1 DEF Core, Claims
  <2>5. FlashState'
    BY <1>2, <2>1, <2>2 DEF Core, FlashState
  <2> QED
    BY <1>2, <2>1, <2>2, <2>3, <2>4, <2>5
<1> QED
    BY <1>4, <1>5, <1>6, <1>7, <1>8, <1>9, <1>10 DEF FlashWorks, FlashTool

----------------------------------------------------------------------------
\* The SWD scripts

\* What a script does when.
LEMMA ScriptSteps ==
    ASSUME NEW op \in Op, NEW st \in BOOLEAN
    PROVE  /\ Len(Script(op, st)) \in 0..3
           /\ op = "Recovery" => Len(Script(op, st)) \in 2..3
           /\ op \in {"Verify1", "Verify2"} => Len(Script(op, st)) = 1
           /\ op = "Clone" => Len(Script(op, st)) = 2
           /\ \A i \in 0..(Len(Script(op, st)) - 1) :
                /\ Script(op, st)[i + 1] \in {"clear_swap", "erase", "erase_all"} =>
                     op = "Recovery" /\ i + 1 < Len(Script(op, st))
                /\ Script(op, st)[i + 1] = "program" =>
                     op = "Recovery" /\ i + 1 = Len(Script(op, st))
                /\ Script(op, st)[i + 1] = "toggle" => op = "Swap"
                /\ Script(op, st)[i + 1] = "verify" => op \in {"Verify1", "Verify2"}
                /\ Script(op, st)[i + 1] = "dump" => op = "Clone" /\ i = 0
                /\ Script(op, st)[i + 1] = "program_2" => op = "Clone" /\ i = 1
<1>1. CASE op = "Recovery" /\ st
  <2>1. Script(op, st) = <<"erase_all", "program">>
    BY <1>1 DEF Script
  <2>2. Len(Script(op, st)) = 2 /\ Script(op, st)[1] = "erase_all" /\ Script(op, st)[2] = "program"
    BY <2>1
  <2>3. ASSUME NEW i \in 0..(Len(Script(op, st)) - 1)
        PROVE  \/ i = 0 /\ Script(op, st)[i + 1] = "erase_all"
               \/ i + 1 = Len(Script(op, st)) /\ Script(op, st)[i + 1] = "program"
    BY <2>2
  <2>4. op = "Recovery" /\ Len(Script(op, st)) = 2
    BY <1>1, <2>2
  <2> HIDE <1>1
  <2> QED
    BY <2>3, <2>4
<1>2. CASE op = "Recovery" /\ ~st
  <2>1. Script(op, st) = <<"clear_swap", "erase", "program">>
    BY <1>2 DEF Script
  <2>2. Len(Script(op, st)) = 3 /\ Script(op, st)[1] = "clear_swap" /\ Script(op, st)[2] = "erase" /\ Script(op, st)[3] = "program"
    BY <2>1
  <2> QED
    BY <1>2, <2>2
<1>3. CASE op = "Swap"
  <2>1. Script(op, st) = <<"toggle">>
    BY <1>3 DEF Script
  <2>2. Len(Script(op, st)) = 1 /\ Script(op, st)[1] = "toggle"
    BY <2>1
  <2> QED
    BY <1>3, <2>2
<1>4. CASE op \in {"Verify1", "Verify2"}
  <2>1. Script(op, st) = <<"verify">>
    BY <1>4 DEF Script
  <2>2. Len(Script(op, st)) = 1 /\ Script(op, st)[1] = "verify"
    BY <2>1
  <2> QED
    BY <1>4, <2>2
<1>5. CASE op = "Clone"
  <2>1. Script(op, st) = <<"dump", "program_2">>
    BY <1>5 DEF Script
  <2>2. Len(Script(op, st)) = 2 /\ Script(op, st)[1] = "dump" /\ Script(op, st)[2] = "program_2"
    BY <2>1
  <2> QED
    BY <1>5, <2>2
<1>6. CASE op = "Status"
  <2>1. Script(op, st) = <<>>
    BY <1>6 DEF Script
  <2>2. Len(Script(op, st)) = 0
    BY <2>1
  <2> QED
    BY <1>6, <2>2
<1> QED
    BY <1>1, <1>2, <1>3, <1>4, <1>5, <1>6 DEF Op

\* A step that is due tells the operation, and how far its script is.
LEMMA StepFacts ==
    ASSUME Core, NEW name, Step(name)
    PROVE  /\ SwdAlive /\ claim = "swd" /\ swdProc \in SwdProc /\ Progress(swdProc)
           /\ swdProc.done \in 0..2 /\ swdProc.done < Len(Script(swdProc.op, swdProc.st))
           /\ name \in {"clear_swap", "erase", "erase_all"} =>
                swdProc.op = "Recovery" /\ swdProc.done + 1 < Len(Script(swdProc.op, swdProc.st))
           /\ name = "program" =>
                swdProc.op = "Recovery" /\ swdProc.done + 1 = Len(Script(swdProc.op, swdProc.st))
           /\ name = "toggle" => swdProc.op = "Swap"
           /\ name = "verify" => swdProc.op \in {"Verify1", "Verify2"}
           /\ name = "dump" => swdProc.op = "Clone" /\ swdProc.done = 0
           /\ name = "program_2" => swdProc.op = "Clone" /\ swdProc.done = 1
<1>1. SwdAlive /\ claim = "swd" /\ swdProc \in SwdProc /\ Progress(swdProc)
    BY DEF Step, Core, SwdTypeOK, SwdAlive, SwdState
<1>2. swdProc.op \in Op /\ swdProc.st \in BOOLEAN
    BY <1>1, ProcFields
<1> DEFINE script == Script(swdProc.op, swdProc.st)
<1>3. Len(script) \in 0..3
    BY <1>2, ScriptSteps
<1>4. swdProc.done \in 0..(Len(script) - 1) /\ script[swdProc.done + 1] = name
    BY DEF Step
<1> HIDE DEF script
<1>5. swdProc.done \in 0..2 /\ swdProc.done < Len(script)
    BY <1>3, <1>4
<1> QED
    BY <1>1, <1>2, <1>4, <1>5, ScriptSteps DEF script

\* What Did, and the dump, make of the process.
DidTo(p, d) == [p EXCEPT !.done = d, !.busy = FALSE]
DumpTo(p, c) == [p EXCEPT !.done = 1, !.dump = c]

LEMMA DidProc ==
    ASSUME NEW p \in SwdProc, NEW d \in -1..3
    PROVE  /\ DidTo(p, d) \in SwdProc /\ DidTo(p, d).done = d
           /\ DidTo(p, d).op = p.op /\ DidTo(p, d).st = p.st
           /\ DidTo(p, d).file = p.file /\ DidTo(p, d).dump = p.dump
           /\ DidTo(p, d).code = p.code
<1> DEFINE r == [p EXCEPT !.done = d]
<1>1. /\ r \in SwdProc /\ r.done = d /\ r.op = p.op /\ r.st = p.st
      /\ r.file = p.file /\ r.dump = p.dump /\ r.code = p.code
    BY DEF SwdProc
<1>2. DidTo(p, d) = [r EXCEPT !.busy = FALSE]
    BY DEF DidTo
<1> HIDE DEF r
<1> QED
    BY <1>1, <1>2 DEF SwdProc

\* The same of the dump.
LEMMA DumpProc ==
    ASSUME NEW p \in SwdProc, NEW c \in Content
    PROVE  /\ DumpTo(p, c) \in SwdProc
           /\ DumpTo(p, c).done = 1 /\ DumpTo(p, c).dump = c
           /\ DumpTo(p, c).op = p.op /\ DumpTo(p, c).st = p.st
           /\ DumpTo(p, c).file = p.file /\ DumpTo(p, c).code = p.code
<1> DEFINE r == [p EXCEPT !.done = 1]
<1>1. /\ r \in SwdProc /\ r.done = 1
      /\ r.op = p.op /\ r.st = p.st /\ r.file = p.file /\ r.code = p.code
    BY DEF SwdProc
<1>2. DumpTo(p, c) = [r EXCEPT !.dump = c]
    BY DEF DumpTo
<1> HIDE DEF r
<1> QED
    BY <1>1, <1>2 DEF SwdProc

\* Under an SWD script the addresses are those of the physical banks.
LEMMA AddressFacts ==
    \A s \in {0, 1} :
      /\ BankAt("0x08000000", s) = BootBank(s) /\ BootBank(s) \in Bank
      /\ \A b \in Bank : BankAt(AddressOf(b, s), s) = b
BY DEF BankAt, AddressOf, BootBank, Other, Bank

\* The SWD side leaves the DFU processes and the downloads alone.
LEMMA SwdFrame ==
    ASSUME UNCHANGED <<files, dfuVars, dlVars>>
    PROVE  /\ UNCHANGED <<files, overlapped, dest, replies>>
           /\ UNCHANGED <<cli, scanning, found, flashing, flashOk, scanProc, flashProc, swapProc>>
BY DEF dfuVars, guiVars, procVars, dlVars

\* A new operation starts where no process lives.
LEMMA SwdCalledStep ==
    ASSUME Core, SwdCalled
    PROVE  Core'
<1> USE ProcFields, SwdAssumption, BanksAssumption
<1>1. /\ UNCHANGED <<swapByte, bank, dfu, claim, files, overlapped>>
      /\ UNCHANGED <<cli, scanning, found, flashing, flashOk, scanProc, flashProc, swapProc>>
      /\ ~flashing /\ ~running /\ flashProc = None
      /\ claim \notin {"flash", "swd"}
    BY SwdFrame DEF SwdCalled, bankVars, Core, DialogHasProcess, Claims, SwdAlive
<1>2. BanksTypeOK' /\ DfuTypeOK' /\ FlashState'
    BY <1>1 DEF Core, BanksTypeOK, DfuTypeOK, FlashState
<1>3. ASSUME NEW op \in Op, NEW st \in BOOLEAN, NEW file \in Image \cup {None},
             op \in {"Recovery", "Verify1", "Verify2"} => file \in Image,
             Run(op, st, file)
      PROVE  Core'
  <2>1. /\ swdProc' \in SwdProc /\ running' = TRUE /\ probe' = probe
        /\ swdProc'.code = None /\ swdProc'.op = op /\ swdProc'.file = file
    BY <1>3 DEF Run, SwdProc
  <2>2. SwdTypeOK' /\ SwdState'
    BY <1>1, <1>3, <2>1 DEF Core, SwdTypeOK, SwdState
  <2>3. DialogHasProcess' /\ OneDialog' /\ Claims'
    BY <1>1, <2>1 DEF Core, DialogHasProcess, OneDialog, Claims
  <2> QED
    BY <1>2, <2>2, <2>3 DEF Core
<1>4. CASE SetProbeType
  <2>1. probe' \in {"Pico", "STLink"} /\ UNCHANGED <<running, swdProc>>
    BY <1>4 DEF SetProbeType
  <2>2. SwdTypeOK' /\ DialogHasProcess' /\ OneDialog' /\ Claims'
    BY <1>1, <2>1 DEF Core, SwdTypeOK, DialogHasProcess, OneDialog, Claims
  <2>3. SwdState'
    BY <1>1, <2>1 DEF Core, SwdState, Progress, Finished
  <2> QED
    BY <1>2, <2>2, <2>3 DEF Core
<1>5. CASE SwdSwapBank \/ CloneBank1ToBank2 \/ ReadStatus
    BY <1>3, <1>5 DEF SwdSwapBank, CloneBank1ToBank2, ReadStatus, Op
<1>6. ASSUME NEW n \in Image, RecoveryFlash(n) \/ \E b \in Bank : VerifyBank(b, n)
      PROVE  Core'
    BY <1>3, <1>6 DEF RecoveryFlash, VerifyBank, Op
<1> QED
    BY <1>4, <1>5, <1>6 DEF SwdCalled

\* The end of an operation is heard, or it is cancelled, or never started.
LEMMA SwdHeardStep ==
    ASSUME Core, SwdHeard
    PROVE  Core'
<1> USE ProcFields, SwdAssumption, BanksAssumption
<1>1. /\ UNCHANGED <<swapByte, bank, dfu, files, overlapped, probe>>
      /\ UNCHANGED <<cli, scanning, found, flashing, flashOk, scanProc, flashProc, swapProc>>
    BY SwdFrame DEF SwdHeard, SwdCancel, SwdFinished, Detach, OnProcessFinished, SwdFailsToStart,
          bankVars
<1>2. /\ running' = FALSE
      /\ swdProc' \in {None} \cup SwdProc
      /\ swdProc' # None => swdProc'.code = "dead"
      /\ swdProc' # None => swdProc # None /\ swdProc'.op = swdProc.op /\ swdProc'.file = swdProc.file
      /\ claim' = IF claim = "swd" THEN None ELSE claim
  <2>1. CASE SwdCancel
    BY <2>1 DEF SwdCancel, SwdFinished, Detach, Core, DialogHasProcess
  <2>2. CASE OnProcessFinished
    BY <2>2 DEF OnProcessFinished, SwdEnded, SwdFinished, bankVars, Core, Claims, SwdAlive
  <2>3. CASE SwdFailsToStart
    <3>1. claim # "swd" /\ swdProc \in SwdProc
        BY <2>3 DEF SwdFailsToStart, SwdAlive, Core, Claims, SwdTypeOK
    <3>2. swdProc' = [swdProc EXCEPT !.code = "dead"] /\ running' = FALSE /\ claim' = claim
        BY <2>3 DEF SwdFailsToStart, bankVars
    <3>3. /\ swdProc' \in SwdProc /\ swdProc'.code = "dead" /\ swdProc'.op = swdProc.op
          /\ swdProc'.file = swdProc.file
        BY <3>1, <3>2 DEF SwdProc
    <3> QED
        BY <3>1, <3>2, <3>3
  <2> QED
    BY <2>1, <2>2, <2>3 DEF SwdHeard
<1>3. BanksTypeOK' /\ DfuTypeOK' /\ SwdTypeOK'
  <2>1. BanksTypeOK'
    BY <1>1, <1>2 DEF Core, BanksTypeOK
  <2>2. DfuTypeOK'
    BY <1>1 DEF Core, DfuTypeOK
  <2>3. SwdTypeOK'
    BY <1>1, <1>2 DEF Core, SwdTypeOK
  <2> QED
    BY <2>1, <2>2, <2>3
<1>4. DialogHasProcess' /\ OneDialog' /\ Claims'
    BY <1>1, <1>2 DEF Core, DialogHasProcess, OneDialog, Claims
<1>5. FlashState'
    BY <1>1, <1>2 DEF Core, FlashState, Reads
<1>6. SwdState'
    BY <1>2 DEF Core, SwdState
<1> QED
    BY <1>3, <1>4, <1>5, <1>6 DEF Core

\* The SWD scripts, step by step: what Progress says of a script's end is made by
\* its last step, and by no step before it.
LEMMA SwdWorksStep ==
    ASSUME Core, DlInv, SwdWorks
    PROVE  Core'
<1> USE ProcFields, SwdAssumption, BanksAssumption, AddressFacts
<1>1. /\ UNCHANGED <<files, overlapped, probe, running>>
      /\ UNCHANGED <<cli, scanning, found, flashing, flashOk, scanProc, flashProc, swapProc>>
    BY SwdFrame DEF SwdWorks, SwdTool
<1>2. /\ SwdAlive /\ swdProc \in SwdProc /\ swdProc # None /\ swdProc.code = None
      /\ flashProc = None /\ claim # "flash" /\ running
  <2>1. SwdAlive
    BY DEF SwdWorks, SwdTool, Attach, ClearSwap, Toggle, Erase, EraseAll, ProgramFile,
           ProgramDump, DumpBank1, VerifyImage, ScriptDone, ScriptFails, Step
  <2> QED
    BY <2>1, Exclusion DEF SwdAlive, Core, SwdTypeOK, DialogHasProcess
<1>3. /\ swapByte \in {0, 1} /\ bank \in [Bank -> Content] /\ files \in [Image -> Image \cup {None}]
    BY DEF Core, BanksTypeOK
<1>4. SUFFICES /\ swdProc' \in SwdProc /\ swdProc'.code # "dead" /\ BanksTypeOK' /\ Claims' /\ SwdState'
  <2>1. DfuTypeOK' /\ FlashState' /\ SwdTypeOK'
    BY <1>1, <1>2, <1>4 DEF Core, DfuTypeOK, FlashState, SwdTypeOK
  <2>2. DialogHasProcess' /\ OneDialog'
    BY <1>1, <1>2, <1>4 DEF Core, DialogHasProcess, OneDialog
  <2> QED
    BY <1>4, <2>1, <2>2 DEF Core
\* A step of the script: what the process holds, and the banks, after it.
<1>5. ASSUME claim = "swd", UNCHANGED claim, UNCHANGED dfu \/ dfu' = FALSE,
             swapByte' \in {0, 1}, bank' \in [Bank -> Content],
             swdProc' \in SwdProc, swdProc'.code = None, swdProc'.done >= 0,
             swdProc'.op = swdProc.op, swdProc'.file = swdProc.file,
             Progress(swdProc)'
      PROVE  /\ swdProc' \in SwdProc /\ swdProc'.code # "dead" /\ BanksTypeOK' /\ Claims' /\ SwdState'
  <2>1. ~dfu /\ dfu' = FALSE
    BY <1>5 DEF Core, Claims, BanksTypeOK
  <2>2. BanksTypeOK'
    BY <1>1, <1>3, <1>5, <2>1 DEF Core, BanksTypeOK
  <2>3. Claims'
    BY <1>5, <2>1 DEF Claims, SwdAlive
  <2>4. SwdState'
    BY <1>2, <1>5 DEF Core, SwdState
  <2> QED
    BY <1>5, <2>2, <2>3, <2>4
<1>6. ASSUME NEW name, Step(name), Did
      PROVE  /\ swdProc' \in SwdProc /\ swdProc'.done = swdProc.done + 1
             /\ swdProc'.op = swdProc.op /\ swdProc'.st = swdProc.st
             /\ swdProc'.file = swdProc.file /\ swdProc'.dump = swdProc.dump
             /\ swdProc'.code = None
  <2>1. swdProc.done \in 0..2
    BY <1>6, StepFacts
  <2>2. swdProc' = DidTo(swdProc, swdProc.done + 1)
    BY <1>6 DEF Did, DidTo
  <2>3. swdProc.done + 1 \in -1..3
    BY <2>1
  <2> QED
    BY <1>2, <2>2, <2>3, DidProc
<1>7. CASE ClearSwap
  <2>1. Step("clear_swap") /\ Did /\ swapByte' = 0 /\ dfu' = FALSE /\ UNCHANGED <<bank, claim>>
    BY <1>7 DEF ClearSwap, SetSwapByte
  <2>2. Progress(swdProc)'
    BY <2>1, <1>6, StepFacts DEF Progress, Finished
  <2>3. swapByte' \in {0, 1} /\ bank' \in [Bank -> Content]
    BY <1>3, <2>1
  <2>4. claim = "swd" /\ swdProc'.done >= 0
    BY <1>6, <2>1, StepFacts
  <2>5. /\ swdProc' \in SwdProc /\ swdProc'.code = None
        /\ swdProc'.op = swdProc.op /\ swdProc'.file = swdProc.file
    BY <1>6, <2>1
  <2> QED
    BY <1>5, <2>1, <2>2, <2>3, <2>4, <2>5
<1>8. CASE Toggle
  <2>1. /\ Step("toggle") /\ Did /\ swapByte' = 1 - swapByte /\ dfu' = FALSE
        /\ UNCHANGED <<bank, claim>>
    BY <1>8 DEF Toggle, SetSwapByte
  <2>2. Progress(swdProc)'
    BY <2>1, <1>6, StepFacts DEF Progress, Finished
  <2>3. swapByte' \in {0, 1} /\ bank' \in [Bank -> Content]
    BY <1>3, <2>1
  <2>4. claim = "swd" /\ swdProc'.done >= 0
    BY <1>6, <2>1, StepFacts
  <2>5. /\ swdProc' \in SwdProc /\ swdProc'.code = None
        /\ swdProc'.op = swdProc.op /\ swdProc'.file = swdProc.file
    BY <1>6, <2>1
  <2> QED
    BY <1>5, <2>1, <2>2, <2>3, <2>4, <2>5
<1>9. CASE Erase
  <2>1. /\ Step("erase") /\ Did /\ bank' = [bank EXCEPT ![BootBank(swapByte)] = Partial]
        /\ UNCHANGED <<swapByte, dfu, claim>>
    BY <1>9 DEF Erase
  <2>2. Progress(swdProc)'
    BY <2>1, <1>6, StepFacts DEF Progress, Finished
  <2>3. bank' \in [Bank -> Content]
    BY <1>3, <2>1 DEF Content
  <2> QED
    BY <1>3, <1>5, <1>6, <2>1, <2>2, <2>3, StepFacts
<1>10. CASE EraseAll
  <2>1. /\ Step("erase_all") /\ Did /\ bank' = [b \in Bank |-> Partial]
        /\ UNCHANGED <<swapByte, dfu, claim>>
    BY <1>10 DEF EraseAll
  <2>2. Progress(swdProc)'
    BY <2>1, <1>6, StepFacts DEF Progress, Finished
  <2>3. bank' \in [Bank -> Content]
    BY <2>1 DEF Content
  <2> QED
    BY <1>3, <1>5, <1>6, <2>1, <2>2, <2>3, StepFacts
\* A program step that has begun leaves the bank partial, and is not done.
<1>11. ASSUME NEW name, Step(name), NEW b \in Bank, ~swdProc.busy,
              bank' = [bank EXCEPT ![b] = Partial], swdProc' = [swdProc EXCEPT !.busy = TRUE],
              UNCHANGED <<swapByte, dfu, claim>>,
              name = "program" \/ (name = "program_2" /\ b = 2)
       PROVE  /\ swdProc' \in SwdProc /\ swdProc'.code # "dead" /\ BanksTypeOK' /\ Claims' /\ SwdState'
  <2>1. /\ swdProc' \in SwdProc /\ swdProc'.done = swdProc.done
        /\ swdProc'.op = swdProc.op /\ swdProc'.st = swdProc.st
        /\ swdProc'.file = swdProc.file /\ swdProc'.dump = swdProc.dump
        /\ swdProc'.code = None
    BY <1>2, <1>11 DEF SwdProc
  <2>2. Progress(swdProc)'
    BY <1>3, <1>11, <2>1, StepFacts DEF Progress, Finished
  <2>3. bank' \in [Bank -> Content]
    BY <1>3, <1>11 DEF Content
  <2> QED
    BY <1>3, <1>5, <1>11, <2>1, <2>2, <2>3, StepFacts
<1>12. CASE ProgramFile
  <2>1. /\ Step("program") /\ files[swdProc.file] # None /\ UNCHANGED <<swapByte, dfu, claim>>
        /\ IF swdProc.busy
           THEN bank' = [bank EXCEPT ![BootBank(swapByte)] = files[swdProc.file]] /\ Did
           ELSE /\ bank' = [bank EXCEPT ![BootBank(swapByte)] = Partial]
                /\ swdProc' = [swdProc EXCEPT !.busy = TRUE]
    BY <1>3, <1>12 DEF ProgramFile, Program
  <2>2. CASE ~swdProc.busy
    BY <1>3, <1>11, <2>1, <2>2
  <2>3. CASE swdProc.busy
    <3>1. /\ swdProc.op = "Recovery" /\ swdProc.file \in Image /\ files[swdProc.file] \in Image
          /\ files[swdProc.file] = swdProc.file \/ overlapped
        BY <1>2, <1>3, <2>1, StepFacts DEF Core, SwdState, DlInv, OnlyOverlapMixesUp
    <3>2. /\ bank' \in [Bank -> Content]
          /\ bank'[BootBank(swapByte)] = files[swdProc.file]
        BY <1>3, <2>1, <2>3, <3>1 DEF Content
    <3>3. Progress(swdProc)'
        BY <1>1, <1>6, <2>1, <2>3, <3>1, <3>2, StepFacts DEF Progress, Finished
    <3> QED
        BY <1>3, <1>5, <1>6, <2>1, <2>3, <3>2, <3>3, StepFacts
  <2> QED
    BY <2>2, <2>3
<1>13. CASE ProgramDump
  <2>1. /\ Step("program_2") /\ swdProc.dump # None /\ UNCHANGED <<swapByte, dfu, claim>>
        /\ IF swdProc.busy
           THEN bank' = [bank EXCEPT ![2] = swdProc.dump] /\ Did
           ELSE /\ bank' = [bank EXCEPT ![2] = Partial]
                /\ swdProc' = [swdProc EXCEPT !.busy = TRUE]
    BY <1>3, <1>13 DEF ProgramDump, Program, Bank
  <2>2. CASE ~swdProc.busy
    BY <1>3, <1>11, <2>1, <2>2 DEF Bank
  <2>3. CASE swdProc.busy
    <3>1. swdProc.op = "Clone" /\ swdProc.done = 1 /\ swdProc.dump = bank[1]
        BY <2>1, StepFacts DEF Progress
    <3>2. bank' \in [Bank -> Content] /\ bank'[2] = bank[1] /\ bank'[1] = bank[1]
        BY <1>3, <2>1, <2>3, <3>1 DEF Bank
    <3>3. Progress(swdProc)'
        BY <1>6, <2>1, <2>3, <3>1, <3>2 DEF Progress, Finished
    <3> QED
        BY <1>3, <1>5, <1>6, <2>1, <2>3, <3>2, <3>3, StepFacts
  <2> QED
    BY <2>2, <2>3
<1>14. CASE DumpBank1
  <2>1. /\ Step("dump") /\ swdProc' = [swdProc EXCEPT !.done = @ + 1, !.dump = bank[1]]
        /\ UNCHANGED <<swapByte, bank, dfu, claim>>
    BY <1>3, <1>14 DEF DumpBank1, bankVars, Bank
  <2>2. bank[1] \in Content /\ swdProc.op = "Clone" /\ swdProc.done = 0
    BY <1>3, <2>1, StepFacts DEF Bank
  <2>3. /\ swdProc' \in SwdProc /\ swdProc'.done = 1 /\ swdProc'.dump = bank[1]
        /\ swdProc'.op = "Clone" /\ swdProc'.file = swdProc.file /\ swdProc'.code = None
    <3>1. swdProc' = DumpTo(swdProc, bank[1])
        BY <2>1, <2>2 DEF DumpTo
    <3>2. /\ swdProc' \in SwdProc /\ swdProc'.done = 1 /\ swdProc'.dump = bank[1]
          /\ swdProc'.op = swdProc.op /\ swdProc'.file = swdProc.file
          /\ swdProc'.code = swdProc.code
        BY <1>2, <2>2, <3>1, DumpProc
    <3> QED
        BY <1>2, <2>2, <3>1, <3>2
  <2>4. Progress(swdProc)'
    BY <2>1, <2>3 DEF Progress
  <2> QED
    BY <1>3, <1>5, <2>1, <2>2, <2>3, <2>4, StepFacts
<1>15. CASE VerifyImage
  <2>1. /\ Step("verify") /\ Did /\ UNCHANGED <<swapByte, bank, dfu, claim>>
        /\ bank[IF swdProc.op = "Verify1" THEN 1 ELSE 2] = files[swdProc.file]
    BY <1>3, <1>15 DEF VerifyImage, bankVars, Bank
  <2>2. swdProc.op \in {"Verify1", "Verify2"} /\ swdProc.file \in Image
    BY <1>2, <2>1, StepFacts DEF Core, SwdState
  <2>3. bank[1] # None /\ bank[2] # None
    BY <1>3 DEF Content, Bank
  <2>4. files[swdProc.file] = swdProc.file \/ overlapped
    BY <2>1, <2>2, <2>3 DEF DlInv, OnlyOverlapMixesUp
  <2>5. Progress(swdProc)'
    BY <1>1, <1>6, <2>1, <2>2, <2>4 DEF Progress
  <2> QED
    BY <1>3, <1>5, <1>6, <2>1, <2>5, StepFacts
<1>16. CASE Attach
  <2>1. /\ swdProc.done = -1 /\ swdProc' = [swdProc EXCEPT !.done = @ + 1, !.busy = FALSE]
        /\ dfu' = FALSE /\ claim' = "swd" /\ UNCHANGED <<swapByte, bank>>
    BY <1>16 DEF Attach, Did
  <2>2. /\ swdProc' \in SwdProc /\ swdProc'.done = 0 /\ swdProc'.code = None
        /\ swdProc'.op = swdProc.op /\ swdProc'.file = swdProc.file /\ swdProc'.st = swdProc.st
    <3>1. swdProc' = DidTo(swdProc, 0) /\ 0 \in -1..3
        BY <2>1 DEF DidTo
    <3> QED
        BY <1>2, <3>1, DidProc
  <2>3. BanksTypeOK'
    BY <1>1, <1>3, <2>1 DEF Core, BanksTypeOK
  <2>6. Claims'
    BY <2>1, <2>2 DEF Claims, SwdAlive
  <2>4. ~(swdProc'.op = "Recovery" /\ Finished(swdProc)')
    BY <2>2, ScriptSteps DEF Finished
  <2>5. SwdState'
    BY <1>2, <2>2, <2>4 DEF Core, SwdState, Progress
  <2> QED
    BY <2>2, <2>3, <2>5, <2>6
<1>17. CASE ScriptDone
  <2>1. /\ claim = "swd" /\ Finished(swdProc) /\ swdProc' = [swdProc EXCEPT !.code = "ok"]
        /\ claim' = None /\ UNCHANGED <<swapByte, bank, dfu>>
    BY <1>17 DEF ScriptDone, Detach, Finished
  <2>2. /\ swdProc' \in SwdProc /\ swdProc'.done = swdProc.done /\ swdProc'.code = "ok"
        /\ swdProc'.op = swdProc.op /\ swdProc'.file = swdProc.file /\ swdProc'.st = swdProc.st
        /\ swdProc'.dump = swdProc.dump
    BY <1>2, <2>1 DEF SwdProc
  <2>3. BanksTypeOK' /\ Claims'
    BY <1>1, <1>3, <2>1 DEF Core, BanksTypeOK, Claims
  <2>4. ~dfu' /\ Progress(swdProc)' /\ Finished(swdProc)'
    BY <1>1, <1>2, <2>1, <2>2 DEF Core, Claims, SwdState, Progress, Finished
  <2>5. SwdState'
    BY <1>2, <2>1, <2>2, <2>4 DEF Core, SwdState
  <2> QED
    BY <2>2, <2>3, <2>5
<1>18. ASSUME NEW c \in {"failed", "crash"}, ScriptFails(c)
       PROVE  /\ swdProc' \in SwdProc /\ swdProc'.code # "dead" /\ BanksTypeOK' /\ Claims' /\ SwdState'
  <2>1. /\ swdProc' = [swdProc EXCEPT !.code = c]
        /\ claim' = (IF claim = "swd" THEN None ELSE claim) /\ UNCHANGED <<swapByte, bank, dfu>>
    BY <1>18 DEF ScriptFails, Detach
  <2>2. /\ swdProc' \in SwdProc /\ swdProc'.code = c
        /\ swdProc'.op = swdProc.op /\ swdProc'.file = swdProc.file
    BY <1>2, <2>1 DEF SwdProc
  <2>3. BanksTypeOK' /\ Claims'
    BY <1>1, <1>2, <1>3, <2>1 DEF Core, BanksTypeOK, Claims
  <2>4. SwdState'
    BY <1>2, <2>1, <2>2 DEF Core, SwdState
  <2> QED
    BY <2>2, <2>3, <2>4
<1> QED
    BY <1>7, <1>8, <1>9, <1>10, <1>12, <1>13, <1>14, <1>15, <1>16, <1>17, <1>18
       DEF SwdWorks, SwdTool

----------------------------------------------------------------------------
\* The inductive invariant.
RInv == DlInv /\ Core /\ calls \in 0..MaxCalls

\* No process, no reply, whole banks.
LEMMA Initially == Init => RInv
<1> SUFFICES ASSUME Init PROVE RInv
    OBVIOUS
<1> USE BanksAssumption, ProcessAssumption, CallsAssumption DEF Init
<1>1. DlTypeOK
  <2>1. replies = <<>> /\ replies \in Seq(Reply)
    BY EmptySeq DEF DlInit
  <2> QED
    BY <2>1 DEF DlInit, DlTypeOK, View
<1>2. FilesOK /\ OnlyOverlapMixesUp
    BY DEF BanksInit, FilesOK, OnlyOverlapMixesUp
<1>3. DlState /\ NoDeafDownload
  <2>1. replies = <<>> /\ Len(replies) = 0 /\ DOMAIN replies = {}
    BY EmptySeq DEF DlInit
  <2> QED
    BY <2>1 DEF DlInit, DlState, NoDeafDownload
<1>4. BanksTypeOK /\ DfuTypeOK /\ SwdTypeOK
    BY DEF BanksInit, BanksTypeOK, Content, DfuInit, DfuTypeOK, SwdInit, SwdTypeOK
<1>5. DialogHasProcess /\ OneDialog /\ Claims /\ FlashState /\ SwdState
    BY DEF BanksInit, DfuInit, SwdInit, DialogHasProcess, OneDialog, Claims, FlashState, SwdState
<1> QED
    BY <1>1, <1>2, <1>3, <1>4, <1>5 DEF RInv, DlInv, Core, DlInit

\* The bound on calls.
LEMMA CallsStep ==
    ASSUME calls \in 0..MaxCalls, Counts
    PROVE  calls' \in 0..MaxCalls
BY CallsAssumption DEF Counts

\* One group of steps after the other.
LEMMA Inductive == RInv /\ [Next]_vars => RInv'
<1> SUFFICES ASSUME RInv, [Next]_vars PROVE RInv'
    OBVIOUS
<1> USE DEF RInv
<1>1. DlInv'
    BY DlStep
<1>2. calls' \in 0..MaxCalls
    BY StepCases, CallsStep DEF DlInv
<1>3. Core'
  <2>1. \/ Downloading \/ SwdCalled \/ SwdHeard \/ SwdWorks
        \/ DfuCalled \/ DfuHeard \/ DfuListens \/ FlashWorks \/ SwapWorks
        \/ Cabled \/ Stutters
    BY StepCases DEF DlInv
  <2> QED
    BY <1>1, <2>1, DownloadingStep, SwdCalledStep, SwdHeardStep, SwdWorksStep, DfuCalledStep,
       DfuHeardStep, DfuListensStep, FlashWorksStep, SwapWorksStep, CabledStep, StuttersStep
<1> QED
    BY <1>1, <1>2, <1>3

\* RInv holds at every step of every behaviour.
THEOREM Invariance == Spec => []RInv
BY Initially, Inductive, PTL DEF Spec

\* Every variable of the recovery tools, the two views and the device keeps its
\* type, whatever the number of images and of the user's calls: no slot is left
\* with a process it has no field for.
THEOREM Typed == Spec => []TypeOK
<1>1. RInv => TypeOK
    BY DEF RInv, DlInv, Core, TypeOK
<1> QED
    BY <1>1, Invariance, PTL

\* onDownloadReply() writes the file its image is named after, unless another
\* download was asked before it came.
THEOREM FilesNotMixedUp == Spec => []OnlyOverlapMixesUp
<1>1. RInv => OnlyOverlapMixesUp
    BY DEF RInv, DlInv
<1> QED
    BY <1>1, Invariance, PTL

\* The dialog that disables everything but cancel() is up exactly while there is
\* a process of DfuFlasher or SwdRecovery to take it down.
THEOREM DialogIsClosed == Spec => []DialogHasProcess
<1>1. RInv => DialogHasProcess
    BY DEF RInv, Core
<1> QED
    BY <1>1, Invariance, PTL

\* A view that shows "downloading" waits for a reply that is still to come, or
\* one of the two it has no handler for.
THEOREM ReplyToCome == Spec => []NoDeafDownload
<1>1. RInv => NoDeafDownload
    BY DEF RInv, DlInv
<1> QED
    BY <1>1, Invariance, PTL

----------------------------------------------------------------------------
\* The action properties.

\* A step of a flash to the inactive bank leaves what boots whole.
LEMMA InactiveFlash ==
    ASSUME Core, FlashWorks, Boots, ~Boots'
    PROVE  flashProc # None /\ flashProc.target # "inactive" /\ claim = "flash"
<1> USE ProcFields, BankFacts, BanksAssumption
<1>1. swapByte \in {0, 1} /\ bank \in [Bank -> Content]
    BY DEF Core, BanksTypeOK
<1>2. CASE FlashClaims \/ FlashVerifies \/ FlashEnds("failed") \/ FlashEnds("crash") \/ FlashFailsToStart
    BY <1>2 DEF FlashClaims, FlashVerifies, FlashEnds, FlashFailsToStart, bankVars, Boots
<1>3. CASE FlashErases \/ FlashWrites
  <2>1. /\ flashProc # None /\ flashProc.at \in {"claimed", "writing"} /\ claim = "flash"
        /\ swapByte' = swapByte /\ \E c : bank' = [bank EXCEPT ![flashProc.to] = c]
    BY <1>3 DEF FlashErases, FlashWrites
  <2>2. flashProc.target = "inactive" => flashProc.to = Other(BootBank(swapByte))
    BY <2>1 DEF Core, FlashState
  <2>3. flashProc.to = Other(BootBank(swapByte)) => Boots'
    BY <1>1, <2>1 DEF Boots
  <2> QED
    BY <2>1, <2>2, <2>3
<1>4. CASE FlashBoots
  <2>1. /\ flashProc # None /\ flashProc.at = "written" /\ ~cli /\ UNCHANGED bank
        /\ swapByte' = swapByte \/ (claim = "flash" /\ swapByte' = SwapByteFor(flashProc.to))
    BY <1>4 DEF FlashBoots
  <2>2. /\ flashProc.to \in Bank /\ bank[flashProc.to] = flashProc.image
        /\ flashProc.image \in Image
    BY <2>1 DEF Core, DfuTypeOK, FlashState, Reads
  <2>3. BootBank(SwapByteFor(flashProc.to)) = flashProc.to
    BY <2>2 DEF BootBank, SwapByteFor, Bank
  <2>4. Boots'
    BY <2>1, <2>2, <2>3 DEF Boots
  <2> QED
    BY <2>4
<1> QED
    BY <1>2, <1>3, <1>4 DEF FlashWorks, FlashTool

\* Whatever boots is whole, and stays it, under a flash to the inactive bank: to
\* lose it takes a flash of a bank by name, a swap, or an SWD script.  The bank
\* that cmdFlash() chose is still the inactive one when it is erased: nothing
\* else writes SWAP_BANK while the claim is held.
THEOREM InactiveFlashIsSafe == Spec => BootBankWhole
<1>1. ASSUME RInv, [Next]_vars, Boots, ~Boots'
      PROVE  \/ flashProc # None /\ flashProc.target # "inactive" /\ claim = "flash"
             \/ claim = "swap"
             \/ swdProc # None
  <2>1. DlTypeOK /\ Core
    BY <1>1 DEF RInv, DlInv
  <2>2. bank' # bank \/ swapByte' # swapByte
    BY <1>1 DEF Boots
  <2>3. CASE FlashWorks
    BY <1>1, <2>1, <2>3, InactiveFlash
  <2>4. CASE SwapWorks
    BY <2>2, <2>4 DEF SwapWorks, SwapTool, SwapClaims, SwapSets, SwapEnds, SwapFailsToStart, bankVars
  <2>5. CASE SwdWorks
    BY <2>5 DEF SwdWorks, SwdTool, Attach, ClearSwap, Toggle, Erase, EraseAll, ProgramFile,
           ProgramDump, DumpBank1, VerifyImage, ScriptDone, ScriptFails, Step, SwdAlive
  <2>6. CASE Downloading \/ SwdCalled \/ SwdHeard \/ DfuCalled \/ DfuListens \/ Cabled \/ Stutters
    BY <2>2, <2>6 DEF Downloading, SwdCalled, DfuCalled, DfuListens, Stutters, bankVars,
           Cabled, EnterDfu, LeaveDfu, SwdHeard, SwdCancel, Detach, OnProcessFinished, SwdFailsToStart
  <2>7. CASE DfuHeard
    BY <2>2, <2>7 DEF DfuHeard, Cancel, OnFlashFinished, bankVars
  <2> QED
    BY <1>1, <2>1, <2>3, <2>4, <2>5, <2>6, <2>7, StepCases
<1>2. RInv /\ [Next]_vars =>
        [Boots /\ ~Boots' =>
           \/ flashProc # None /\ flashProc.target # "inactive" /\ claim = "flash"
           \/ claim = "swap"
           \/ swdProc # None]_vars
    BY <1>1
<1> QED
    BY <1>2, Invariance, PTL DEF Spec, BootBankWhole

\* "Flash complete" is said of a bank that holds the image of the file that was
\* chosen: what onFlashFinished() reads belongs to this flash, and the helper
\* says OK of a bank it has written and verified.
THEOREM FlashCompleteIsEarned == Spec => FlashedAsAsked
<1>1. ASSUME RInv, flashProc # None, FlashSuccess(flashProc.code)
      PROVE  bank[flashProc.to] = flashProc.file \/ overlapped
    BY <1>1 DEF RInv, Core, FlashState, Reads, FlashSuccess
<1>2. RInv =>
        [flashProc # None /\ flashProc' = None /\ FlashSuccess(flashProc.code) =>
           bank[flashProc.to] = flashProc.file \/ overlapped]_vars
    BY <1>1
<1> QED
    BY <1>2, Invariance, PTL DEF FlashedAsAsked

\* "Complete" is said of an SWD operation that did what it is named after, when
\* the exit code is read, not only when it is made: the M1 is not in DFU mode,
\* and no other program has touched its banks.
THEOREM SwdIsEarned == Spec => SwdCompleteIsEarned
<1>1. ASSUME RInv, swdProc # None, SwdSuccess
      PROVE  Achieved
  <2>1. /\ Progress(swdProc) /\ Finished(swdProc)
        /\ swdProc.op \in Op /\ swdProc.st \in BOOLEAN
    BY <1>1, ProcFields DEF RInv, Core, SwdState, SwdTypeOK, SwdSuccess
  <2> QED
    BY <2>1, ScriptSteps DEF Achieved, Progress, Finished
<1>2. RInv => [swdProc # None /\ swdProc' = None /\ SwdSuccess => Achieved]_vars
    BY <1>1
<1> QED
    BY <1>2, Invariance, PTL DEF SwdCompleteIsEarned
=============================================================================
