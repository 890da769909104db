----------------------------- MODULE M1Session -----------------------------
(***************************************************************************)
(* M1Device (src/backend/device/m1_device.cpp): one RPC session with an M1 *)
(* and everything that runs inside it - firmware, ESP32 and file           *)
(* transfers, bank erase and swap, single file commands, upload and mkdir  *)
(* queues, the keepalive - over a FIFO link to the device, which is the    *)
(* serial port or a TCP socket, and changes between the two.               *)
(*                                                                         *)
(* Every action is one slot of the Qt event loop: a call from QML, one     *)
(* received frame, one timer.  The wire carries a sequence number but      *)
(* handleAck() and handleNack() never look at it: a reply goes to whoever  *)
(* is first in a fixed order of claimants.  The field "to" of a reply is   *)
(* history, read by the properties and by no action.                       *)
(***************************************************************************)
EXTENDS Naturals, Integers, Sequences, FiniteSets

CONSTANTS
    Chunks,        \* Chunks[k]: data chunks of the image of transfer k
    MaxFiles,      \* files in one multi-file or folder upload
    MaxDirs,       \* directories in one folder upload
    MissedLimit,   \* pings without PONG before the link is closed (6)
    Ops,           \* the calls QML makes in this instance
    MaxOps,        \* bound: calls made in one behaviour
    MaxInFlight,   \* bound: messages in both channels when a call is made
    LateDialogs,   \* a dialog may be confirmed after the link state changed
    UseWifi,       \* the WiFi transport is used besides the serial one
    PendingLimit,  \* kMaxPendingTx: frames the WiFi worker holds while unconnected (64)
    Quiet,         \* a call is made only when no reply is outstanding
    Lossy,         \* frames may be dropped (CRC error, resynchronisation)
    MayWedge       \* the device may stop answering while the port stays open

Kind == {"fw", "esp", "up"}
FileCmds == {"delete", "rename", "mkdir", "mount", "unmount"}
Cmds == FileCmds \cup {"ping", "loglevel", "misc", "erase", "swap", "reboot"}
AllOps == Cmds \cup Kind \cup {"files", "folder"}

ASSUME ConstantsAssumption ==
    /\ Chunks \in [Kind -> Nat \ {0}]
    /\ MaxFiles \in Nat \ {0} /\ MaxDirs \in Nat \ {0} /\ MissedLimit \in Nat \ {0}
    /\ Ops \subseteq AllOps
    /\ MaxOps \in Nat /\ MaxInFlight \in Nat
    /\ UseWifi \in BOOLEAN /\ PendingLimit \in Nat
    /\ LateDialogs \in BOOLEAN /\ Quiet \in BOOLEAN
    /\ Lossy \in BOOLEAN /\ MayWedge \in BOOLEAN

VARIABLES
    \* the link and the device at its far end
    connected,            \* m_transport->isConnected()
    wifi,                 \* m_transport is the WiFi transport
    idleOpen,             \* the transport that is not m_transport was left open
    dialing,              \* the WiFi worker is connecting its socket
    pendingSessionStart,
    toDev, toHost,        \* frames on their way
    pendingTx,            \* m_pendingTx: frames the WiFi worker sends once connected
    wedged,               \* the device answers nothing until the port is reopened
    received,             \* received[k]: chunks in order since START, -1 before one
    \* m_fwUpdateState, m_espUpdateState, m_fileUploadState with offset and timer
    xfer,
    bankErasePending, bankSwapPending, pendingFileCmd, espUpdateStaleNack,
    \* [len, idx] of m_uploadQueue and m_mkdirQueue; idx = -1: inactive
    uploadQueue, mkdirQueue,
    sdMounted,
    keepaliveSuspended, pingActive, missedPongs,
    idleLong,             \* more than 20 s since the last inbound frame
    closeShots,           \* 500 ms single shots of reboot() and of a bank swap
    opsLeft,              \* calls QML may still make (MaxOps)
    signal                \* what the last step emitted

link == <<connected, wifi, idleOpen, dialing, pendingSessionStart>>
out == <<toDev, pendingTx>>
device == <<wedged, received>>
claims == <<xfer, bankErasePending, bankSwapPending, pendingFileCmd, espUpdateStaleNack>>
queues == <<uploadQueue, mkdirQueue>>
alive == <<keepaliveSuspended, pingActive, missedPongs, idleLong>>
vars == <<link, out, toHost, device, claims, queues, sdMounted, alive,
          closeShots, opsLeft, signal>>

\* ---- Messages

Message == [op : {"start", "data", "finish", "cmd"}, of : Kind \cup Cmds, n : Nat]
Reply == [r : {"ack", "nack", "pong"}, to : Message]

Msg(op, of, n) == [op |-> op, of |-> of, n |-> n]
Cmd(c) == Msg("cmd", c, 0)

\* sendCommand(): a closed port rejects the write, the WiFi worker holds it
\* until its socket is connected.
Send(m) ==
    IF connected
      THEN toDev' = Append(toDev, m) /\ UNCHANGED pendingTx
      ELSE /\ UNCHANGED toDev
           /\ pendingTx' = IF wifi /\ Len(pendingTx) < PendingLimit
                             THEN Append(pendingTx, m) ELSE pendingTx

\* ---- Transfers

Phase == {"Idle", "WaitingStartAck", "SendingData", "WaitingFinishAck"}
Stopped == [st |-> "Idle", off |-> 0, timer |-> FALSE]
Running(phase, n) == [st |-> phase, off |-> n, timer |-> TRUE]
Started == Running("WaitingStartAck", 0)
AllStopped == [k \in Kind |-> Stopped]

AnyActive(x) == \E k \in Kind : x[k].st # "Idle"
Active(k) == xfer[k].st # "Idle"
Busy == AnyActive(xfer) \/ bankErasePending

\* Mutant of Occupied: a pending bank erase is not looked at.
OccupiedForgetsErase(x) == AnyActive(x)

\* The link is held by one transfer at a time: what the guards of uploadFile,
\* startFwUpdate, startEspUpdate and eraseInactiveBank look at.
Occupied(x) == AnyActive(x) \/ bankErasePending

\* ---- Keepalive

\* Mutant of SuspendKeepalive: the ping timer runs on.
SuspendKeepsTimer ==
    /\ keepaliveSuspended' = TRUE
    /\ UNCHANGED pingActive

\* suspendKeepalive()
SuspendKeepalive ==
    IF keepaliveSuspended
      THEN UNCHANGED <<keepaliveSuspended, pingActive>>
      ELSE keepaliveSuspended' = TRUE /\ pingActive' = FALSE

\* Mutant of ResumeKeepaliveIfIdle: the ping timer is not restarted.
ResumeForgetsTimer(x, erase) ==
    /\ keepaliveSuspended' = FALSE
    /\ UNCHANGED pingActive

\* resumeKeepaliveIfIdle(); x, erase: the transfers and m_bankErasePending as the caller leaves them
ResumeKeepaliveIfIdle(x, erase) ==
    IF keepaliveSuspended /\ ~AnyActive(x) /\ ~erase
      THEN keepaliveSuspended' = FALSE /\ pingActive' = (connected \/ pingActive)
      ELSE UNCHANGED <<keepaliveSuspended, pingActive>>

\* ---- Calls from QML

Settled ==
    /\ \A i \in DOMAIN toDev : toDev[i].of = "ping"
    /\ \A i \in DOMAIN toHost : toHost[i].r = "pong"

Call(op) ==
    /\ op \in Ops
    /\ opsLeft > 0 /\ opsLeft' = opsLeft - 1
    /\ Len(toDev) + Len(toHost) < MaxInFlight
    /\ connected \/ LateDialogs
    /\ Quiet => Settled /\ ~Busy

\* The call ends in an error message: the link is occupied or the file is
\* unreadable or not acceptable.
Refused ==
    /\ signal' = "error"
    /\ UNCHANGED <<out, claims, queues, keepaliveSuspended, pingActive>>

Begin(k) ==
    /\ ~Occupied(xfer)
    /\ xfer' = [xfer EXCEPT ![k] = Started]
    /\ SuspendKeepalive
    /\ Send(Msg("start", k, 0))
    /\ signal' = "none"
    /\ UNCHANGED <<queues, bankErasePending, bankSwapPending, pendingFileCmd,
                   espUpdateStaleNack>>

callFrame == <<link, toHost, device, sdMounted, missedPongs, idleLong>>

StartFwUpdate ==
    /\ Call("fw")
    /\ Refused \/ Begin("fw")
    /\ UNCHANGED <<callFrame, closeShots>>

StartEspUpdate ==
    /\ Call("esp")
    /\ Refused \/ Begin("esp")
    /\ UNCHANGED <<callFrame, closeShots>>

\* uploadFile(); x: the transfers as the caller leaves them
UploadFile(x) ==
    \/ /\ xfer' = x
       /\ signal' = "error"
       /\ UNCHANGED <<out, keepaliveSuspended, pingActive>>
    \/ /\ ~Occupied(x)
       /\ xfer' = [x EXCEPT !["up"] = Started]
       /\ SuspendKeepalive
       /\ Send(Msg("start", "up", 0))
       /\ signal' = "none"

UploadOne ==
    /\ Call("up")
    /\ UploadFile(xfer)
    /\ UNCHANGED <<callFrame, closeShots, queues, bankErasePending,
                   bankSwapPending, pendingFileCmd, espUpdateStaleNack>>

NoQueue == [len |-> 0, idx |-> -1]

QueueFree == uploadQueue.idx < 0 /\ ~Active("up")

\* A single file goes through uploadFile(), so a queue holds two at least.
UploadFiles ==
    /\ Call("files")
    /\ \/ ~QueueFree /\ Refused
       \/ /\ QueueFree
          /\ \E n \in 2..MaxFiles : uploadQueue' = [len |-> n, idx |-> 0]
          /\ mkdirQueue' = NoQueue
          /\ UploadFile(xfer)
          /\ UNCHANGED <<bankErasePending, bankSwapPending, pendingFileCmd,
                         espUpdateStaleNack>>
    /\ UNCHANGED <<callFrame, closeShots>>

UploadFolder ==
    /\ Call("folder")
    /\ \/ Refused
       \/ /\ QueueFree
          /\ \E n \in 0..MaxFiles : uploadQueue' = [uploadQueue EXCEPT !.len = n]
          /\ \E d \in 1..MaxDirs : mkdirQueue' = [len |-> d, idx |-> 0]
          /\ pendingFileCmd' = "mkdir"
          /\ Send(Cmd("mkdir"))
          /\ signal' = "none"
          /\ UNCHANGED <<xfer, bankErasePending, bankSwapPending, espUpdateStaleNack,
                         keepaliveSuspended, pingActive>>
    /\ UNCHANGED <<callFrame, closeShots>>

EraseInactiveBank ==
    /\ Call("erase")
    /\ \/ Occupied(xfer) /\ Refused
       \/ /\ ~Occupied(xfer)
          /\ bankErasePending' = TRUE
          /\ SuspendKeepalive
          /\ Send(Cmd("erase"))
          /\ signal' = "none"
          /\ UNCHANGED <<xfer, bankSwapPending, pendingFileCmd, espUpdateStaleNack, queues>>
    /\ UNCHANGED <<callFrame, closeShots>>

SwapBanks ==
    /\ Call("swap")
    /\ bankSwapPending' = TRUE
    /\ Send(Cmd("swap"))
    /\ signal' = "none"
    /\ UNCHANGED <<callFrame, closeShots, queues, keepaliveSuspended, pingActive,
                   xfer, bankErasePending, pendingFileCmd, espUpdateStaleNack>>

\* deleteFile, deleteTree, renameFile, makeDirectory, mountSdCard, unmountSdCard
FileCommand(c) ==
    /\ Call(c)
    /\ pendingFileCmd' = c
    /\ Send(Cmd(c))
    /\ signal' = "none"
    /\ UNCHANGED <<callFrame, closeShots, queues, keepaliveSuspended, pingActive,
                   xfer, bankErasePending, bankSwapPending, espUpdateStaleNack>>

\* Buttons, screen start, stop and capture, log level: acknowledged by the
\* device, and nothing here waits for that.
MiscCommand ==
    /\ Call("misc")
    /\ Send(Cmd("misc"))
    /\ signal' = "none"
    /\ UNCHANGED <<callFrame, closeShots, queues, keepaliveSuspended, pingActive,
                   claims>>

Reboot ==
    /\ Call("reboot")
    /\ Send(Cmd("reboot"))
    /\ closeShots' = closeShots + 1
    /\ signal' = "none"
    /\ UNCHANGED <<callFrame, queues, keepaliveSuspended, pingActive, claims>>

QmlCall ==
    \/ StartFwUpdate \/ StartEspUpdate
    \/ UploadOne \/ UploadFiles \/ UploadFolder
    \/ EraseInactiveBank \/ SwapBanks \/ MiscCommand \/ Reboot
    \/ \E c \in FileCmds : FileCommand(c)

\* ---- The device and the link

NothingReceived == [k \in Kind |-> -1]

\* The device's side of a transfer: how much of the image it has had, in order,
\* since the last START.
Receive(m) ==
    CASE m.op = "start" -> [received EXCEPT ![m.of] = 0]
      [] m.op = "data"  -> [received EXCEPT ![m.of] = IF m.n = @ THEN @ + 1 ELSE -1]
      [] OTHER          -> received

DevAnswer ==
    /\ toDev # <<>> /\ ~wedged
    /\ LET m == Head(toDev) IN
         /\ toDev' = Tail(toDev)
         /\ received' = Receive(m)
         /\ \E r \in IF m.of = "ping" THEN {"pong"} ELSE {"ack", "nack"} :
              toHost' = Append(toHost, [r |-> r, to |-> m])
    /\ signal' = "none"
    /\ UNCHANGED <<link, pendingTx, wedged, claims, queues, sdMounted, alive, closeShots,
                   opsLeft>>

Wedge ==
    /\ MayWedge /\ connected /\ ~wedged
    /\ wedged' = TRUE
    /\ signal' = "none"
    /\ UNCHANGED <<link, out, toHost, received, claims, queues, sdMounted, alive,
                   closeShots, opsLeft>>

LoseFrame ==
    /\ Lossy
    /\ \/ toDev # <<>> /\ toDev' = Tail(toDev) /\ UNCHANGED toHost
       \/ toHost # <<>> /\ toHost' = Tail(toHost) /\ UNCHANGED toDev
    /\ signal' = "none"
    /\ UNCHANGED <<link, pendingTx, device, claims, queues, sdMounted, alive, closeShots,
                   opsLeft>>

\* More than 20 s without an inbound frame.
IdlePasses ==
    /\ connected /\ ~idleLong
    /\ idleLong' = TRUE
    /\ signal' = "none"
    /\ UNCHANGED <<link, out, toHost, device, claims, queues, sdMounted,
                   keepaliveSuspended, pingActive, missedPongs, closeShots, opsLeft>>

FreshLink ==
    /\ toHost' = <<>>
    /\ wedged' = FALSE
    /\ received' = NothingReceived

SessionFrames == <<Cmd("ping"), Cmd("loglevel")>>

\* startSession(); frames: what goes out on the new link
StartSession(frames) ==
    /\ keepaliveSuspended' = FALSE
    /\ missedPongs' = 0
    /\ idleLong' = FALSE
    /\ pingActive' = TRUE
    /\ toDev' = frames

\* Mutant of ResetOnDrop: running transfers survive, as bank erase does.
DropKeepsTransfers ==
    /\ bankSwapPending' = FALSE
    /\ espUpdateStaleNack' = FALSE
    /\ uploadQueue' = NoQueue /\ mkdirQueue' = NoQueue
    /\ sdMounted' = TRUE
    /\ UNCHANGED <<xfer, bankErasePending, pendingFileCmd>>

\* onTransportConnected(false): what a lost link resets.  m_bankErasePending
\* and m_pendingFileCmd are not among it.
ResetOnDrop ==
    /\ xfer' = AllStopped
    /\ bankSwapPending' = FALSE
    /\ espUpdateStaleNack' = FALSE
    /\ uploadQueue' = NoQueue /\ mkdirQueue' = NoQueue
    /\ sdMounted' = TRUE
    /\ UNCHANGED <<bankErasePending, pendingFileCmd>>

LinkLost ==
    /\ connected' = FALSE
    /\ toDev' = <<>>
    /\ FreshLink
    /\ ResetOnDrop
    /\ keepaliveSuspended' = FALSE
    /\ pingActive' = FALSE
    /\ signal' = "connectionChanged"
    /\ UNCHANGED <<wifi, idleOpen, dialing, pendingSessionStart, pendingTx, missedPongs, idleLong>>

\* disconnect(), an unplugged device, a resource error, a closed socket
LinkDrop ==
    /\ connected
    /\ LinkLost
    /\ UNCHANGED <<closeShots, opsLeft>>

IdleLinkCloses ==
    /\ idleOpen
    /\ idleOpen' = FALSE
    /\ signal' = "none"
    /\ UNCHANGED <<connected, wifi, dialing, pendingSessionStart, out, toHost, device, claims,
                   queues, sdMounted, alive, closeShots, opsLeft>>

\* The socket connects although the serial port was taken into use meanwhile:
\* the worker flushes what it held back, and nobody listens to it.
IdleLinkOpens ==
    /\ dialing /\ ~wifi /\ ~idleOpen
    /\ dialing' = FALSE
    /\ idleOpen' = TRUE
    /\ pendingTx' = <<>>
    /\ signal' = "none"
    /\ UNCHANGED <<connected, wifi, pendingSessionStart, toDev, toHost, device, claims, queues,
                   sdMounted, alive, closeShots, opsLeft>>

\* The socket does not connect.  WifiTransport reports an error and no
\* connectionChanged: it never was connected.
DialFails ==
    /\ dialing
    /\ dialing' = FALSE
    /\ signal' = IF wifi THEN "error" ELSE "none"
    /\ UNCHANGED <<connected, wifi, idleOpen, pendingSessionStart, out, toHost, device, claims,
                   queues, sdMounted, alive, closeShots, opsLeft>>

SerialOpen == IF wifi THEN idleOpen ELSE connected

\* connectToDevice(), from the selector, discovery or the reconnect timer.
\* SerialTransport::open() closes a port that is open, which runs the disconnect
\* handling.  A WiFi link in use is left behind as it is: setTransport() only
\* takes its signals away.
ConnectSerial ==
    /\ connected => LateDialogs
    /\ wifi' = FALSE
    /\ idleOpen' = IF wifi THEN connected ELSE idleOpen
    /\ IF SerialOpen THEN ResetOnDrop ELSE UNCHANGED <<claims, queues, sdMounted>>
    /\ FreshLink
    /\ \/ /\ connected' = TRUE
          /\ pendingSessionStart' = FALSE
          /\ StartSession(IF pendingSessionStart THEN SessionFrames \o SessionFrames
                                                 ELSE SessionFrames)
          /\ signal' = "connectionChanged"
       \/ /\ connected' = FALSE
          /\ toDev' = <<>>
          /\ IF SerialOpen THEN keepaliveSuspended' = FALSE /\ pingActive' = FALSE
                           ELSE UNCHANGED <<keepaliveSuspended, pingActive>>
          /\ signal' = "error"
          /\ UNCHANGED <<pendingSessionStart, missedPongs, idleLong>>
    /\ UNCHANGED <<dialing, pendingTx, closeShots, opsLeft>>

\* connectToDeviceWifi(), from the selector or the reconnect timer.  The socket
\* connects later; a serial link in use is left open and gets no disconnect
\* handling.
ConnectWifi ==
    /\ UseWifi
    /\ connected => LateDialogs
    /\ wifi' = TRUE
    /\ dialing' = TRUE
    /\ pendingSessionStart' = TRUE
    /\ IF wifi
         THEN UNCHANGED <<connected, idleOpen, toDev, toHost, device>>
         ELSE /\ connected' = idleOpen
              /\ idleOpen' = connected
              /\ toDev' = <<>>
              /\ FreshLink
    /\ signal' = "none"
    /\ UNCHANGED <<pendingTx, claims, queues, sdMounted, alive, closeShots, opsLeft>>

\* Mutant of WifiUp: the buffer is not cleared after the flush.
WifiUpKeepsBuffer ==
    /\ wifi /\ ~connected /\ dialing
    /\ connected' = TRUE
    /\ dialing' = FALSE
    /\ pendingSessionStart' = FALSE
    /\ FreshLink
    /\ StartSession(pendingTx \o SessionFrames)
    /\ signal' = "connectionChanged"
    /\ UNCHANGED <<pendingTx, wifi, idleOpen, claims, queues, sdMounted, closeShots, opsLeft>>

\* The socket is connected: first what the worker held back, then the session.
WifiUp ==
    /\ wifi /\ ~connected /\ dialing
    /\ connected' = TRUE
    /\ dialing' = FALSE
    /\ pendingSessionStart' = FALSE
    /\ pendingTx' = <<>>
    /\ FreshLink
    /\ StartSession(pendingTx \o SessionFrames)
    /\ signal' = "connectionChanged"
    /\ UNCHANGED <<wifi, idleOpen, claims, queues, sdMounted, closeShots, opsLeft>>

\* ---- Replies

Handled(r) ==
    /\ toHost # <<>>
    /\ Head(toHost).r = r
    /\ toHost' = Tail(toHost)
    /\ idleLong' = FALSE

replyFrame == <<link, device, missedPongs, opsLeft>>

OnPong ==
    /\ Handled("pong")
    /\ missedPongs' = 0
    /\ signal' = "none"
    /\ UNCHANGED <<link, out, device, claims, queues, sdMounted,
                   keepaliveSuspended, pingActive, closeShots, opsLeft>>

\* Who takes an ACK or a NACK, whatever it answers.
Claimant ==
    IF bankErasePending THEN "erase"
    ELSE IF bankSwapPending THEN "swap"
    ELSE IF Active("fw") THEN "fw"
    ELSE IF Active("esp") THEN "esp"
    ELSE IF Active("up") THEN "up"
    ELSE "file"

EraseAcked ==
    /\ Claimant = "erase"
    /\ bankErasePending' = FALSE
    /\ ResumeKeepaliveIfIdle(xfer, FALSE)
    /\ signal' = "bankEraseComplete"
    /\ UNCHANGED <<out, xfer, bankSwapPending, pendingFileCmd, espUpdateStaleNack, queues,
                   sdMounted, closeShots>>

SwapAcked ==
    /\ Claimant = "swap"
    /\ bankSwapPending' = FALSE
    /\ closeShots' = closeShots + 1
    /\ signal' = "bankSwapStarted"
    /\ UNCHANGED <<out, xfer, bankErasePending, pendingFileCmd, espUpdateStaleNack, queues,
                   sdMounted, keepaliveSuspended, pingActive>>

\* Mutant of SendNext: off by one, the last chunk is never sent.
SendNextSkipsLast(k) ==
    LET off == xfer[k].off IN
    IF off + 1 < Chunks[k]
      THEN /\ Send(Msg("data", k, off))
           /\ xfer' = [xfer EXCEPT ![k] = Running("SendingData", off + 1)]
      ELSE /\ Send(Msg("finish", k, Chunks[k]))
           /\ xfer' = [xfer EXCEPT ![k] = Running("WaitingFinishAck", off)]

\* Mutant of SendNext: no deadline for the answer to FINISH.
SendNextForgetsTimer(k) ==
    LET off == xfer[k].off IN
    IF off < Chunks[k]
      THEN /\ Send(Msg("data", k, off))
           /\ xfer' = [xfer EXCEPT ![k] = Running("SendingData", off + 1)]
      ELSE /\ Send(Msg("finish", k, off))
           /\ xfer' = [xfer EXCEPT ![k] =
                        [st |-> "WaitingFinishAck", off |-> off, timer |-> FALSE]]

\* Mutant of SendNext: all remaining chunks at once.
SendNextPipelined(k) ==
    LET off == xfer[k].off IN
    IF off < Chunks[k]
      THEN /\ UNCHANGED pendingTx
           /\ toDev' = toDev \o [i \in 1..Chunks[k] - off |-> Msg("data", k, off + i - 1)]
           /\ xfer' = [xfer EXCEPT ![k] = Running("SendingData", Chunks[k])]
      ELSE /\ Send(Msg("finish", k, off))
           /\ xfer' = [xfer EXCEPT ![k] = Running("WaitingFinishAck", off)]

\* fwUpdateSendNextChunk(), espUpdateSendNextChunk(), fileUploadSendNextChunk()
SendNext(k) ==
    LET off == xfer[k].off IN
    IF off < Chunks[k]
      THEN /\ Send(Msg("data", k, off))
           /\ xfer' = [xfer EXCEPT ![k] = Running("SendingData", off + 1)]
      ELSE /\ Send(Msg("finish", k, off))
           /\ xfer' = [xfer EXCEPT ![k] = Running("WaitingFinishAck", off)]

TransferAcked(k) ==
    /\ Claimant = k
    /\ xfer[k].st \in {"WaitingStartAck", "SendingData"}
    /\ SendNext(k)
    /\ signal' = "none"
    /\ UNCHANGED <<bankErasePending, bankSwapPending, pendingFileCmd, espUpdateStaleNack,
                   queues, sdMounted, keepaliveSuspended, pingActive, closeShots>>

CompletionSignal ==
    [k \in Kind |-> CASE k = "fw"  -> "fwUpdateComplete"
                      [] k = "esp" -> "espUpdateComplete"
                      [] k = "up"  -> "fileUploadComplete"]

Without(k) == [xfer EXCEPT ![k] = Stopped]

TransferComplete(k) ==
    /\ Claimant = k
    /\ xfer[k].st = "WaitingFinishAck"
    /\ k = "up" => uploadQueue.idx < 0
    /\ xfer' = Without(k)
    /\ ResumeKeepaliveIfIdle(Without(k), bankErasePending)
    /\ signal' = CompletionSignal[k]
    /\ UNCHANGED <<out, bankErasePending, bankSwapPending, pendingFileCmd,
                   espUpdateStaleNack, queues, sdMounted, closeShots>>

\* advanceUploadQueue() after the file of this FINISH.  At the end of the queue
\* the keepalive is not resumed.
QueuedUploadComplete ==
    /\ Claimant = "up"
    /\ xfer["up"].st = "WaitingFinishAck"
    /\ uploadQueue.idx >= 0
    /\ IF uploadQueue.idx + 1 >= uploadQueue.len
         THEN /\ uploadQueue' = NoQueue
              /\ xfer' = Without("up")
              /\ signal' = "multiUploadComplete"
              /\ UNCHANGED <<out, keepaliveSuspended, pingActive>>
         ELSE /\ uploadQueue' = [uploadQueue EXCEPT !.idx = @ + 1]
              /\ UploadFile(Without("up"))
    /\ UNCHANGED <<mkdirQueue, bankErasePending, bankSwapPending, pendingFileCmd,
                   espUpdateStaleNack, sdMounted, closeShots>>

AdvanceMkdirQueue ==
    IF mkdirQueue.idx + 1 < mkdirQueue.len
      THEN /\ mkdirQueue' = [mkdirQueue EXCEPT !.idx = @ + 1]
           /\ pendingFileCmd' = "mkdir"
           /\ Send(Cmd("mkdir"))
           /\ signal' = "none"
           /\ UNCHANGED <<uploadQueue, xfer, keepaliveSuspended, pingActive>>
      ELSE /\ mkdirQueue' = NoQueue
           /\ pendingFileCmd' = "none"
           /\ IF uploadQueue.len > 0
                THEN /\ uploadQueue' = [uploadQueue EXCEPT !.idx = 0]
                     /\ UploadFile(xfer)
                ELSE /\ signal' = "multiUploadComplete"
                     /\ UNCHANGED <<uploadQueue, xfer, out, keepaliveSuspended, pingActive>>

FileSignal ==
    [c \in FileCmds \cup {"none"} |->
       CASE c = "delete"  -> "fileDeleteComplete"
         [] c = "rename"  -> "fileRenameComplete"
         [] c = "mkdir"   -> "fileMkdirComplete"
         [] c \in {"mount", "unmount"} -> "sdMountChanged"
         [] OTHER         -> "none"]

FileCmdAcked ==
    /\ Claimant = "file"
    /\ \/ /\ pendingFileCmd = "mkdir" /\ mkdirQueue.idx >= 0
          /\ AdvanceMkdirQueue
          /\ UNCHANGED <<sdMounted, espUpdateStaleNack>>
       \/ /\ ~(pendingFileCmd = "mkdir" /\ mkdirQueue.idx >= 0)
          /\ pendingFileCmd' = "none"
          /\ signal' = FileSignal[pendingFileCmd]
          /\ sdMounted' = CASE pendingFileCmd = "mount"   -> TRUE
                            [] pendingFileCmd = "unmount" -> FALSE
                            [] OTHER -> sdMounted
          /\ espUpdateStaleNack' = (espUpdateStaleNack /\ pendingFileCmd # "none")
          /\ UNCHANGED <<out, xfer, queues, keepaliveSuspended, pingActive>>
    /\ UNCHANGED <<bankErasePending, bankSwapPending, closeShots>>

OnAck ==
    /\ Handled("ack")
    /\ \/ EraseAcked \/ SwapAcked
       \/ \E k \in Kind : TransferAcked(k) \/ TransferComplete(k)
       \/ QueuedUploadComplete
       \/ FileCmdAcked
    /\ UNCHANGED replyFrame

EraseRefused ==
    /\ Claimant = "erase"
    /\ bankErasePending' = FALSE
    /\ ResumeKeepaliveIfIdle(xfer, FALSE)
    /\ signal' = "error"
    /\ UNCHANGED <<xfer, bankSwapPending, pendingFileCmd, espUpdateStaleNack, queues>>

SwapRefused ==
    /\ Claimant = "swap"
    /\ bankSwapPending' = FALSE
    /\ signal' = "error"
    /\ UNCHANGED <<xfer, bankErasePending, pendingFileCmd, espUpdateStaleNack, queues,
                   keepaliveSuspended, pingActive>>

TransferAborted(k) ==
    /\ Claimant = k
    /\ xfer' = Without(k)
    /\ ResumeKeepaliveIfIdle(Without(k), bankErasePending)
    /\ IF k = "up" THEN uploadQueue' = NoQueue /\ mkdirQueue' = NoQueue ELSE UNCHANGED queues
    /\ signal' = "error"
    /\ UNCHANGED <<bankErasePending, bankSwapPending, pendingFileCmd, espUpdateStaleNack>>

StaleNackAbsorbed ==
    /\ Claimant = "file"
    /\ espUpdateStaleNack
    /\ espUpdateStaleNack' = FALSE
    /\ signal' = "none"
    /\ UNCHANGED <<xfer, bankErasePending, bankSwapPending, pendingFileCmd, queues,
                   keepaliveSuspended, pingActive>>

FileCmdRefused ==
    /\ Claimant = "file"
    /\ ~espUpdateStaleNack
    /\ pendingFileCmd' = "none"
    /\ signal' = "error"
    /\ UNCHANGED <<xfer, bankErasePending, bankSwapPending, espUpdateStaleNack, queues,
                   keepaliveSuspended, pingActive>>

OnNack ==
    /\ Handled("nack")
    /\ \/ EraseRefused \/ SwapRefused
       \/ \E k \in Kind : TransferAborted(k)
       \/ StaleNackAbsorbed \/ FileCmdRefused
    /\ UNCHANGED <<replyFrame, out, sdMounted, closeShots>>

\* ---- Timers

timeoutFrame == <<link, toHost, device, bankErasePending, bankSwapPending, pendingFileCmd,
                  queues, sdMounted, missedPongs, idleLong, closeShots, opsLeft>>

TimedOut(k) ==
    /\ xfer[k].timer /\ Active(k)
    /\ xfer' = Without(k)
    /\ ResumeKeepaliveIfIdle(Without(k), bankErasePending)
    /\ signal' = "error"

FwUpdateTimeout ==
    /\ TimedOut("fw")
    /\ UNCHANGED <<out, espUpdateStaleNack, timeoutFrame>>

\* A FINISH (n = 0 marks it) tells the M1 to clean up, and one late reply is to
\* be absorbed.
EspUpdateTimeout ==
    /\ TimedOut("esp")
    /\ Send(Msg("finish", "esp", 0))
    /\ espUpdateStaleNack' = TRUE
    /\ UNCHANGED timeoutFrame

\* The queues keep their indices.
FileUploadTimeout ==
    /\ TimedOut("up")
    /\ UNCHANGED <<out, espUpdateStaleNack, timeoutFrame>>

\* The 3 s ping timer: one more missed PONG, and either the link is closed or
\* the next PING goes out.
PingTick ==
    /\ pingActive /\ connected /\ ~keepaliveSuspended
    /\ \/ /\ missedPongs + 1 >= MissedLimit \/ idleLong
          /\ LinkLost
          /\ UNCHANGED <<closeShots, opsLeft>>
       \/ /\ missedPongs + 1 < MissedLimit /\ ~idleLong
          /\ missedPongs' = missedPongs + 1
          /\ Send(Cmd("ping"))
          /\ signal' = "none"
          /\ UNCHANGED <<link, toHost, device, claims, queues, sdMounted,
                         keepaliveSuspended, pingActive, idleLong, closeShots, opsLeft>>

\* Mutant of CloseShot: not counted as fired only once.
CloseShotUnguarded ==
    /\ closeShots' = closeShots - 1
    /\ connected /\ LinkLost
    /\ UNCHANGED opsLeft

\* The delayed close of reboot() or of a bank swap, whatever is connected then
CloseShot ==
    /\ closeShots > 0
    /\ closeShots' = closeShots - 1
    /\ \/ connected /\ LinkLost
       \/ /\ ~connected
          /\ signal' = "none"
          /\ UNCHANGED <<link, out, toHost, device, claims, queues, sdMounted, alive>>
    /\ UNCHANGED opsLeft

\* ---- Specification

Init ==
    /\ connected = FALSE /\ wifi = FALSE /\ idleOpen = FALSE
    /\ dialing = FALSE /\ pendingSessionStart = FALSE
    /\ toDev = <<>> /\ toHost = <<>> /\ pendingTx = <<>>
    /\ wedged = FALSE
    /\ received = NothingReceived
    /\ xfer = AllStopped
    /\ bankErasePending = FALSE /\ bankSwapPending = FALSE
    /\ pendingFileCmd = "none"
    /\ espUpdateStaleNack = FALSE
    /\ uploadQueue = NoQueue /\ mkdirQueue = NoQueue
    /\ sdMounted = TRUE
    /\ keepaliveSuspended = FALSE /\ pingActive = FALSE
    /\ missedPongs = 0
    /\ idleLong = FALSE
    /\ closeShots = 0
    /\ opsLeft = MaxOps
    /\ signal = "none"

Environment ==
    \/ DevAnswer \/ Wedge \/ LoseFrame \/ IdlePasses
    \/ LinkDrop \/ IdleLinkCloses \/ IdleLinkOpens \/ DialFails
    \/ ConnectSerial \/ ConnectWifi \/ WifiUp

EventLoop ==
    \/ OnPong \/ OnAck \/ OnNack
    \/ FwUpdateTimeout \/ EspUpdateTimeout \/ FileUploadTimeout
    \/ PingTick \/ CloseShot

Next == QmlCall \/ Environment \/ EventLoop

Spec == Init /\ [][Next]_vars

\* Qt delivers received bytes and expired timers.  Nothing is assumed of the
\* device, the link or the user.
Fairness ==
    /\ WF_vars(OnPong \/ OnAck \/ OnNack)
    /\ WF_vars(FwUpdateTimeout) /\ WF_vars(EspUpdateTimeout) /\ WF_vars(FileUploadTimeout)
    /\ WF_vars(PingTick)
    /\ WF_vars(CloseShot)

FairSpec == Spec /\ Fairness

\* ---- Properties

Signals ==
    {"none", "error", "connectionChanged", "bankEraseComplete", "bankSwapStarted",
     "multiUploadComplete", "fwUpdateComplete", "espUpdateComplete", "fileUploadComplete",
     "fileDeleteComplete", "fileRenameComplete", "fileMkdirComplete", "sdMountChanged"}

\* Every variable has its type.
TypeOK ==
    /\ connected \in BOOLEAN /\ wifi \in BOOLEAN /\ idleOpen \in BOOLEAN
    /\ dialing \in BOOLEAN /\ pendingSessionStart \in BOOLEAN /\ wedged \in BOOLEAN
    /\ toDev \in Seq(Message) /\ toHost \in Seq(Reply) /\ pendingTx \in Seq(Message)
    /\ received \in [Kind -> Int]
    /\ xfer \in [Kind -> [st : Phase, off : Nat, timer : BOOLEAN]]
    /\ bankErasePending \in BOOLEAN /\ bankSwapPending \in BOOLEAN
    /\ pendingFileCmd \in FileCmds \cup {"none"}
    /\ espUpdateStaleNack \in BOOLEAN
    /\ uploadQueue \in [len : Nat, idx : Nat \cup {-1}]
    /\ mkdirQueue \in [len : Nat, idx : Nat \cup {-1}]
    /\ sdMounted \in BOOLEAN
    /\ keepaliveSuspended \in BOOLEAN /\ pingActive \in BOOLEAN
    /\ missedPongs \in Nat /\ idleLong \in BOOLEAN
    /\ closeShots \in Nat /\ opsLeft \in Nat
    /\ signal \in Signals

\* At most one of firmware update, ESP32 update, file upload and bank erase is
\* running, through every interleaving of calls, queue advances, timeouts,
\* reconnects and transport switches (the guards of startFwUpdate,
\* startEspUpdate, uploadFile and eraseInactiveBank).
OneTransfer ==
    /\ \A j, k \in Kind : Active(j) /\ Active(k) => j = k
    /\ bankErasePending => ~AnyActive(xfer)

\* A transfer never waits without a deadline: its timeout is running whenever
\* it is not Idle, and never otherwise, also while the link is down.
TransferHasDeadline ==
    \A k \in Kind : xfer[k].timer <=> Active(k)

\* While the keepalive is suspended its timer is off (suspendKeepalive,
\* resumeKeepaliveIfIdle, startSession), so no PING can be sent and no missed
\* PONG can close the link under a transfer.
SuspendedMeansSilent == keepaliveSuspended => ~pingActive

\* Frames are held back only while the socket is not connected, through every
\* change of transport: what was flushed once is not sent again, and what is
\* sent on a connected link is not overtaken by an older frame.
HeldBackOnlyOffline == wifi /\ connected => pendingTx = <<>>

\* The chunk counter and the phase agree: FINISH is asked for only with the
\* whole image handed over.
OffsetsMatchPhase ==
    \A k \in Kind :
        /\ xfer[k].st \in {"Idle", "WaitingStartAck"} => xfer[k].off = 0
        /\ xfer[k].st = "SendingData" => xfer[k].off \in 1..Chunks[k]
        /\ xfer[k].st = "WaitingFinishAck" => xfer[k].off = Chunks[k]

\* Each transfer is one of Transfer.tla: START, every chunk in order, FINISH.
FwTransfer == INSTANCE Transfer WITH
    Size <- Chunks["fw"], Chained <- FALSE, st <- xfer["fw"].st, off <- xfer["fw"].off
EspTransfer == INSTANCE Transfer WITH
    Size <- Chunks["esp"], Chained <- FALSE, st <- xfer["esp"].st, off <- xfer["esp"].off
UpTransfer == INSTANCE Transfer WITH
    Size <- Chunks["up"], Chained <- TRUE, st <- xfer["up"].st, off <- xfer["up"].off

TransfersRefine == FwTransfer!TSpec /\ EspTransfer!TSpec /\ UpTransfer!TSpec

\* When a normal FINISH reaches the device it has had every chunk of the image
\* in order since the last START of this link.
WholeImageAtFinish ==
    toDev # <<>> =>
        LET m == Head(toDev) IN
        m.op = "finish" /\ m.n = Chunks[m.of] => received[m.of] = Chunks[m.of]

\* A transfer is reported complete only when the reply just handled answers the
\* FINISH of that transfer.
CompletionIsEarned ==
    [][\A k \in Kind :
         (\/ signal' = CompletionSignal[k]
          \/ k = "up" /\ Active("up") /\ signal' = "multiUploadComplete")
         => Head(toHost).to = Msg("finish", k, Chunks[k])]_vars

\* The ping timer is off while a transfer runs ("Keep PING traffic out of an
\* exclusive file/firmware transaction"), from the call that starts it through
\* queue advances, aborts and reconnects.  A bank erase is not included: it
\* outlives its link, see EraseCompleteIsEarned.
ExclusiveStream == AnyActive(xfer) => ~pingActive

\* Stop and wait: a running transfer has at most one command of its own
\* unanswered.
StopAndWait ==
    \A k \in Kind : Active(k) =>
        Cardinality({i \in DOMAIN toDev : toDev[i].of = k})
        + Cardinality({i \in DOMAIN toHost : toHost[i].to.of = k}) <= 1

\* A device that stopped answering is noticed: the port is closed, whatever was
\* going on when it stopped.
WedgeRecovered == wedged ~> ~connected

\* Every transfer ends, answered or not.
TransfersEnd == \A k \in Kind : Active(k) ~> ~Active(k)

\* "Bank erase ACK - inactive bank has been wiped": bankEraseComplete is
\* emitted on the answer to the erase.
EraseCompleteIsEarned ==
    [][signal' = "bankEraseComplete" => Head(toHost).to = Cmd("erase")]_vars

\* The health check runs on every connected link that no transfer occupies.
KeepaliveWhileIdle == connected /\ ~Busy => pingActive
=============================================================================
