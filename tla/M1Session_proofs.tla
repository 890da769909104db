-------------------------- MODULE M1Session_proofs --------------------------
(***************************************************************************)
(* Proofs about M1Session for all image sizes, queue lengths, mixes of     *)
(* calls and bounds.                                                       *)
(*                                                                         *)
(* The transfers are changed in many places - calls, replies, timeouts,    *)
(* queue advances, lost links - but in eight ways only.  TransferDelta     *)
(* names them; TransferStep proves that every step is one of them; the     *)
(* theorems about transfers then follow from TransferDelta alone.          *)
(***************************************************************************)
EXTENDS M1Session, TLAPS

Untouched == UNCHANGED <<xfer, bankErasePending>>

EraseEnds == UNCHANGED xfer /\ bankErasePending' = FALSE

EraseStarts ==
    /\ ~Occupied(xfer)
    /\ UNCHANGED xfer
    /\ bankErasePending' = TRUE

Starts(k) ==
    /\ ~Occupied(xfer)
    /\ xfer' = [xfer EXCEPT ![k] = Started]
    /\ UNCHANGED bankErasePending

\* The next file of an upload queue, in the step that ends the previous one.
Chains ==
    /\ Active("up") /\ xfer["up"].st = "WaitingFinishAck"
    /\ ~Occupied(Without("up"))
    /\ xfer' = [Without("up") EXCEPT !["up"] = Started]
    /\ UNCHANGED bankErasePending

Ends(k) ==
    /\ xfer' = Without(k)
    /\ UNCHANGED bankErasePending

Advances(k) ==
    /\ xfer[k].st \in {"WaitingStartAck", "SendingData"}
    /\ xfer' = [xfer EXCEPT ![k] =
                  IF xfer[k].off < Chunks[k]
                    THEN Running("SendingData", xfer[k].off + 1)
                    ELSE Running("WaitingFinishAck", xfer[k].off)]
    /\ UNCHANGED bankErasePending

AllEnd == xfer' = AllStopped /\ UNCHANGED bankErasePending

TransferDelta ==
    \/ Untouched \/ EraseEnds \/ EraseStarts \/ Chains \/ AllEnd
    \/ \E k \in Kind : Starts(k) \/ Ends(k) \/ Advances(k)

\* Every call of QML leaves the transfers alone, starts one or starts an erase.
LEMMA CallStep == QmlCall => TransferDelta
<1> SUFFICES ASSUME QmlCall PROVE TransferDelta
    OBVIOUS
<1> USE DEF TransferDelta, Untouched, Refused, claims, callFrame, Kind
<1>1. CASE StartFwUpdate
    BY <1>1 DEF StartFwUpdate, Begin, Starts
<1>2. CASE StartEspUpdate
    BY <1>2 DEF StartEspUpdate, Begin, Starts
<1>3. CASE UploadOne
    BY <1>3 DEF UploadOne, UploadFile, Starts
<1>4. CASE UploadFiles
    BY <1>4 DEF UploadFiles, UploadFile, Starts
<1>5. CASE UploadFolder
    BY <1>5 DEF UploadFolder
<1>6. CASE EraseInactiveBank
    BY <1>6 DEF EraseInactiveBank, EraseStarts
<1>7. CASE SwapBanks \/ MiscCommand \/ Reboot
    BY <1>7 DEF SwapBanks, MiscCommand, Reboot
<1>8. CASE \E c \in FileCmds : FileCommand(c)
    BY <1>8 DEF FileCommand
<1> QED
    BY <1>1, <1>2, <1>3, <1>4, <1>5, <1>6, <1>7, <1>8 DEF QmlCall

\* The device and the link touch transfers only by taking the link away.
LEMMA EnvironmentStep == Environment => TransferDelta
<1> SUFFICES ASSUME Environment PROVE TransferDelta
    OBVIOUS
<1> USE DEF TransferDelta, Untouched, claims
<1>1. CASE DevAnswer \/ Wedge \/ LoseFrame \/ IdlePasses
    BY <1>1 DEF DevAnswer, Wedge, LoseFrame, IdlePasses
<1>4. CASE IdleLinkCloses \/ IdleLinkOpens \/ DialFails
    BY <1>4 DEF IdleLinkCloses, IdleLinkOpens, DialFails
<1>2. CASE ConnectWifi \/ WifiUp
    BY <1>2 DEF ConnectWifi, WifiUp
<1>3. CASE LinkDrop \/ ConnectSerial
    BY <1>3 DEF LinkDrop, LinkLost, ConnectSerial, ResetOnDrop, AllEnd
<1> QED
    BY <1>1, <1>2, <1>3, <1>4 DEF Environment

\* An ACK ends the erase, advances, ends or chains the transfer that claims it,
\* or starts the first file of a folder upload.
LEMMA AckStep == OnAck => TransferDelta
<1> SUFFICES ASSUME OnAck PROVE TransferDelta
    OBVIOUS
<1> USE DEF TransferDelta, Untouched, Kind
<1>1. CASE EraseAcked
    BY <1>1 DEF EraseAcked, EraseEnds
<1>2. CASE SwapAcked
    BY <1>2 DEF SwapAcked
<1>3. ASSUME NEW k \in Kind, TransferAcked(k)
      PROVE  Advances(k)
    BY <1>3 DEF TransferAcked, SendNext, Advances
<1>4. ASSUME NEW k \in Kind, TransferComplete(k)
      PROVE  Ends(k)
    BY <1>4 DEF TransferComplete, Ends
<1>5. CASE QueuedUploadComplete
    BY <1>5 DEF QueuedUploadComplete, UploadFile, Ends, Chains, Active
<1>6. CASE FileCmdAcked
    BY <1>6 DEF FileCmdAcked, AdvanceMkdirQueue, UploadFile, Starts
<1> QED
    BY <1>1, <1>2, <1>3, <1>4, <1>5, <1>6 DEF OnAck

\* A NACK ends the erase or the transfer that claims it.
LEMMA NackStep == OnNack => TransferDelta
<1> SUFFICES ASSUME OnNack PROVE TransferDelta
    OBVIOUS
<1> USE DEF TransferDelta, Untouched
<1>1. CASE EraseRefused
    BY <1>1 DEF EraseRefused, EraseEnds
<1>2. CASE SwapRefused \/ StaleNackAbsorbed \/ FileCmdRefused
    BY <1>2 DEF SwapRefused, StaleNackAbsorbed, FileCmdRefused
<1>3. ASSUME NEW k \in Kind, TransferAborted(k)
      PROVE  Ends(k)
    BY <1>3 DEF TransferAborted, Ends
<1> QED
    BY <1>1, <1>2, <1>3 DEF OnNack

\* A timer ends its transfer, or all of them with the link.
LEMMA TimerStep ==
    FwUpdateTimeout \/ EspUpdateTimeout \/ FileUploadTimeout \/ PingTick \/ CloseShot
    => TransferDelta
<1> USE DEF TransferDelta, Untouched, claims, Kind
<1>1. FwUpdateTimeout => Ends("fw")
    BY DEF FwUpdateTimeout, TimedOut, timeoutFrame, Ends
<1>2. EspUpdateTimeout => Ends("esp")
    BY DEF EspUpdateTimeout, TimedOut, timeoutFrame, Ends
<1>3. FileUploadTimeout => Ends("up")
    BY DEF FileUploadTimeout, TimedOut, timeoutFrame, Ends
<1>4. PingTick => Untouched \/ AllEnd
    BY DEF PingTick, LinkLost, ResetOnDrop, AllEnd
<1>5. CloseShot => Untouched \/ AllEnd
    BY DEF CloseShot, LinkLost, ResetOnDrop, AllEnd
<1> QED
    BY <1>1, <1>2, <1>3, <1>4, <1>5

\* Every step of the session changes the transfers in one of the eight ways.
LEMMA TransferStep == [Next]_vars => TransferDelta
<1>1. OnPong => Untouched
    BY DEF OnPong, Untouched, claims
<1>2. UNCHANGED vars => Untouched
    BY DEF vars, claims, Untouched
<1> QED
    BY <1>1, <1>2, CallStep, EnvironmentStep, AckStep, NackStep, TimerStep
    DEF Next, EventLoop, TransferDelta

(***************************************************************************)
(* Types                                                                   *)
(***************************************************************************)

TransferTypes ==
    /\ xfer \in [Kind -> [st : Phase, off : Nat, timer : BOOLEAN]]
    /\ bankErasePending \in BOOLEAN

\* What the transfers satisfy in every reachable state: their types, and the
\* three invariants about them.
TransferInv ==
    /\ TransferTypes
    /\ OneTransfer
    /\ TransferHasDeadline
    /\ OffsetsMatchPhase

LEMMA TransferInvInit == Init => TransferInv
<1> SUFFICES ASSUME Init PROVE TransferInv
    OBVIOUS
<1>1. \A k \in Kind : xfer[k] = Stopped
    BY DEF Init, AllStopped
<1>2. xfer \in [Kind -> [st : Phase, off : Nat, timer : BOOLEAN]]
    BY DEF Init, AllStopped, Stopped, Phase
<1>3. TransferTypes
    BY <1>2 DEF Init, TransferTypes
<1>4. OneTransfer
    BY <1>1 DEF OneTransfer, Active, AnyActive, Stopped, Init
<1>5. TransferHasDeadline
    BY <1>1 DEF TransferHasDeadline, Active, Stopped
<1>6. OffsetsMatchPhase
    BY <1>1 DEF OffsetsMatchPhase, Stopped
<1> QED
    BY <1>3, <1>4, <1>5, <1>6 DEF TransferInv

\* Each of the eight ways keeps the invariants of the transfers.
LEMMA TransferInvStep == TransferInv /\ TransferDelta => TransferInv'
<1> SUFFICES ASSUME TransferInv, TransferDelta PROVE TransferInv'
    OBVIOUS
<1> USE ConstantsAssumption
    DEF TransferInv, TransferTypes, OneTransfer, TransferHasDeadline, OffsetsMatchPhase,
        Active, AnyActive, Occupied, Phase, Running, Started, Stopped
<1>1. CASE Untouched
    BY <1>1 DEF Untouched
<1>2. CASE EraseEnds
    BY <1>2 DEF EraseEnds
<1>3. CASE EraseStarts
    BY <1>3 DEF EraseStarts
<1>4. CASE Chains
    BY <1>4 DEF Chains, Without, Kind
<1>5. CASE AllEnd
    BY <1>5 DEF AllEnd, AllStopped
<1>6. ASSUME NEW k \in Kind, Starts(k)
      PROVE  TransferInv'
    BY <1>6 DEF Starts
<1>7. ASSUME NEW k \in Kind, Ends(k)
      PROVE  TransferInv'
    BY <1>7 DEF Ends, Without
<1>8. ASSUME NEW k \in Kind, Advances(k)
      PROVE  TransferInv'
  <2>1. CASE xfer[k].off < Chunks[k]
      BY <1>8, <2>1 DEF Advances
  <2>2. CASE ~(xfer[k].off < Chunks[k])
    <3>1. xfer[k].off = Chunks[k] /\ Chunks[k] \in Nat
        BY <1>8, <2>2 DEF Advances
    <3>2. xfer' = [xfer EXCEPT ![k] = Running("WaitingFinishAck", Chunks[k])]
        BY <1>8, <2>2, <3>1 DEF Advances
    <3> QED
        BY <1>8, <3>1, <3>2 DEF Advances
  <2> QED
      BY <2>1, <2>2
<1> QED
    BY <1>1, <1>2, <1>3, <1>4, <1>5, <1>6, <1>7, <1>8 DEF TransferDelta

\* The invariant holds of the session.
THEOREM TransferInvariant == Spec => []TransferInv
<1>1. TransferInv /\ [Next]_vars => TransferInv'
    BY TransferStep, TransferInvStep
<1> QED
    BY TransferInvInit, <1>1, PTL DEF Spec

\* At most one transfer or bank erase runs.
THEOREM OneTransferHolds == Spec => []OneTransfer
    BY TransferInvariant, PTL DEF TransferInv

\* A transfer that waits has its timer running, and only then.
THEOREM DeadlineHolds == Spec => []TransferHasDeadline
    BY TransferInvariant, PTL DEF TransferInv

\* FINISH is asked for only with the whole image handed over.
THEOREM OffsetsHold == Spec => []OffsetsMatchPhase
    BY TransferInvariant, PTL DEF TransferInv

(***************************************************************************)
(* The remaining types, one group of variables at a time                   *)
(***************************************************************************)

OutTypes == toDev \in Seq(Message) /\ pendingTx \in Seq(Message)

\* What goes out is a message, also from the buffer of the WiFi worker.
LEMMA OutStep == OutTypes /\ TransferTypes /\ [Next]_vars => OutTypes'
<1> SUFFICES ASSUME OutTypes, TransferTypes, [Next]_vars PROVE OutTypes'
    OBVIOUS
<1> USE DEF OutTypes
<1>1. CASE UNCHANGED out
    BY <1>1 DEF out
<1>2. ASSUME NEW m \in Message, Send(m)
      PROVE  OutTypes'
  <2>1. CASE connected
      BY <1>2, <2>1 DEF Send
  <2>2. CASE ~connected
      BY <1>2, <2>2 DEF Send
  <2> QED
      BY <2>1, <2>2
<1>3. \A c \in Cmds : Cmd(c) \in Message
    BY DEF Cmd, Msg, Message
<1>4. \A k \in Kind : \A n \in Nat :
        /\ Msg("start", k, n) \in Message
        /\ Msg("data", k, n) \in Message
        /\ Msg("finish", k, n) \in Message
    BY DEF Msg, Message
<1>5. ASSUME NEW x, UploadFile(x)
      PROVE  OutTypes'
    BY <1>1, <1>2, <1>4, <1>5 DEF UploadFile, Kind
<1>6. CASE QmlCall
  <2>1. CASE StartFwUpdate \/ StartEspUpdate
      BY <1>1, <1>2, <1>4, <2>1 DEF StartFwUpdate, StartEspUpdate, Refused, Begin, Kind
  <2>2. CASE UploadOne \/ UploadFiles
      BY <1>1, <1>5, <2>2 DEF UploadOne, UploadFiles, Refused
  <2>3. CASE UploadFolder
      BY <1>1, <1>2, <1>3, <2>3 DEF UploadFolder, Refused, Cmds, FileCmds
  <2>4. CASE EraseInactiveBank \/ SwapBanks \/ MiscCommand \/ Reboot
      BY <1>1, <1>2, <1>3, <2>4 DEF EraseInactiveBank, SwapBanks, MiscCommand, Reboot, Refused, Cmds
  <2>5. CASE \E c \in FileCmds : FileCommand(c)
      BY <1>2, <1>3, <2>5 DEF FileCommand, Cmds
  <2> QED
      BY <1>6, <2>1, <2>2, <2>3, <2>4, <2>5 DEF QmlCall
<1>7. CASE LinkLost
    BY <1>7 DEF LinkLost
<1>8. SessionFrames \in Seq(Message)
    BY <1>3 DEF SessionFrames, Cmds
<1>9. CASE Environment
  <2>1. CASE toDev # <<>> /\ toDev' = Tail(toDev) /\ UNCHANGED pendingTx
      BY <2>1
  <2>2. CASE Wedge \/ IdlePasses \/ IdleLinkCloses \/ DialFails
      BY <1>1, <2>2 DEF Wedge, IdlePasses, IdleLinkCloses, DialFails
  <2>3. CASE LinkDrop
      BY <1>7, <2>3 DEF LinkDrop
  <2>4. CASE ConnectSerial
    <3>1. toDev' \in {<<>>, SessionFrames, SessionFrames \o SessionFrames}
        BY <2>4 DEF ConnectSerial, StartSession
    <3>2. UNCHANGED pendingTx
        BY <2>4 DEF ConnectSerial
    <3>3. <<>> \in Seq(Message) /\ SessionFrames \o SessionFrames \in Seq(Message)
        BY <1>8
    <3> QED
        BY <1>8, <3>1, <3>2, <3>3
  <2>5. CASE ConnectWifi
    <3>1. toDev' \in {<<>>, toDev} /\ UNCHANGED pendingTx
        BY <2>5 DEF ConnectWifi
    <3>2. <<>> \in Seq(Message)
        OBVIOUS
    <3> QED
        BY <3>1, <3>2
  <2>6. CASE WifiUp
    <3>1. toDev' = pendingTx \o SessionFrames /\ pendingTx' = <<>>
        BY <2>6 DEF WifiUp, StartSession
    <3> QED
        BY <1>8, <3>1
  <2>7. CASE DevAnswer \/ LoseFrame
      BY <1>1, <2>1, <2>7 DEF DevAnswer, LoseFrame, out
  <2>8. CASE IdleLinkOpens
      BY <2>8 DEF IdleLinkOpens
  <2> QED
      BY <1>9, <2>2, <2>3, <2>4, <2>5, <2>6, <2>7, <2>8 DEF Environment
<1>10. CASE OnAck
  <2>1. ASSUME NEW k \in Kind, TransferAcked(k)
        PROVE  OutTypes'
    <3>1. xfer[k].off \in Nat
        BY DEF TransferTypes
    <3> QED
        BY <1>2, <1>4, <2>1, <3>1 DEF TransferAcked, SendNext
  <2>2. CASE QueuedUploadComplete
      BY <1>1, <1>5, <2>2 DEF QueuedUploadComplete
  <2>3. CASE FileCmdAcked
      BY <1>1, <1>2, <1>3, <1>5, <2>3 DEF FileCmdAcked, AdvanceMkdirQueue, Cmds, FileCmds
  <2> QED
      BY <1>1, <1>10, <2>1, <2>2, <2>3 DEF OnAck, EraseAcked, SwapAcked, TransferComplete
<1>11. CASE OnPong \/ OnNack
    BY <1>1, <1>11 DEF OnPong, OnNack
<1>12. CASE FwUpdateTimeout \/ EspUpdateTimeout \/ FileUploadTimeout
    BY <1>1, <1>2, <1>4, <1>12 DEF FwUpdateTimeout, EspUpdateTimeout, FileUploadTimeout, Kind
<1>13. CASE PingTick \/ CloseShot
    BY <1>1, <1>2, <1>3, <1>7, <1>13 DEF PingTick, CloseShot, Cmds
<1> QED
    BY <1>1, <1>6, <1>9, <1>10, <1>11, <1>12, <1>13 DEF Next, EventLoop, vars

DeviceTypes == toHost \in Seq(Reply) /\ wedged \in BOOLEAN /\ received \in [Kind -> Int]

\* The device answers messages with replies and counts chunks.
LEMMA DeviceStep == DeviceTypes /\ OutTypes /\ [Next]_vars => DeviceTypes'
<1> SUFFICES ASSUME DeviceTypes, OutTypes, [Next]_vars PROVE DeviceTypes'
    OBVIOUS
<1> USE DEF DeviceTypes
<1>1. CASE UNCHANGED <<toHost, device>>
    BY <1>1 DEF device
<1>2. CASE FreshLink
  <2>1. NothingReceived \in [Kind -> Int]
      BY DEF NothingReceived
  <2>2. <<>> \in Seq(Reply)
      OBVIOUS
  <2>3. wedged' \in BOOLEAN
      BY <1>2 DEF FreshLink
  <2> QED
      BY <1>2, <2>1, <2>2, <2>3 DEF FreshLink
<1>3. CASE toHost # <<>> /\ toHost' = Tail(toHost) /\ UNCHANGED device
    BY <1>3 DEF device
<1>4. CASE DevAnswer
  <2>1. toDev # <<>> /\ Head(toDev) \in Message
      BY <1>4 DEF DevAnswer, OutTypes
  <2>2. received' \in [Kind -> Int]
    <3> DEFINE m == Head(toDev)
    <3>1. m.of \in Kind => received[m.of] \in Int
        OBVIOUS
    <3>2. CASE m.op = "start" /\ m.of \in Kind
        BY <1>4, <3>2 DEF DevAnswer, Receive
    <3>3. CASE m.op = "data" /\ m.of \in Kind
        BY <1>4, <3>1, <3>3 DEF DevAnswer, Receive
    <3>4. CASE m.op \in {"start", "data"} /\ m.of \notin Kind
        BY <1>4, <3>4 DEF DevAnswer, Receive
    <3>5. CASE m.op \notin {"start", "data"}
        BY <1>4, <3>5 DEF DevAnswer, Receive
    <3> QED
        BY <3>2, <3>3, <3>4, <3>5
  <2>3. toHost' \in Seq(Reply)
      BY <1>4, <2>1 DEF DevAnswer, Reply
  <2> QED
      BY <1>4, <2>2, <2>3 DEF DevAnswer
<1>5. CASE QmlCall
    BY <1>1, <1>5
    DEF QmlCall, StartFwUpdate, StartEspUpdate, UploadOne, UploadFiles, UploadFolder,
        EraseInactiveBank, SwapBanks, FileCommand, MiscCommand, Reboot, callFrame
<1>6. CASE Environment
  <2>1. CASE Wedge
      BY <2>1 DEF Wedge
  <2>2. CASE LoseFrame
      BY <1>1, <1>3, <2>2 DEF LoseFrame
  <2> QED
      BY <1>1, <1>2, <1>4, <1>6, <2>1, <2>2
      DEF Environment, IdlePasses, LinkDrop, LinkLost,
          IdleLinkCloses, IdleLinkOpens, DialFails, ConnectSerial, ConnectWifi,
          WifiUp
<1>7. CASE OnPong \/ OnAck \/ OnNack
    BY <1>3, <1>7 DEF OnPong, OnAck, OnNack, Handled, replyFrame
<1>8. CASE FwUpdateTimeout \/ EspUpdateTimeout \/ FileUploadTimeout
    BY <1>1, <1>8 DEF FwUpdateTimeout, EspUpdateTimeout, FileUploadTimeout, timeoutFrame
<1>9. CASE PingTick \/ CloseShot
    BY <1>1, <1>2, <1>9 DEF PingTick, CloseShot, LinkLost
<1> QED
    BY <1>1, <1>5, <1>6, <1>7, <1>8, <1>9 DEF Next, EventLoop, vars

LinkTypes ==
    /\ connected \in BOOLEAN /\ wifi \in BOOLEAN
    /\ idleOpen \in BOOLEAN /\ dialing \in BOOLEAN /\ pendingSessionStart \in BOOLEAN

LEMMA LinkStep == LinkTypes /\ [Next]_vars => LinkTypes'
<1> SUFFICES ASSUME LinkTypes, [Next]_vars PROVE LinkTypes'
    OBVIOUS
<1> USE DEF LinkTypes
<1>1. CASE UNCHANGED link
    BY <1>1 DEF link
<1>2. CASE LinkLost
    BY <1>2 DEF LinkLost
<1>3. CASE QmlCall
    BY <1>1, <1>3
    DEF QmlCall, StartFwUpdate, StartEspUpdate, UploadOne, UploadFiles, UploadFolder,
        EraseInactiveBank, SwapBanks, FileCommand, MiscCommand, Reboot, callFrame
<1>4. CASE IdleLinkCloses \/ IdleLinkOpens \/ DialFails \/ ConnectSerial \/ ConnectWifi \/ WifiUp
    BY <1>4 DEF IdleLinkCloses, IdleLinkOpens, DialFails, ConnectSerial, ConnectWifi, WifiUp
<1>5. CASE Environment
    BY <1>1, <1>2, <1>4, <1>5
    DEF Environment, DevAnswer, Wedge, LoseFrame, IdlePasses, LinkDrop
<1>6. CASE OnPong \/ OnAck \/ OnNack
    BY <1>1, <1>6 DEF OnPong, OnAck, OnNack, replyFrame
<1>7. CASE FwUpdateTimeout \/ EspUpdateTimeout \/ FileUploadTimeout
    BY <1>1, <1>7 DEF FwUpdateTimeout, EspUpdateTimeout, FileUploadTimeout, timeoutFrame
<1>8. CASE PingTick \/ CloseShot
    BY <1>1, <1>2, <1>8 DEF PingTick, CloseShot
<1> QED
    BY <1>1, <1>3, <1>5, <1>6, <1>7, <1>8 DEF Next, EventLoop, vars

\* The calls change nothing but what they name.
CallDefs ==
    /\ UNCHANGED <<sdMounted, missedPongs, idleLong>>
    /\ opsLeft \in Nat => opsLeft' \in Nat
    /\ UNCHANGED closeShots \/ closeShots' = closeShots + 1

LEMMA CallFrame == QmlCall => CallDefs
    BY DEF CallDefs, QmlCall, StartFwUpdate, StartEspUpdate, UploadOne, UploadFiles,
           UploadFolder, EraseInactiveBank, SwapBanks, FileCommand, MiscCommand, Reboot,
           Call, callFrame

FlagTypes ==
    /\ bankSwapPending \in BOOLEAN /\ espUpdateStaleNack \in BOOLEAN
    /\ sdMounted \in BOOLEAN /\ idleLong \in BOOLEAN
    /\ keepaliveSuspended \in BOOLEAN /\ pingActive \in BOOLEAN

\* The flags stay flags.
LEMMA FlagStep == FlagTypes /\ LinkTypes /\ [Next]_vars => FlagTypes'
<1> SUFFICES ASSUME FlagTypes, LinkTypes, [Next]_vars PROVE FlagTypes'
    OBVIOUS
<1> DEFINE Keepalive == keepaliveSuspended \in BOOLEAN /\ pingActive \in BOOLEAN
           Others == /\ bankSwapPending \in BOOLEAN /\ espUpdateStaleNack \in BOOLEAN
                     /\ sdMounted \in BOOLEAN /\ idleLong \in BOOLEAN
<1>1. Keepalive'
  <2> USE DEF FlagTypes
  <2>1. CASE UNCHANGED <<keepaliveSuspended, pingActive>>
      BY <2>1
  <2>2. CASE SuspendKeepalive
      BY <2>2 DEF SuspendKeepalive
  <2>3. ASSUME NEW x, NEW e, ResumeKeepaliveIfIdle(x, e)
        PROVE  Keepalive'
      BY <2>3 DEF ResumeKeepaliveIfIdle, LinkTypes
  <2>4. CASE LinkLost
      BY <2>4 DEF LinkLost
  <2>5. CASE QmlCall
      BY <2>1, <2>2, <2>5
      DEF QmlCall, StartFwUpdate, StartEspUpdate, UploadOne, UploadFiles, UploadFolder,
          EraseInactiveBank, SwapBanks, FileCommand, MiscCommand, Reboot, Refused, Begin,
          UploadFile
  <2>6. CASE ConnectSerial \/ WifiUp
      BY <2>6 DEF ConnectSerial, WifiUp, StartSession
  <2>7. CASE Environment
      BY <2>1, <2>4, <2>6, <2>7
      DEF Environment, DevAnswer, Wedge, LoseFrame, IdlePasses, LinkDrop,
          IdleLinkCloses, IdleLinkOpens, DialFails,
          ConnectWifi, alive
  <2>8. CASE OnAck
      BY <2>1, <2>2, <2>3, <2>8
      DEF OnAck, EraseAcked, SwapAcked, TransferAcked, TransferComplete, QueuedUploadComplete,
          FileCmdAcked, AdvanceMkdirQueue, UploadFile
  <2>9. CASE OnNack
      BY <2>1, <2>3, <2>9
      DEF OnNack, EraseRefused, SwapRefused, TransferAborted, StaleNackAbsorbed, FileCmdRefused
  <2>10. CASE OnPong \/ FwUpdateTimeout \/ EspUpdateTimeout \/ FileUploadTimeout
      BY <2>1, <2>3, <2>10
      DEF OnPong, FwUpdateTimeout, EspUpdateTimeout, FileUploadTimeout, TimedOut
  <2>11. CASE PingTick \/ CloseShot
      BY <2>1, <2>4, <2>11 DEF PingTick, CloseShot, alive
  <2> QED
      BY <2>1, <2>5, <2>7, <2>8, <2>9, <2>10, <2>11 DEF Next, EventLoop, vars, alive
<1>2. Others'
  <2> USE DEF FlagTypes
  <2>1. CASE UNCHANGED <<bankSwapPending, espUpdateStaleNack, sdMounted, idleLong>>
      BY <2>1
  <2>2. CASE LinkLost
      BY <2>2 DEF LinkLost, ResetOnDrop
  <2>3. CASE QmlCall
      BY <2>3, CallFrame
      DEF CallDefs, QmlCall, StartFwUpdate, StartEspUpdate, UploadOne, UploadFiles,
          UploadFolder, EraseInactiveBank, SwapBanks, FileCommand, MiscCommand, Reboot,
          Refused, Begin, claims
  <2>4. CASE ConnectSerial
      BY <2>4 DEF ConnectSerial, ResetOnDrop, StartSession, claims
  <2>5. CASE WifiUp \/ ConnectWifi \/ IdlePasses
      BY <2>5 DEF WifiUp, ConnectWifi, IdlePasses, StartSession, claims, alive
  <2>6. CASE Environment
      BY <2>1, <2>2, <2>4, <2>5, <2>6
      DEF Environment, DevAnswer, Wedge, LoseFrame, LinkDrop,
          IdleLinkCloses, IdleLinkOpens, DialFails, claims, alive
  <2>7. CASE OnAck
    <3>1. idleLong' = FALSE
        BY <2>7 DEF OnAck, Handled
    <3>2. CASE FileCmdAcked
        BY <3>1, <3>2 DEF FileCmdAcked
    <3> QED
        BY <2>7, <3>1, <3>2
        DEF OnAck, EraseAcked, SwapAcked, TransferAcked, TransferComplete,
            QueuedUploadComplete
  <2>8. CASE OnNack
      BY <2>8
      DEF OnNack, Handled, EraseRefused, SwapRefused, TransferAborted, StaleNackAbsorbed,
          FileCmdRefused
  <2>9. CASE OnPong
      BY <2>9 DEF OnPong, Handled, claims
  <2>10. CASE FwUpdateTimeout \/ EspUpdateTimeout \/ FileUploadTimeout
      BY <2>10 DEF FwUpdateTimeout, EspUpdateTimeout, FileUploadTimeout, timeoutFrame
  <2>11. CASE PingTick \/ CloseShot
      BY <2>1, <2>2, <2>11 DEF PingTick, CloseShot, claims, alive
  <2> QED
      BY <2>1, <2>3, <2>6, <2>7, <2>8, <2>9, <2>10, <2>11 DEF Next, EventLoop, vars, claims, alive
<1> QED
    BY <1>1, <1>2 DEF FlagTypes

QueueTypes ==
    /\ uploadQueue \in [len : Nat, idx : Nat \cup {-1}]
    /\ mkdirQueue \in [len : Nat, idx : Nat \cup {-1}]

\* A queue has a length and an index, -1 when it is inactive.
LEMMA QueueStep == QueueTypes /\ [Next]_vars => QueueTypes'
<1> SUFFICES ASSUME QueueTypes, [Next]_vars PROVE QueueTypes'
    OBVIOUS
<1> USE DEF QueueTypes
<1>1. CASE UNCHANGED queues
    BY <1>1 DEF queues
<1>2. NoQueue \in [len : Nat, idx : Nat \cup {-1}]
    BY DEF NoQueue
<1>3. CASE LinkLost
    BY <1>2, <1>3 DEF LinkLost, ResetOnDrop
<1>4. CASE UploadFiles
  <2>1. \A n \in 2..MaxFiles : [len |-> n, idx |-> 0] \in [len : Nat, idx : Nat \cup {-1}]
      BY ConstantsAssumption
  <2> QED
      BY <1>1, <1>2, <1>4, <2>1 DEF UploadFiles, Refused
<1>5. CASE UploadFolder
  <2>1. \A n \in 0..MaxFiles :
          [uploadQueue EXCEPT !.len = n] \in [len : Nat, idx : Nat \cup {-1}]
      BY ConstantsAssumption
  <2>2. \A d \in 1..MaxDirs : [len |-> d, idx |-> 0] \in [len : Nat, idx : Nat \cup {-1}]
      BY ConstantsAssumption
  <2> QED
      BY <1>1, <1>5, <2>1, <2>2 DEF UploadFolder, Refused
<1>6. CASE QmlCall
    BY <1>1, <1>4, <1>5, <1>6
    DEF QmlCall, StartFwUpdate, StartEspUpdate, UploadOne, EraseInactiveBank, SwapBanks,
        FileCommand, MiscCommand, Reboot, Refused, Begin
<1>7. CASE Environment
    BY <1>1, <1>2, <1>3, <1>7
    DEF Environment, DevAnswer, Wedge, LoseFrame, IdlePasses, LinkDrop,
        IdleLinkCloses, IdleLinkOpens, DialFails,
        ConnectSerial, ConnectWifi, WifiUp, ResetOnDrop, queues
<1>8. ASSUME uploadQueue.idx >= 0
      PROVE  [uploadQueue EXCEPT !.idx = @ + 1] \in [len : Nat, idx : Nat \cup {-1}]
    BY <1>8
<1>9. ASSUME mkdirQueue.idx >= 0
      PROVE  [mkdirQueue EXCEPT !.idx = @ + 1] \in [len : Nat, idx : Nat \cup {-1}]
    BY <1>9
<1>10. [uploadQueue EXCEPT !.idx = 0] \in [len : Nat, idx : Nat \cup {-1}]
    OBVIOUS
<1>11. CASE QueuedUploadComplete
    BY <1>2, <1>8, <1>11 DEF QueuedUploadComplete
<1>12. CASE FileCmdAcked
    BY <1>1, <1>2, <1>9, <1>10, <1>12 DEF FileCmdAcked, AdvanceMkdirQueue
<1>13. CASE OnAck
    BY <1>1, <1>11, <1>12, <1>13
    DEF OnAck, EraseAcked, SwapAcked, TransferAcked, TransferComplete
<1>14. CASE OnNack
    BY <1>1, <1>2, <1>14
    DEF OnNack, EraseRefused, SwapRefused, TransferAborted, StaleNackAbsorbed, FileCmdRefused
<1>15. CASE OnPong \/ FwUpdateTimeout \/ EspUpdateTimeout \/ FileUploadTimeout
    BY <1>1, <1>15
    DEF OnPong, FwUpdateTimeout, EspUpdateTimeout, FileUploadTimeout, timeoutFrame
<1>16. CASE PingTick \/ CloseShot
    BY <1>1, <1>3, <1>16 DEF PingTick, CloseShot
<1> QED
    BY <1>1, <1>6, <1>7, <1>13, <1>14, <1>15, <1>16 DEF Next, EventLoop, vars

CountTypes == missedPongs \in Nat /\ closeShots \in Nat /\ opsLeft \in Nat

\* No counter goes below zero: a delayed close fires once per shot.
LEMMA CountStep == CountTypes /\ [Next]_vars => CountTypes'
<1> SUFFICES ASSUME CountTypes, [Next]_vars PROVE CountTypes'
    OBVIOUS
<1> USE DEF CountTypes
<1>1. CASE UNCHANGED <<missedPongs, closeShots, opsLeft>>
    BY <1>1
<1>2. CASE QmlCall
    BY <1>2, CallFrame DEF CallDefs
<1>3. CASE Environment
    BY <1>1, <1>3
    DEF Environment, DevAnswer, Wedge, LoseFrame, IdlePasses, LinkDrop, LinkLost,
        IdleLinkCloses, IdleLinkOpens, DialFails, ConnectSerial, ConnectWifi, WifiUp,
        StartSession, alive
<1>4. CASE OnPong \/ OnNack
    BY <1>4 DEF OnPong, OnNack, replyFrame
<1>5. CASE OnAck
  <2>1. UNCHANGED <<missedPongs, opsLeft>>
      BY <1>5 DEF OnAck, replyFrame
  <2>2. UNCHANGED closeShots \/ closeShots' = closeShots + 1
      BY <1>5
      DEF OnAck, EraseAcked, SwapAcked, TransferAcked, TransferComplete,
          QueuedUploadComplete, FileCmdAcked
  <2> QED
      BY <2>1, <2>2
<1>6. CASE FwUpdateTimeout \/ EspUpdateTimeout \/ FileUploadTimeout
    BY <1>6 DEF FwUpdateTimeout, EspUpdateTimeout, FileUploadTimeout, timeoutFrame
<1>7. CASE PingTick
  <2>1. UNCHANGED <<closeShots, opsLeft>>
      BY <1>7 DEF PingTick
  <2>2. UNCHANGED missedPongs \/ missedPongs' = missedPongs + 1
      BY <1>7 DEF PingTick, LinkLost
  <2> QED
      BY <2>1, <2>2
<1>8. CASE CloseShot
  <2>1. closeShots > 0 /\ closeShots' = closeShots - 1
      BY <1>8 DEF CloseShot
  <2>2. UNCHANGED <<missedPongs, opsLeft>>
      BY <1>8 DEF CloseShot, LinkLost, alive
  <2> QED
      BY <2>1, <2>2
<1> QED
    BY <1>1, <1>2, <1>3, <1>4, <1>5, <1>6, <1>7, <1>8 DEF Next, EventLoop, vars, alive

NameTypes == pendingFileCmd \in FileCmds \cup {"none"} /\ signal \in Signals

\* What a step emits is one of the signals, and what is pending a file command.
LEMMA NameStep == NameTypes /\ [Next]_vars => NameTypes'
<1> SUFFICES ASSUME NameTypes, [Next]_vars PROVE NameTypes'
    OBVIOUS
<1>1. \A c \in FileCmds \cup {"none"} : FileSignal[c] \in Signals
    BY DEF FileSignal, FileCmds, Signals
<1>2. \A k \in Kind : CompletionSignal[k] \in Signals
    BY DEF CompletionSignal, Kind, Signals
<1>3. {"none", "error", "connectionChanged", "bankEraseComplete", "bankSwapStarted",
       "multiUploadComplete"} \subseteq Signals
    BY DEF Signals
<1>4. "none" \in FileCmds \cup {"none"} /\ "mkdir" \in FileCmds \cup {"none"}
    BY DEF FileCmds
<1>5. signal' \in Signals
  <2> USE <1>1, <1>2, <1>3 DEF NameTypes
  <2>1. CASE QmlCall
      BY <2>1
      DEF QmlCall, StartFwUpdate, StartEspUpdate, UploadOne, UploadFiles, UploadFolder,
          EraseInactiveBank, SwapBanks, FileCommand, MiscCommand, Reboot, Refused, Begin,
          UploadFile
  <2>2. CASE Environment
      BY <2>2
      DEF Environment, DevAnswer, Wedge, LoseFrame, IdlePasses, LinkDrop, LinkLost,
          IdleLinkCloses, IdleLinkOpens, DialFails, ConnectSerial, ConnectWifi, WifiUp
  <2>3. CASE OnAck
      BY <2>3
      DEF OnAck, EraseAcked, SwapAcked, TransferAcked, TransferComplete, QueuedUploadComplete,
          FileCmdAcked, AdvanceMkdirQueue, UploadFile
  <2>4. CASE OnNack
      BY <2>4
      DEF OnNack, EraseRefused, SwapRefused, TransferAborted, StaleNackAbsorbed, FileCmdRefused
  <2>5. CASE OnPong \/ FwUpdateTimeout \/ EspUpdateTimeout \/ FileUploadTimeout
      BY <2>5 DEF OnPong, FwUpdateTimeout, EspUpdateTimeout, FileUploadTimeout, TimedOut
  <2>6. CASE PingTick \/ CloseShot
      BY <2>6 DEF PingTick, CloseShot, LinkLost
  <2> QED
      BY <2>1, <2>2, <2>3, <2>4, <2>5, <2>6 DEF Next, EventLoop, vars
<1>6. pendingFileCmd' \in FileCmds \cup {"none"}
  <2> USE <1>4 DEF NameTypes
  <2>1. CASE UNCHANGED pendingFileCmd
      BY <2>1
  <2>2. CASE QmlCall
      BY <2>2
      DEF QmlCall, StartFwUpdate, StartEspUpdate, UploadOne, UploadFiles, UploadFolder,
          EraseInactiveBank, SwapBanks, FileCommand, MiscCommand, Reboot, Refused, Begin,
          claims
  <2>3. CASE Environment
      BY <2>1, <2>3
      DEF Environment, DevAnswer, Wedge, LoseFrame, IdlePasses, LinkDrop, LinkLost,
          IdleLinkCloses, IdleLinkOpens, DialFails, ConnectSerial, ConnectWifi, WifiUp,
          ResetOnDrop, claims
  <2>4. CASE OnAck
      BY <2>4
      DEF OnAck, EraseAcked, SwapAcked, TransferAcked, TransferComplete, QueuedUploadComplete,
          FileCmdAcked, AdvanceMkdirQueue
  <2>5. CASE OnNack
      BY <2>5
      DEF OnNack, EraseRefused, SwapRefused, TransferAborted, StaleNackAbsorbed, FileCmdRefused
  <2>6. CASE OnPong \/ FwUpdateTimeout \/ EspUpdateTimeout \/ FileUploadTimeout
      BY <2>6 DEF OnPong, FwUpdateTimeout, EspUpdateTimeout, FileUploadTimeout, timeoutFrame, claims
  <2>7. CASE PingTick \/ CloseShot
      BY <2>7 DEF PingTick, CloseShot, LinkLost, ResetOnDrop, claims
  <2> QED
      BY <2>1, <2>2, <2>3, <2>4, <2>5, <2>6, <2>7 DEF Next, EventLoop, vars, claims
<1> QED
    BY <1>5, <1>6 DEF NameTypes

SessionTypes ==
    OutTypes /\ DeviceTypes /\ LinkTypes /\ FlagTypes /\ QueueTypes /\ CountTypes /\ NameTypes

LEMMA TypesInit == Init => SessionTypes
<1> SUFFICES ASSUME Init PROVE SessionTypes
    OBVIOUS
<1>1. <<>> \in Seq(Message) /\ <<>> \in Seq(Reply)
    OBVIOUS
<1>2. NothingReceived \in [Kind -> Int]
    BY DEF NothingReceived
<1>3. DeviceTypes
    BY <1>1, <1>2 DEF Init, DeviceTypes
<1>4. LinkTypes /\ FlagTypes
    BY DEF Init, LinkTypes, FlagTypes
<1>5. QueueTypes
    BY DEF Init, QueueTypes, NoQueue
<1>6. CountTypes /\ NameTypes
    BY ConstantsAssumption DEF Init, CountTypes, NameTypes, Signals
<1>7. OutTypes
    BY <1>1 DEF Init, OutTypes
<1> QED
    BY <1>3, <1>4, <1>5, <1>6, <1>7 DEF SessionTypes

\* Every variable has its type in every reachable state.
THEOREM TypeCorrect == Spec => []TypeOK
<1>1. SessionTypes /\ TransferInv /\ [Next]_vars => SessionTypes'
    BY OutStep, DeviceStep, LinkStep, FlagStep, QueueStep, CountStep, NameStep
    DEF SessionTypes, TransferInv
<1>2. SessionTypes /\ TransferInv => TypeOK
    BY DEF SessionTypes, TransferInv, TransferTypes, OutTypes, DeviceTypes, LinkTypes,
           FlagTypes, QueueTypes, CountTypes, NameTypes, TypeOK
<1> QED
    BY <1>1, <1>2, TypesInit, TransferInvariant, PTL DEF Spec

(***************************************************************************)
(* The three transfers are transfers                                       *)
(***************************************************************************)

\* What one step does to the transfer k: the steps of Transfer.tla, told with
\* the fields of xfer[k].
SlotDelta(k) ==
    LET t == xfer[k]
        u == xfer'[k]
    IN  \/ u.st = t.st /\ u.off = t.off
        \/ /\ t.st = "Idle" \/ (k = "up" /\ t.st = "WaitingFinishAck")
           /\ u.st = "WaitingStartAck" /\ u.off = 0
        \/ /\ t.st \in {"WaitingStartAck", "SendingData"} /\ t.off < Chunks[k]
           /\ u.st = "SendingData" /\ u.off = t.off + 1
        \/ /\ t.st = "SendingData" /\ t.off = Chunks[k]
           /\ u.st = "WaitingFinishAck" /\ u.off = t.off
        \/ t.st # "Idle" /\ u.st = "Idle" /\ u.off = 0

\* A transfer that is stopped when it already was Idle does not move: its offset
\* is 0 there.  FINISH comes from SendingData: an image has one chunk at least.
LEMMA SlotStep ==
    ASSUME TransferInv, TransferDelta, NEW k \in Kind
    PROVE  SlotDelta(k)
<1> USE ConstantsAssumption DEF TransferInv, TransferTypes, OffsetsMatchPhase, SlotDelta
<1>1. CASE Untouched \/ EraseEnds \/ EraseStarts
    BY <1>1 DEF Untouched, EraseEnds, EraseStarts
<1>2. CASE Chains
    BY <1>2 DEF Chains, Without, Running, Started, Kind
<1>3. CASE AllEnd
    BY <1>3 DEF AllEnd, AllStopped, Stopped
<1>4. ASSUME NEW j \in Kind, Starts(j)
      PROVE  SlotDelta(k)
  <2>1. xfer[j].st = "Idle"
      BY <1>4 DEF Starts, Occupied, AnyActive
  <2> QED
      BY <1>4, <2>1 DEF Starts, Running, Started
<1>5. ASSUME NEW j \in Kind, Ends(j)
      PROVE  SlotDelta(k)
    BY <1>5 DEF Ends, Without, Stopped
<1>6. ASSUME NEW j \in Kind, Advances(j)
      PROVE  SlotDelta(k)
  <2>1. CASE xfer[j].off < Chunks[j]
      BY <1>6, <2>1 DEF Advances, Running
  <2>2. CASE ~(xfer[j].off < Chunks[j])
    <3>1. xfer[j].st = "SendingData" /\ xfer[j].off = Chunks[j]
        BY <1>6, <2>2 DEF Advances
    <3> QED
        BY <1>6, <2>2, <3>1 DEF Advances, Running
  <2> QED
      BY <2>1, <2>2
<1> QED
    BY <1>1, <1>2, <1>3, <1>4, <1>5, <1>6 DEF TransferDelta

LEMMA InitRefines == Init => FwTransfer!TInit /\ EspTransfer!TInit /\ UpTransfer!TInit
    BY DEF Init, AllStopped, Stopped, Kind, FwTransfer!TInit, EspTransfer!TInit, UpTransfer!TInit

LEMMA FwStepRefines ==
    TransferInv /\ TransferDelta => [FwTransfer!TNext]_(FwTransfer!tvars)
<1> SUFFICES ASSUME TransferInv, TransferDelta
             PROVE  [FwTransfer!TNext]_(FwTransfer!tvars)
    OBVIOUS
<1>1. SlotDelta("fw")
    BY SlotStep DEF Kind
<1> QED
    BY <1>1 DEF SlotDelta, FwTransfer!TNext, FwTransfer!tvars, FwTransfer!Begin,
                FwTransfer!Chunk, FwTransfer!Finish, FwTransfer!End

LEMMA EspStepRefines ==
    TransferInv /\ TransferDelta => [EspTransfer!TNext]_(EspTransfer!tvars)
<1> SUFFICES ASSUME TransferInv, TransferDelta
             PROVE  [EspTransfer!TNext]_(EspTransfer!tvars)
    OBVIOUS
<1>1. SlotDelta("esp")
    BY SlotStep DEF Kind
<1> QED
    BY <1>1 DEF SlotDelta, EspTransfer!TNext, EspTransfer!tvars, EspTransfer!Begin,
                EspTransfer!Chunk, EspTransfer!Finish, EspTransfer!End

LEMMA UpStepRefines ==
    TransferInv /\ TransferDelta => [UpTransfer!TNext]_(UpTransfer!tvars)
<1> SUFFICES ASSUME TransferInv, TransferDelta
             PROVE  [UpTransfer!TNext]_(UpTransfer!tvars)
    OBVIOUS
<1>1. SlotDelta("up")
    BY SlotStep DEF Kind
<1> QED
    BY <1>1 DEF SlotDelta, UpTransfer!TNext, UpTransfer!tvars, UpTransfer!Begin,
                UpTransfer!Chunk, UpTransfer!Finish, UpTransfer!End

\* Firmware update, ESP32 update and file upload implement Transfer.tla, for
\* every image size and every mix of calls, losses, timeouts and reconnects.
THEOREM TransfersImplement == Spec => TransfersRefine
<1>1. TransferInv /\ [Next]_vars =>
        /\ [FwTransfer!TNext]_(FwTransfer!tvars)
        /\ [EspTransfer!TNext]_(EspTransfer!tvars)
        /\ [UpTransfer!TNext]_(UpTransfer!tvars)
    BY TransferStep, FwStepRefines, EspStepRefines, UpStepRefines
<1> QED
    BY <1>1, InitRefines, TransferInvariant, PTL
    DEF Spec, TransfersRefine, FwTransfer!TSpec, EspTransfer!TSpec, UpTransfer!TSpec

(***************************************************************************)
(* Keepalive                                                               *)
(***************************************************************************)

\* A suspended keepalive has its timer off: one step per group of actions, since
\* only suspendKeepalive(), resumeKeepaliveIfIdle(), startSession() and a lost
\* link write the two flags.
LEMMA SilentStep == SuspendedMeansSilent /\ [Next]_vars => SuspendedMeansSilent'
<1> SUFFICES ASSUME SuspendedMeansSilent, [Next]_vars PROVE SuspendedMeansSilent'
    OBVIOUS
<1> USE DEF SuspendedMeansSilent, alive
<1>1. CASE UNCHANGED <<keepaliveSuspended, pingActive>>
    BY <1>1
<1>2. CASE SuspendKeepalive
    BY <1>2 DEF SuspendKeepalive
<1>3. ASSUME NEW x, NEW e, ResumeKeepaliveIfIdle(x, e)
      PROVE  SuspendedMeansSilent'
    BY <1>3 DEF ResumeKeepaliveIfIdle
<1>4. CASE keepaliveSuspended' = FALSE
    BY <1>4
<1>5. CASE QmlCall
    BY <1>1, <1>2, <1>5
    DEF QmlCall, StartFwUpdate, StartEspUpdate, UploadOne, UploadFiles, UploadFolder,
        EraseInactiveBank, SwapBanks, FileCommand, MiscCommand, Reboot, Refused, Begin, UploadFile
<1>6. CASE Environment
    BY <1>1, <1>4, <1>6
    DEF Environment, DevAnswer, Wedge, LoseFrame, IdlePasses, LinkDrop, LinkLost,
        IdleLinkCloses, IdleLinkOpens, DialFails,
        ConnectSerial, ConnectWifi, WifiUp, StartSession
<1>7. CASE OnAck
    BY <1>1, <1>2, <1>3, <1>7
    DEF OnAck, EraseAcked, SwapAcked, TransferAcked, TransferComplete, QueuedUploadComplete,
        FileCmdAcked, AdvanceMkdirQueue, UploadFile
<1>8. CASE OnNack
    BY <1>1, <1>3, <1>8
    DEF OnNack, EraseRefused, SwapRefused, TransferAborted, StaleNackAbsorbed, FileCmdRefused
<1>9. CASE OnPong \/ FwUpdateTimeout \/ EspUpdateTimeout \/ FileUploadTimeout
    BY <1>1, <1>3, <1>9
    DEF OnPong, FwUpdateTimeout, EspUpdateTimeout, FileUploadTimeout, TimedOut
<1>10. CASE PingTick \/ CloseShot
    BY <1>1, <1>4, <1>10 DEF PingTick, CloseShot, LinkLost
<1> QED
    BY <1>1, <1>5, <1>6, <1>7, <1>8, <1>9, <1>10 DEF Next, EventLoop, vars

\* No PING leaves and no missed PONG counts while the keepalive is suspended.
THEOREM SilentHolds == Spec => []SuspendedMeansSilent
<1>1. Init => SuspendedMeansSilent
    BY DEF Init, SuspendedMeansSilent
<1> QED
    BY <1>1, SilentStep, PTL DEF Spec

(***************************************************************************)
(* The exclusive stream                                                    *)
(***************************************************************************)

\* Nothing is on its way while the link is down.
OfflineSilent == ~connected => toDev = <<>> /\ toHost = <<>>

LEMMA OfflineStep == OfflineSilent /\ [Next]_vars => OfflineSilent'
<1> SUFFICES ASSUME OfflineSilent, [Next]_vars PROVE OfflineSilent'
    OBVIOUS
<1> USE DEF OfflineSilent, link, out
<1>1. CASE UNCHANGED <<connected, toDev, toHost>>
    BY <1>1
<1>2. ASSUME NEW m, Send(m), UNCHANGED <<connected, toHost>>
      PROVE  OfflineSilent'
    BY <1>2 DEF Send
<1>3. CASE QmlCall
    BY <1>1, <1>2, <1>3
    DEF QmlCall, StartFwUpdate, StartEspUpdate, UploadOne, UploadFiles, UploadFolder,
        EraseInactiveBank, SwapBanks, FileCommand, MiscCommand, Reboot, Refused, Begin, UploadFile,
        callFrame
<1>4. CASE LinkLost
    BY <1>4 DEF LinkLost, FreshLink
<1>5. CASE Environment
    BY <1>1, <1>4, <1>5
    DEF Environment, DevAnswer, Wedge, LoseFrame, IdlePasses, LinkDrop,
        IdleLinkCloses, IdleLinkOpens, DialFails,
        ConnectSerial, ConnectWifi, WifiUp, FreshLink, link
<1>6. CASE OnPong \/ OnAck \/ OnNack
  <2>1. connected
      BY <1>6 DEF OnPong, OnAck, OnNack, Handled
  <2> QED
      BY <1>6, <2>1 DEF OnPong, OnAck, OnNack, replyFrame
<1>7. CASE FwUpdateTimeout \/ EspUpdateTimeout \/ FileUploadTimeout
    BY <1>1, <1>2, <1>7
    DEF FwUpdateTimeout, EspUpdateTimeout, FileUploadTimeout, timeoutFrame
<1>8. CASE PingTick \/ CloseShot
    BY <1>1, <1>2, <1>4, <1>8 DEF PingTick, CloseShot
<1> QED
    BY <1>1, <1>3, <1>5, <1>6, <1>7, <1>8 DEF Next, EventLoop, vars

\* A running transfer has a link, and the keepalive suspended on it.
RunsSuspended == AnyActive(xfer) => connected /\ keepaliveSuspended

LEMMA RunsSuspendedStep ==
    ASSUME ~LateDialogs
    PROVE  OfflineSilent /\ RunsSuspended /\ [Next]_vars => RunsSuspended'
<1> SUFFICES ASSUME OfflineSilent, RunsSuspended, [Next]_vars PROVE RunsSuspended'
    OBVIOUS
<1> USE DEF RunsSuspended, link
<1>1. CASE UNCHANGED <<connected, xfer, keepaliveSuspended>>
    BY <1>1 DEF AnyActive
<1>2. ASSUME connected, connected' = connected, SuspendKeepalive
      PROVE  RunsSuspended'
    BY <1>2 DEF SuspendKeepalive
<1>3. ASSUME NEW e, UNCHANGED <<connected, xfer>>, ResumeKeepaliveIfIdle(xfer, e)
      PROVE  RunsSuspended'
    BY <1>3 DEF ResumeKeepaliveIfIdle, AnyActive
<1>4. ASSUME NEW k \in Kind, NEW e, UNCHANGED connected,
             xfer' = Without(k), ResumeKeepaliveIfIdle(Without(k), e)
      PROVE  RunsSuspended'
  <2>1. AnyActive(Without(k)) => AnyActive(xfer)
      BY DEF AnyActive, Without, Stopped
  <2>2. AnyActive(xfer)' => AnyActive(Without(k))
      BY <1>4 DEF AnyActive
  <2> QED
      BY <1>4, <2>1, <2>2 DEF ResumeKeepaliveIfIdle
<1>5. CASE LinkLost
    BY <1>5 DEF LinkLost, ResetOnDrop, AllStopped, Stopped, AnyActive
<1>6. CASE QmlCall
  <2>1. connected /\ connected' = connected
      BY <1>6
      DEF QmlCall, StartFwUpdate, StartEspUpdate, UploadOne, UploadFiles, UploadFolder,
          EraseInactiveBank, SwapBanks, FileCommand, MiscCommand, Reboot, Call, callFrame
  <2> QED
      BY <1>1, <1>2, <1>6, <2>1
      DEF QmlCall, StartFwUpdate, StartEspUpdate, UploadOne, UploadFiles, UploadFolder,
          EraseInactiveBank, SwapBanks, FileCommand, MiscCommand, Reboot, Refused, Begin,
          UploadFile, claims
<1>7. CASE Environment
  <2>1. CASE ConnectSerial \/ ConnectWifi \/ WifiUp
    <3>1. ~AnyActive(xfer)
        BY <2>1 DEF ConnectSerial, ConnectWifi, WifiUp
    <3>2. UNCHANGED xfer \/ xfer' = AllStopped
        BY <2>1 DEF ConnectSerial, ConnectWifi, WifiUp, ResetOnDrop, claims
    <3> QED
        BY <3>1, <3>2 DEF AnyActive, AllStopped, Stopped
  <2> QED
      BY <1>1, <1>5, <1>7, <2>1
      DEF Environment, DevAnswer, Wedge, LoseFrame, IdlePasses, LinkDrop,
          IdleLinkCloses, IdleLinkOpens, DialFails,
          link, claims, alive
<1>8. ASSUME NEW k \in Kind, UNCHANGED <<connected, keepaliveSuspended>>, xfer' = Without(k)
      PROVE  RunsSuspended'
    BY <1>8 DEF AnyActive, Without, Stopped
<1>9. CASE OnAck
  <2>1. connected /\ connected' = connected
      BY <1>9 DEF OnAck, Handled, OfflineSilent, replyFrame
  <2>2. CASE EraseAcked
      BY <1>3, <2>1, <2>2 DEF EraseAcked
  <2>3. CASE SwapAcked
      BY <1>1, <2>1, <2>3 DEF SwapAcked
  <2>4. ASSUME NEW k \in Kind, TransferAcked(k)
        PROVE  RunsSuspended'
    <3>1. AnyActive(xfer)
        BY <2>4 DEF TransferAcked, AnyActive
    <3> QED
        BY <2>1, <2>4, <3>1 DEF TransferAcked
  <2>5. ASSUME NEW k \in Kind, TransferComplete(k)
        PROVE  RunsSuspended'
      BY <1>4, <2>1, <2>5 DEF TransferComplete
  <2>6. CASE QueuedUploadComplete
      BY <1>2, <1>8, <2>1, <2>6 DEF QueuedUploadComplete, UploadFile, Kind
  <2>7. CASE FileCmdAcked
      BY <1>1, <1>2, <2>1, <2>7 DEF FileCmdAcked, AdvanceMkdirQueue, UploadFile
  <2> QED
      BY <1>9, <2>2, <2>3, <2>4, <2>5, <2>6, <2>7 DEF OnAck
<1>10. CASE OnNack
  <2>1. connected' = connected
      BY <1>10 DEF OnNack, replyFrame
  <2>2. CASE EraseRefused
      BY <1>3, <2>1, <2>2 DEF EraseRefused
  <2>3. CASE SwapRefused \/ StaleNackAbsorbed \/ FileCmdRefused
      BY <1>1, <2>1, <2>3 DEF SwapRefused, StaleNackAbsorbed, FileCmdRefused
  <2>4. ASSUME NEW k \in Kind, TransferAborted(k)
        PROVE  RunsSuspended'
      BY <1>4, <2>1, <2>4 DEF TransferAborted
  <2> QED
      BY <1>10, <2>2, <2>3, <2>4 DEF OnNack
<1>11. ASSUME NEW k \in Kind, TimedOut(k), UNCHANGED timeoutFrame
       PROVE  RunsSuspended'
    BY <1>4, <1>11 DEF TimedOut, timeoutFrame
<1>12. CASE FwUpdateTimeout \/ EspUpdateTimeout \/ FileUploadTimeout
    BY <1>11, <1>12 DEF FwUpdateTimeout, EspUpdateTimeout, FileUploadTimeout, timeoutFrame, Kind
<1>13. CASE OnPong \/ PingTick \/ CloseShot
    BY <1>1, <1>5, <1>13 DEF OnPong, PingTick, CloseShot, claims, alive
<1> QED
    BY <1>1, <1>6, <1>7, <1>9, <1>10, <1>12, <1>13 DEF Next, EventLoop, vars, claims, alive

\* As long as no dialog is confirmed after its link went away, no PING timer
\* runs beside a transfer, whatever calls, losses, timeouts, queue advances and
\* reconnects do.
THEOREM ExclusiveStreamHolds ==
    ASSUME ~LateDialogs
    PROVE  Spec => []ExclusiveStream
<1>1. Init => OfflineSilent /\ RunsSuspended
    BY DEF Init, OfflineSilent, RunsSuspended, AllStopped, Stopped, AnyActive
<1>2. OfflineSilent /\ RunsSuspended /\ [Next]_vars => OfflineSilent' /\ RunsSuspended'
    BY OfflineStep, RunsSuspendedStep
<1>3. RunsSuspended /\ SuspendedMeansSilent => ExclusiveStream
    BY DEF RunsSuspended, SuspendedMeansSilent, ExclusiveStream
<1> QED
    BY <1>1, <1>2, <1>3, SilentHolds, PTL DEF Spec

(***************************************************************************)
(* The buffer of the WiFi worker                                           *)
(***************************************************************************)

\* The socket may be open without being in use: it was left behind for the
\* serial port.  Then too it holds nothing back, or coming back to it would
\* find a connected socket with old frames.
SocketHoldsNothing == (IF wifi THEN connected ELSE idleOpen) => pendingTx = <<>>

LEMMA SocketStep == SocketHoldsNothing /\ [Next]_vars => SocketHoldsNothing'
<1> SUFFICES ASSUME SocketHoldsNothing, [Next]_vars PROVE SocketHoldsNothing'
    OBVIOUS
<1> USE DEF SocketHoldsNothing
<1>1. CASE UNCHANGED link /\ UNCHANGED out
    BY <1>1 DEF link, out
<1>2. ASSUME NEW m, Send(m), UNCHANGED link
      PROVE  SocketHoldsNothing'
    BY <1>2 DEF Send, link
<1>3. CASE LinkLost
    BY <1>3 DEF LinkLost
<1>4. CASE QmlCall
  <2>1. UNCHANGED link
      BY <1>4
      DEF QmlCall, StartFwUpdate, StartEspUpdate, UploadOne, UploadFiles, UploadFolder,
          EraseInactiveBank, SwapBanks, FileCommand, MiscCommand, Reboot, callFrame
  <2>2. UNCHANGED out \/ \E m : Send(m)
      BY <1>4
      DEF QmlCall, StartFwUpdate, StartEspUpdate, UploadOne, UploadFiles, UploadFolder,
          EraseInactiveBank, SwapBanks, FileCommand, MiscCommand, Reboot, Refused, Begin,
          UploadFile
  <2> QED
      BY <1>1, <1>2, <2>1, <2>2
<1>5. CASE DevAnswer \/ LoseFrame
    BY <1>5 DEF DevAnswer, LoseFrame, link
<1>6. CASE Wedge \/ IdlePasses
    BY <1>1, <1>6 DEF Wedge, IdlePasses
<1>7. CASE IdleLinkCloses \/ IdleLinkOpens \/ DialFails
    BY <1>7 DEF IdleLinkCloses, IdleLinkOpens, DialFails, out
<1>8. CASE ConnectSerial
    BY <1>8 DEF ConnectSerial
<1>9. CASE ConnectWifi
    BY <1>9 DEF ConnectWifi
<1>10. CASE WifiUp
    BY <1>10 DEF WifiUp
<1>11. CASE Environment
    BY <1>3, <1>5, <1>6, <1>7, <1>8, <1>9, <1>10, <1>11 DEF Environment, LinkDrop
<1>12. CASE OnAck
  <2>1. UNCHANGED link
      BY <1>12 DEF OnAck, replyFrame
  <2>2. UNCHANGED out \/ \E m : Send(m)
      BY <1>12
      DEF OnAck, EraseAcked, SwapAcked, TransferAcked, SendNext, TransferComplete,
          QueuedUploadComplete, FileCmdAcked, AdvanceMkdirQueue, UploadFile
  <2> QED
      BY <1>1, <1>2, <2>1, <2>2
<1>13. CASE OnPong \/ OnNack
    BY <1>1, <1>13 DEF OnPong, OnNack, replyFrame
<1>14. CASE FwUpdateTimeout \/ EspUpdateTimeout \/ FileUploadTimeout
    BY <1>1, <1>2, <1>14
    DEF FwUpdateTimeout, EspUpdateTimeout, FileUploadTimeout, timeoutFrame
<1>15. CASE PingTick \/ CloseShot
    BY <1>1, <1>2, <1>3, <1>15 DEF PingTick, CloseShot
<1> QED
    BY <1>1, <1>4, <1>11, <1>12, <1>13, <1>14, <1>15 DEF Next, EventLoop, vars

\* No frame of the reconnect gap is left behind on a connected socket, whatever
\* switches of transport come between.
THEOREM HeldBackHolds == Spec => []HeldBackOnlyOffline
<1>1. Init => SocketHoldsNothing
    BY DEF Init, SocketHoldsNothing
<1>2. SocketHoldsNothing => HeldBackOnlyOffline
    BY DEF SocketHoldsNothing, HeldBackOnlyOffline
<1> QED
    BY <1>1, <1>2, SocketStep, PTL DEF Spec
=============================================================================
