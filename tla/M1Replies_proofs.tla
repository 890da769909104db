--------------------------- MODULE M1Replies_proofs ---------------------------
(***************************************************************************)
(* Who an ACK is for: proofs about M1Session when calls are made one after *)
(* another.                                                                *)
(*                                                                         *)
(* handleAck() and handleNack() give a reply to whoever is first in a      *)
(* fixed order of claimants, so what a reply is taken for is what it       *)
(* answers only if nothing else can be on its way.  One rule of use gives  *)
(* that: a call is made on a connected link, when no reply is outstanding  *)
(* and the link is not occupied, and no folder is uploaded.  Frames may    *)
(* still be lost, the device may stop answering, timers may fire, and      *)
(* links may drop, change transport and come back at any point.            *)
(*                                                                         *)
(* The frames and the transfers change together in the few ways that       *)
(* WireDelta names; WireStep proves that every step is one of them, and    *)
(* WireInvStep that each of them keeps what a reply is worth.              *)
(***************************************************************************)
EXTENDS M1Session_proofs, FiniteSetTheorems

OneAtATime == Quiet /\ ~LateDialogs /\ "folder" \notin Ops

(***************************************************************************)
(* The inductive invariant                                                 *)
(***************************************************************************)

\* The command a running transfer waits for the answer of.
LastSent(k) ==
    IF xfer[k].st = "WaitingStartAck" THEN Msg("start", k, 0)
    ELSE IF xfer[k].st = "SendingData" THEN Msg("data", k, xfer[k].off - 1)
    ELSE Msg("finish", k, xfer[k].off)

\* What is on its way beside PING and PONG.
Asked == {i \in DOMAIN toDev : toDev[i].of # "ping"}
Answered == {i \in DOMAIN toHost : toHost[i].r # "pong"}

\* The device answers a PING with a PONG, and nothing else with one.
PongsAnswerPings ==
    \A i \in DOMAIN toHost : toHost[i].r = "pong" <=> toHost[i].to.of = "ping"

\* The frames of a transfer are of its kind, all others of none.
FramesOfKinds ==
    \A i \in DOMAIN toDev : toDev[i].op = "cmd" <=> toDev[i].of \notin Kind

\* While a transfer runs, one command or its answer is on its way, or none.
OneOutstanding ==
    AnyActive(xfer) =>
        /\ \A i, j \in Asked : i = j
        /\ \A i, j \in Answered : i = j
        /\ Asked = {} \/ Answered = {}

\* It is the one the transfer waits for, and the device has counted exactly the
\* chunks before it - with it, once it is answered.
InStep ==
    \A k \in Kind : Active(k) =>
        /\ \A i \in Asked :
             /\ toDev[i] = LastSent(k)
             /\ xfer[k].st # "WaitingStartAck" => received[k] = toDev[i].n
        /\ \A i \in Answered :
             toHost[i].to = LastSent(k) /\ received[k] = xfer[k].off

\* A FINISH on its way, also that of a transfer that timed out meanwhile, finds
\* the whole image, and no other frame of its kind goes before it.
FinishLast ==
    \A i \in DOMAIN toDev :
        toDev[i].op = "finish" /\ toDev[i].n = Chunks[toDev[i].of] =>
            /\ received[toDev[i].of] = Chunks[toDev[i].of]
            /\ \A j \in DOMAIN toDev : toDev[j].of = toDev[i].of => toDev[j].op = "finish"

WireInv == PongsAnswerPings /\ FramesOfKinds /\ OneOutstanding /\ InStep /\ FinishLast

\* Only a dialog confirmed too late writes into the buffer of the WiFi worker.
NothingHeldBack == pendingTx = <<>>

\* Without folder uploads no MKDIR is ever queued.
NoFolders == mkdirQueue.idx < 0

(***************************************************************************)
(* The ways in which frames and transfers change                           *)
(***************************************************************************)

Still == UNCHANGED <<toDev, toHost, received, xfer>>

Pings ==
    /\ toDev' = Append(toDev, Cmd("ping"))
    /\ UNCHANGED <<toHost, received, xfer>>

Commands ==
    /\ ~AnyActive(xfer)
    /\ \E c \in Cmds : toDev' = Append(toDev, Cmd(c))
    /\ UNCHANGED <<toHost, received, xfer>>

Opens(k) ==
    /\ Settled /\ ~AnyActive(xfer)
    /\ xfer' = [xfer EXCEPT ![k] = Started]
    /\ toDev' = Append(toDev, Msg("start", k, 0))
    /\ UNCHANGED <<toHost, received>>

Answers ==
    /\ toDev # <<>>
    /\ toDev' = Tail(toDev)
    /\ received' = Receive(Head(toDev))
    /\ \E r \in IF Head(toDev).of = "ping" THEN {"pong"} ELSE {"ack", "nack"} :
         toHost' = Append(toHost, [r |-> r, to |-> Head(toDev)])
    /\ UNCHANGED xfer

Loses ==
    /\ toDev # <<>>
    /\ toDev' = Tail(toDev)
    /\ UNCHANGED <<toHost, received, xfer>>

\* A link went, was left or came: nothing of the old one is on its way.
Relinks ==
    /\ ~AnyActive(xfer')
    /\ toHost' = <<>>
    /\ toDev' \in {<<>>, SessionFrames, SessionFrames \o SessionFrames}

\* A reply is lost, changes no transfer, or ends one.
Takes ==
    /\ toHost # <<>>
    /\ toHost' = Tail(toHost)
    /\ xfer' = xfer \/ \E k \in Kind : xfer' = Without(k)
    /\ UNCHANGED <<toDev, received>>

\* A reply that is no PONG moves the running transfer k on.
Proceeds(k) ==
    /\ toHost # <<>> /\ Head(toHost).r # "pong"
    /\ toHost' = Tail(toHost)
    /\ xfer[k].st \in {"WaitingStartAck", "SendingData"}
    /\ LET off == xfer[k].off IN
         \/ /\ off < Chunks[k]
            /\ toDev' = Append(toDev, Msg("data", k, off))
            /\ xfer' = [xfer EXCEPT ![k] = Running("SendingData", off + 1)]
         \/ /\ ~(off < Chunks[k])
            /\ toDev' = Append(toDev, Msg("finish", k, off))
            /\ xfer' = [xfer EXCEPT ![k] = Running("WaitingFinishAck", off)]
    /\ UNCHANGED received

\* The answer to FINISH starts the next file of the queue.
Follows ==
    /\ toHost # <<>> /\ Head(toHost).r # "pong"
    /\ toHost' = Tail(toHost)
    /\ Active("up")
    /\ xfer' = [Without("up") EXCEPT !["up"] = Started]
    /\ toDev' = Append(toDev, Msg("start", "up", 0))
    /\ UNCHANGED received

GivesUp(k) ==
    /\ Active(k)
    /\ xfer' = Without(k)
    /\ toDev' = toDev \/ toDev' = Append(toDev, Msg("finish", "esp", 0))
    /\ UNCHANGED <<toHost, received>>

WireDelta ==
    \/ Still \/ Pings \/ Commands \/ Answers \/ Loses \/ Relinks \/ Takes \/ Follows
    \/ \E k \in Kind : Opens(k) \/ Proceeds(k) \/ GivesUp(k)

\* What the steps below rely on.
Ground ==
    SessionTypes /\ TransferInv /\ OfflineSilent /\ RunsSuspended /\ NothingHeldBack /\ NoFolders

\* Every call sends one frame on a link on which nothing is outstanding.
LEMMA CallWire ==
    ASSUME OneAtATime, Ground, QmlCall
    PROVE  WireDelta
<1> USE DEF OneAtATime, WireDelta, callFrame, device
<1>1. /\ connected /\ Settled /\ ~AnyActive(xfer)
      /\ UNCHANGED <<toHost, received>>
    BY DEF QmlCall, StartFwUpdate, StartEspUpdate, UploadOne, UploadFiles, UploadFolder,
           EraseInactiveBank, SwapBanks, FileCommand, MiscCommand, Reboot, Call, Busy
<1>2. ASSUME UNCHANGED <<out, xfer>>
      PROVE  WireDelta
    BY <1>1, <1>2 DEF Still, out
<1>3. ASSUME NEW k \in Kind, Begin(k)
      PROVE  WireDelta
    BY <1>1, <1>3 DEF Begin, Send, Opens
<1>4. ASSUME NEW c \in Cmds, Send(Cmd(c)), UNCHANGED xfer
      PROVE  WireDelta
    BY <1>1, <1>4 DEF Send, Commands
<1>5. ASSUME UploadFile(xfer)
      PROVE  WireDelta
    BY <1>1, <1>2, <1>5 DEF UploadFile, Send, Opens, Kind
<1>6. CASE StartFwUpdate \/ StartEspUpdate
    BY <1>2, <1>3, <1>6 DEF StartFwUpdate, StartEspUpdate, Refused, claims, Kind
<1>7. CASE UploadOne \/ UploadFiles
    BY <1>2, <1>5, <1>7 DEF UploadOne, UploadFiles, Refused, claims
<1>8. CASE UploadFolder
    BY <1>8 DEF UploadFolder, Call
<1>9. CASE EraseInactiveBank
    BY <1>2, <1>4, <1>9 DEF EraseInactiveBank, Refused, claims, Cmds
<1>10. CASE SwapBanks \/ MiscCommand \/ Reboot
    BY <1>4, <1>10 DEF SwapBanks, MiscCommand, Reboot, claims, Cmds
<1>11. CASE \E c \in FileCmds : FileCommand(c)
    BY <1>4, <1>11 DEF FileCommand, Cmds
<1> QED
    BY <1>6, <1>7, <1>8, <1>9, <1>10, <1>11 DEF QmlCall

\* The device answers, frames get lost, links come and go.
LEMMA EnvironmentWire ==
    ASSUME OneAtATime, Ground, Environment
    PROVE  WireDelta
<1> USE DEF OneAtATime, WireDelta, claims, device
<1>1. CASE DevAnswer
    BY <1>1 DEF DevAnswer, Answers
<1>2. CASE LoseFrame
    BY <1>2 DEF LoseFrame, Loses, Takes
<1>3. CASE Wedge \/ IdlePasses \/ IdleLinkCloses \/ DialFails
    BY <1>3 DEF Wedge, IdlePasses, IdleLinkCloses, DialFails, Still, out
<1>4. CASE IdleLinkOpens
    BY <1>4 DEF IdleLinkOpens, Still
<1>5. ~AnyActive(AllStopped)
    BY DEF AnyActive, AllStopped, Stopped
<1>6. CASE LinkDrop
    BY <1>5, <1>6 DEF LinkDrop, LinkLost, FreshLink, ResetOnDrop, Relinks
<1>7. ASSUME ~connected
      PROVE  ~AnyActive(xfer)
    BY <1>7 DEF Ground, RunsSuspended
<1>8. CASE ConnectSerial
  <2>1. xfer' = xfer \/ xfer' = AllStopped
      BY <1>8 DEF ConnectSerial, ResetOnDrop
  <2>2. ~connected
      BY <1>8 DEF ConnectSerial
  <2>3. ~AnyActive(xfer')
      BY <1>5, <1>7, <2>1, <2>2
  <2>4. toHost' = <<>> /\ toDev' \in {<<>>, SessionFrames, SessionFrames \o SessionFrames}
      BY <1>8 DEF ConnectSerial, FreshLink, StartSession
  <2> QED
      BY <2>3, <2>4 DEF Relinks
<1>9. CASE ConnectWifi
  <2>1. ~AnyActive(xfer') /\ UNCHANGED xfer
      BY <1>7, <1>9 DEF ConnectWifi
  <2> QED
      BY <1>9, <2>1 DEF ConnectWifi, FreshLink, Relinks, Still
<1>10. CASE WifiUp
  <2>1. ~AnyActive(xfer')
      BY <1>7, <1>10 DEF WifiUp
  <2>2. toHost' = <<>> /\ toDev' = pendingTx \o SessionFrames
      BY <1>10 DEF WifiUp, FreshLink, StartSession
  <2>3. <<>> \o SessionFrames = SessionFrames
      BY DEF SessionFrames, Cmd, Msg
  <2> QED
      BY <2>1, <2>2, <2>3 DEF Relinks, Ground, NothingHeldBack
<1> QED
    BY <1>1, <1>2, <1>3, <1>4, <1>6, <1>8, <1>9, <1>10 DEF Environment

\* An ACK is taken on a connected link, and moves on at most one transfer.
LEMMA AckWire ==
    ASSUME OneAtATime, Ground, OnAck
    PROVE  WireDelta
<1> USE DEF WireDelta
<1>1. /\ toHost # <<>> /\ Head(toHost).r = "ack"
      /\ toHost' = Tail(toHost)
      /\ connected
      /\ UNCHANGED received
    BY DEF OnAck, Handled, replyFrame, device, Ground, OfflineSilent
<1>2. ASSUME UNCHANGED <<out, xfer>>
      PROVE  WireDelta
    BY <1>1, <1>2 DEF Takes, out
<1>3. ASSUME NEW k \in Kind, UNCHANGED out, xfer' = Without(k)
      PROVE  WireDelta
    BY <1>1, <1>3 DEF Takes, out
<1>4. CASE EraseAcked \/ SwapAcked
    BY <1>2, <1>4 DEF EraseAcked, SwapAcked
<1>5. ASSUME NEW k \in Kind, TransferAcked(k)
      PROVE  WireDelta
    BY <1>1, <1>5 DEF TransferAcked, SendNext, Send, Proceeds
<1>6. ASSUME NEW k \in Kind, TransferComplete(k)
      PROVE  WireDelta
    BY <1>3, <1>6 DEF TransferComplete
<1>7. CASE QueuedUploadComplete
  <2>1. "up" \in Kind /\ Active("up")
      BY <1>7 DEF QueuedUploadComplete, Kind, Active
  <2>2. \/ UNCHANGED out /\ xfer' = Without("up")
        \/ /\ xfer' = [Without("up") EXCEPT !["up"] = Started]
           /\ Send(Msg("start", "up", 0))
      BY <1>7 DEF QueuedUploadComplete, UploadFile
  <2> QED
      BY <1>1, <1>3, <2>1, <2>2 DEF Send, Follows
<1>8. CASE FileCmdAcked
  <2>1. ~(mkdirQueue.idx >= 0)
      BY DEF Ground, NoFolders, SessionTypes, QueueTypes
  <2>2. UNCHANGED <<out, xfer>>
      BY <1>8, <2>1 DEF FileCmdAcked
  <2> QED
      BY <1>2, <2>2
<1> QED
    BY <1>4, <1>5, <1>6, <1>7, <1>8 DEF OnAck

\* A NACK ends at most one transfer; a PONG touches none.
LEMMA NackWire ==
    ASSUME OnNack \/ OnPong
    PROVE  WireDelta
<1> USE DEF WireDelta, Takes, out, device, claims
<1>1. toHost # <<>> /\ toHost' = Tail(toHost) /\ UNCHANGED <<toDev, received>>
    BY DEF OnNack, OnPong, Handled, replyFrame
<1>2. CASE OnPong
    BY <1>1, <1>2 DEF OnPong
<1>3. ASSUME OnNack
      PROVE  xfer' = xfer \/ \E k \in Kind : xfer' = Without(k)
    BY <1>3
    DEF OnNack, EraseRefused, SwapRefused, TransferAborted, StaleNackAbsorbed, FileCmdRefused
<1> QED
    BY <1>1, <1>2, <1>3

\* A timeout gives a transfer up; the ESP32 one sends a FINISH after it.
LEMMA TimerWire ==
    ASSUME Ground,
           FwUpdateTimeout \/ EspUpdateTimeout \/ FileUploadTimeout \/ PingTick \/ CloseShot
    PROVE  WireDelta
<1> USE DEF WireDelta, device, claims
<1>1. ASSUME NEW k \in Kind, TimedOut(k)
      PROVE  connected /\ Active(k) /\ xfer' = Without(k)
    BY <1>1 DEF TimedOut, Ground, RunsSuspended, AnyActive, Active
<1>2. CASE FwUpdateTimeout \/ FileUploadTimeout
    BY <1>1, <1>2 DEF FwUpdateTimeout, FileUploadTimeout, timeoutFrame, GivesUp, out, Kind
<1>3. CASE EspUpdateTimeout
    BY <1>1, <1>3 DEF EspUpdateTimeout, timeoutFrame, GivesUp, Send, Kind
<1>4. ~AnyActive(AllStopped)
    BY DEF AnyActive, AllStopped, Stopped
<1>5. CASE LinkLost
    BY <1>4, <1>5 DEF LinkLost, FreshLink, ResetOnDrop, Relinks
<1>6. CASE PingTick
    BY <1>5, <1>6 DEF PingTick, Send, Pings
<1>7. CASE CloseShot
    BY <1>5, <1>7 DEF CloseShot, Still, out
<1> QED
    BY <1>2, <1>3, <1>6, <1>7

\* Every step changes frames and transfers in one of the ways.
LEMMA WireStep ==
    ASSUME OneAtATime, Ground, [Next]_vars
    PROVE  WireDelta
<1>1. CASE UNCHANGED vars
    BY <1>1 DEF vars, out, device, claims, WireDelta, Still
<1> QED
    BY <1>1, CallWire, EnvironmentWire, AckWire, NackWire, TimerWire DEF Next, EventLoop

(***************************************************************************)
(* Items of a queue                                                        *)
(***************************************************************************)

\* A queue with one item more, and with its first item gone, index by index.
LEMMA AppendItems ==
    ASSUME NEW S, NEW s \in Seq(S), NEW e \in S
    PROVE  /\ DOMAIN Append(s, e) = DOMAIN s \cup {Len(s) + 1}
           /\ Len(s) + 1 \notin DOMAIN s
           /\ \A i \in DOMAIN s : Append(s, e)[i] = s[i]
           /\ Append(s, e)[Len(s) + 1] = e
    OBVIOUS

LEMMA TailItems ==
    ASSUME NEW S, NEW s \in Seq(S), s # <<>>
    PROVE  /\ 1 \in DOMAIN s /\ Head(s) = s[1]
           /\ \A i \in DOMAIN Tail(s) :
                i + 1 \in DOMAIN s /\ i + 1 # 1 /\ Tail(s)[i] = s[i + 1]
           /\ \A i, j \in DOMAIN Tail(s) : i + 1 = j + 1 => i = j
    OBVIOUS

\* What a new link starts with: PING and log level commands only.
LEMMA SessionItems ==
    ASSUME NEW f \in {<<>>, SessionFrames, SessionFrames \o SessionFrames}
    PROVE  \A i \in DOMAIN f : f[i] \in {Cmd("ping"), Cmd("loglevel")}
<1> DEFINE S == {Cmd("ping"), Cmd("loglevel")}
<1>1. SessionFrames \in Seq(S)
    BY DEF SessionFrames
<1> HIDE DEF S
<1>2. <<>> \in Seq(S) /\ SessionFrames \o SessionFrames \in Seq(S)
    BY <1>1
<1>3. f \in Seq(S)
    BY <1>1, <1>2
<1>4. \A i \in DOMAIN f : f[i] \in S
    BY <1>3
<1> QED
    BY <1>4 DEF S

(***************************************************************************)
(* Each of the ways keeps the invariant                                    *)
(***************************************************************************)

WireTypes == OutTypes /\ DeviceTypes /\ TransferInv

\* Nothing of the invariant is about more than these five.
LEMMA WireInvStill == WireInv /\ UNCHANGED <<toDev, toHost, received, xfer>> => WireInv'
    BY DEF WireInv, PongsAnswerPings, FramesOfKinds, OneOutstanding, InStep, FinishLast,
           Asked, Answered, AnyActive, Active, LastSent

\* A frame that is a PING, or any frame that no transfer waits for.
LEMMA WireInvSends ==
    ASSUME WireTypes, WireInv, NEW m \in Message,
           m.op = "cmd" <=> m.of \notin Kind,
           toDev' = Append(toDev, m), UNCHANGED <<toHost, received>>,
           \/ m.of = "ping" /\ UNCHANGED xfer
           \/ ~AnyActive(xfer'),
           m.op \in {"start", "data"} => Asked = {},
           m.op = "finish" => m.n # Chunks[m.of]
    PROVE  WireInv'
<1> DEFINE d == toDev'
           n == Len(toDev) + 1
<1>1. /\ DOMAIN d = DOMAIN toDev \cup {n} /\ n \notin DOMAIN toDev
      /\ \A i \in DOMAIN toDev : d[i] = toDev[i]
      /\ d[n] = m
    BY AppendItems DEF WireTypes, OutTypes
<1> HIDE DEF d, n
<1>2. toDev' = d
    BY DEF d
<1> USE DEF WireInv
<1>3. PongsAnswerPings'
    BY DEF PongsAnswerPings
<1>4. FramesOfKinds'
    BY <1>1, <1>2 DEF FramesOfKinds
<1>5. OneOutstanding' /\ InStep'
  <2>1. CASE ~AnyActive(xfer')
      BY <2>1 DEF OneOutstanding, InStep, AnyActive, Active
  <2>2. CASE m.of = "ping" /\ UNCHANGED xfer
    <3>1. Asked' = Asked /\ Answered' = Answered
        BY <1>1, <1>2, <2>2 DEF Asked, Answered
    <3>2. \A i \in Asked : toDev'[i] = toDev[i]
        BY <1>1, <1>2 DEF Asked
    <3>3. OneOutstanding'
        BY <2>2, <3>1 DEF OneOutstanding
    <3>4. \A k \in Kind : (Active(k)' <=> Active(k)) /\ LastSent(k)' = LastSent(k)
        BY <2>2 DEF Active, LastSent
    <3>5. InStep'
        BY <2>2, <3>1, <3>2, <3>4 DEF InStep
    <3> QED
        BY <3>3, <3>5
  <2> QED
      BY <2>1, <2>2
<1>6. FinishLast'
  <2> SUFFICES ASSUME NEW i \in DOMAIN d, d[i].op = "finish", d[i].n = Chunks[d[i].of]
               PROVE  /\ received[d[i].of] = Chunks[d[i].of]
                      /\ \A j \in DOMAIN d : d[j].of = d[i].of => d[j].op = "finish"
      BY <1>2 DEF FinishLast
  <2>1. i \in DOMAIN toDev /\ d[i] = toDev[i]
      BY <1>1
  <2>2. /\ received[d[i].of] = Chunks[d[i].of]
        /\ \A j \in DOMAIN toDev : toDev[j].of = d[i].of => toDev[j].op = "finish"
      BY <2>1 DEF FinishLast
  <2>3. i \in Asked /\ toDev[i].of \in Kind
      BY <2>1 DEF FramesOfKinds, Asked, Kind
  <2>4. m.of = d[i].of => m.op = "finish"
      BY <2>1, <2>3 DEF Message
  <2> QED
      BY <1>1, <2>2, <2>4
<1> QED
    BY <1>3, <1>4, <1>5, <1>6

\* The next command of the only running transfer, with nothing else on its way.
LEMMA WireInvMoves ==
    ASSUME WireTypes, WireInv, TransferInv', NEW k \in Kind,
           Asked = {}, Answered' = {}, PongsAnswerPings', UNCHANGED received,
           Active(k)',
           toDev' = Append(toDev, LastSent(k)'), LastSent(k)' \in Message,
           LastSent(k)'.of = k, LastSent(k)'.op # "cmd",
           xfer'[k].st # "WaitingStartAck" => received[k] = LastSent(k)'.n,
           LastSent(k)'.op = "finish" => received[k] = Chunks[k]
    PROVE  WireInv'
<1> DEFINE d == toDev'
           n == Len(toDev) + 1
           m == LastSent(k)'
<1>1. /\ DOMAIN d = DOMAIN toDev \cup {n} /\ n \notin DOMAIN toDev
      /\ \A i \in DOMAIN toDev : d[i] = toDev[i]
      /\ d[n] = m
    BY AppendItems DEF WireTypes, OutTypes
<1>2. toDev' = d /\ m = LastSent(k)'
    OBVIOUS
<1> HIDE DEF d, n, m
<1> USE DEF WireInv
<1>3. \A i \in DOMAIN toDev : toDev[i].of = "ping" /\ toDev[i].op = "cmd"
    BY DEF Asked, FramesOfKinds, Kind
<1>4. m.of = k /\ m.of # "ping"
    BY <1>2 DEF Kind
<1>5. Asked' = {n}
    BY <1>1, <1>2, <1>3, <1>4 DEF Asked
<1>6. FramesOfKinds'
    BY <1>1, <1>2, <1>3, <1>4 DEF FramesOfKinds, Kind
<1>7. OneOutstanding'
    BY <1>5 DEF OneOutstanding
<1>8. \A j \in Kind : Active(j)' => j = k
    BY DEF TransferInv, OneTransfer, Active
<1>9. InStep'
    BY <1>1, <1>2, <1>4, <1>5, <1>8 DEF InStep
<1>10. FinishLast'
    BY <1>1, <1>2, <1>3, <1>4 DEF FinishLast, Kind
<1> QED
    BY <1>6, <1>7, <1>9, <1>10

\* The device takes the oldest frame and answers it.
LEMMA WireInvAnswers ==
    ASSUME WireTypes, WireInv, Answers
    PROVE  WireInv'
<1> DEFINE m == Head(toDev)
           n == Len(toHost) + 1
<1> USE DEF WireInv
<1>1. /\ 1 \in DOMAIN toDev /\ m = toDev[1]
      /\ \A i \in DOMAIN toDev' :
           i + 1 \in DOMAIN toDev /\ i + 1 # 1 /\ toDev'[i] = toDev[i + 1]
      /\ \A i, j \in DOMAIN toDev' : i + 1 = j + 1 => i = j
    BY TailItems DEF WireTypes, OutTypes, Answers
<1>2. PICK r \in IF m.of = "ping" THEN {"pong"} ELSE {"ack", "nack"} :
        toHost' = Append(toHost, [r |-> r, to |-> m])
    BY DEF Answers
<1> DEFINE a == [r |-> r, to |-> m]
<1>3. m \in Message
    BY DEF WireTypes, OutTypes, Answers
<1>4. a \in Reply
    BY <1>2, <1>3 DEF Reply
<1>5. /\ DOMAIN toHost' = DOMAIN toHost \cup {n} /\ n \notin DOMAIN toHost
      /\ \A i \in DOMAIN toHost : toHost'[i] = toHost[i]
      /\ toHost'[n] = a
    BY <1>2, <1>4, AppendItems DEF WireTypes, DeviceTypes
<1>6. a.to = m /\ a.r \in {"ack", "nack", "pong"} /\ (a.r = "pong" <=> m.of = "ping")
    BY <1>2
<1>7. received' = Receive(m) /\ UNCHANGED xfer
    BY DEF Answers
<1> HIDE DEF m, n, a
<1>8. m.op = "cmd" <=> m.of \notin Kind
    BY <1>1 DEF FramesOfKinds
<1>9. PongsAnswerPings'
    BY <1>5, <1>6 DEF PongsAnswerPings
<1>10. FramesOfKinds'
    BY <1>1 DEF FramesOfKinds
<1>11. \A i \in Asked' : i + 1 \in Asked /\ i + 1 # 1 /\ toDev'[i] = toDev[i + 1]
    BY <1>1 DEF Asked
<1>12. ASSUME AnyActive(xfer), m.of = "ping"
       PROVE  OneOutstanding' /\ InStep'
  <2>1. received' = received
      BY <1>7, <1>8, <1>12 DEF Receive, Kind
  <2>2. Answered' = Answered /\ \A i \in Answered : toHost'[i] = toHost[i]
      BY <1>5, <1>6, <1>12 DEF Answered
  <2>3. \A i, j \in Asked' : i = j
    <3> SUFFICES ASSUME NEW i \in Asked', NEW j \in Asked' PROVE i = j
        OBVIOUS
    <3>1. i + 1 \in Asked /\ j + 1 \in Asked /\ i \in DOMAIN toDev' /\ j \in DOMAIN toDev'
        BY <1>11 DEF Asked
    <3> QED
        BY <1>1, <1>12, <3>1 DEF OneOutstanding
  <2>4. Asked = {} => Asked' = {}
      BY <1>11
  <2>5. OneOutstanding'
      BY <1>7, <1>12, <2>2, <2>3, <2>4 DEF OneOutstanding
  <2>6. InStep'
      BY <1>7, <1>11, <2>1, <2>2 DEF InStep, Active, LastSent
  <2> QED
      BY <2>5, <2>6
<1>13. ASSUME AnyActive(xfer), m.of # "ping"
       PROVE  OneOutstanding' /\ InStep'
  <2>1. 1 \in Asked
      BY <1>1, <1>13 DEF Asked
  <2>2. \A i \in Asked : i = 1
      BY <1>13, <2>1 DEF OneOutstanding
  <2>3. Answered = {} /\ Asked' = {}
      BY <1>11, <1>13, <2>1, <2>2 DEF OneOutstanding
  <2>4. Answered' = {n}
      BY <1>5, <1>6, <1>13, <2>3 DEF Answered
  <2>5. OneOutstanding'
      BY <2>3, <2>4 DEF OneOutstanding
  <2>6. ASSUME NEW k \in Kind, Active(k)
        PROVE  m = LastSent(k) /\ received'[k] = xfer[k].off
    <3>1. m = LastSent(k) /\ (xfer[k].st # "WaitingStartAck" => received[k] = m.n)
        BY <1>1, <2>1, <2>6 DEF InStep
    <3>2. /\ xfer[k].st \in {"WaitingStartAck", "SendingData", "WaitingFinishAck"}
          /\ xfer[k].off \in Nat /\ (xfer[k].st = "WaitingStartAck" => xfer[k].off = 0)
        BY <2>6 DEF WireTypes, TransferInv, TransferTypes, OffsetsMatchPhase, Active, Phase
    <3>3. received \in [Kind -> Int]
        BY DEF WireTypes, DeviceTypes
    <3>4. CASE xfer[k].st = "WaitingStartAck"
        BY <1>7, <3>1, <3>2, <3>3, <3>4 DEF LastSent, Msg, Receive
    <3>5. CASE xfer[k].st = "SendingData"
        BY <1>7, <3>1, <3>2, <3>3, <3>5 DEF LastSent, Msg, Receive
    <3>6. CASE xfer[k].st = "WaitingFinishAck"
        BY <1>7, <3>1, <3>2, <3>3, <3>6 DEF LastSent, Msg, Receive
    <3> QED
        BY <3>1, <3>2, <3>4, <3>5, <3>6
  <2>7. InStep'
    <3>1. \A k \in Kind : (Active(k)' <=> Active(k)) /\ LastSent(k)' = LastSent(k)
        BY <1>7 DEF Active, LastSent
    <3> QED
        BY <1>5, <1>6, <1>7, <2>3, <2>4, <2>6, <3>1 DEF InStep
  <2> QED
      BY <2>5, <2>7
<1>14. ~AnyActive(xfer) => OneOutstanding' /\ InStep'
    BY <1>7 DEF OneOutstanding, InStep, AnyActive, Active
<1>15. FinishLast'
  <2> SUFFICES ASSUME NEW i \in DOMAIN toDev', toDev'[i].op = "finish",
                      toDev'[i].n = Chunks[toDev'[i].of]
               PROVE  /\ received'[toDev'[i].of] = Chunks[toDev'[i].of]
                      /\ \A j \in DOMAIN toDev' :
                           toDev'[j].of = toDev'[i].of => toDev'[j].op = "finish"
      BY DEF FinishLast
  <2> DEFINE k == toDev'[i].of
  <2>1. i + 1 \in DOMAIN toDev /\ toDev[i + 1] = toDev'[i]
      BY <1>1
  <2>2. /\ received[k] = Chunks[k]
        /\ \A j \in DOMAIN toDev : toDev[j].of = k => toDev[j].op = "finish"
      BY <2>1 DEF FinishLast
  <2>3. k \in Kind
      BY <2>1 DEF FramesOfKinds
  <2> HIDE DEF k
  <2>4. m.of = k => m.op = "finish"
      BY <1>1, <2>2
  <2>5. received'[k] = received[k]
      BY <1>7, <2>3, <2>4 DEF Receive, WireTypes, DeviceTypes
  <2> QED
      BY <1>1, <2>2, <2>5 DEF k
<1> QED
    BY <1>9, <1>10, <1>12, <1>13, <1>14, <1>15

\* A frame or a reply less; a transfer that ends waits for nothing.
LEMMA WireInvLess ==
    ASSUME WireTypes, WireInv, UNCHANGED received,
           \/ UNCHANGED <<toDev, toHost>>
           \/ toDev # <<>> /\ toDev' = Tail(toDev) /\ UNCHANGED toHost
           \/ toHost # <<>> /\ toHost' = Tail(toHost) /\ UNCHANGED toDev,
           xfer' = xfer \/ \E k \in Kind : xfer' = Without(k)
    PROVE  WireInv'
<1> USE DEF WireInv
<1>1. PICK f : /\ \A i \in DOMAIN toDev' : f[i] \in DOMAIN toDev /\ toDev'[i] = toDev[f[i]]
               /\ \A i, j \in DOMAIN toDev' : f[i] = f[j] => i = j
  <2>1. CASE UNCHANGED toDev
    <3> DEFINE g == [i \in DOMAIN toDev' |-> i]
    <3> WITNESS g
    <3> QED
        BY <2>1
  <2>2. CASE toDev # <<>> /\ toDev' = Tail(toDev)
    <3> DEFINE g == [i \in DOMAIN toDev' |-> i + 1]
    <3>1. /\ \A i \in DOMAIN toDev' : i + 1 \in DOMAIN toDev /\ toDev'[i] = toDev[i + 1]
          /\ \A i, j \in DOMAIN toDev' : i + 1 = j + 1 => i = j
        BY <2>2, TailItems DEF WireTypes, OutTypes
    <3> WITNESS g
    <3> QED
        BY <3>1
  <2> QED
      BY <2>1, <2>2
<1>2. PICK h : /\ \A i \in DOMAIN toHost' : h[i] \in DOMAIN toHost /\ toHost'[i] = toHost[h[i]]
               /\ \A i, j \in DOMAIN toHost' : h[i] = h[j] => i = j
  <2>1. CASE UNCHANGED toHost
    <3> DEFINE g == [i \in DOMAIN toHost' |-> i]
    <3> WITNESS g
    <3> QED
        BY <2>1
  <2>2. CASE toHost # <<>> /\ toHost' = Tail(toHost)
    <3> DEFINE g == [i \in DOMAIN toHost' |-> i + 1]
    <3>1. /\ \A i \in DOMAIN toHost' : i + 1 \in DOMAIN toHost /\ toHost'[i] = toHost[i + 1]
          /\ \A i, j \in DOMAIN toHost' : i + 1 = j + 1 => i = j
        BY <2>2, TailItems DEF WireTypes, DeviceTypes
    <3> WITNESS g
    <3> QED
        BY <3>1
  <2> QED
      BY <2>1, <2>2
<1>3. \A k \in Kind : Active(k)' => Active(k) /\ xfer'[k] = xfer[k]
    BY DEF Active, Without, Stopped, WireTypes, TransferInv, TransferTypes
<1>4. AnyActive(xfer') => AnyActive(xfer)
    BY <1>3 DEF AnyActive, Active
<1>5. \A i \in Asked' : f[i] \in Asked /\ toDev'[i] = toDev[f[i]]
    BY <1>1 DEF Asked
<1>6. \A i \in Answered' : h[i] \in Answered /\ toHost'[i] = toHost[h[i]]
    BY <1>2 DEF Answered
<1>7. PongsAnswerPings' /\ FramesOfKinds'
    BY <1>1, <1>2 DEF PongsAnswerPings, FramesOfKinds
<1>8. OneOutstanding'
  <2> SUFFICES ASSUME AnyActive(xfer)
               PROVE  /\ \A i, j \in Asked' : i = j
                      /\ \A i, j \in Answered' : i = j
                      /\ Asked' = {} \/ Answered' = {}
      BY <1>4 DEF OneOutstanding
  <2>1. \A i \in Asked' : i \in DOMAIN toDev'
      BY DEF Asked
  <2>2. \A i \in Answered' : i \in DOMAIN toHost'
      BY DEF Answered
  <2> QED
      BY <1>1, <1>2, <1>5, <1>6, <2>1, <2>2 DEF OneOutstanding
<1>9. InStep'
    BY <1>3, <1>5, <1>6 DEF InStep, LastSent
<1>10. FinishLast'
    BY <1>1 DEF FinishLast
<1> QED
    BY <1>7, <1>8, <1>9, <1>10

\* Every one of the ways keeps the invariant.
LEMMA WireInvStep ==
    ASSUME WireTypes, WireInv, TransferInv', WireDelta
    PROVE  WireInv'
<1> USE DEF WireInv
<1>1. CASE Still
    BY <1>1, WireInvStill DEF Still
<1>2. CASE Pings
  <2>1. Cmd("ping") \in Message
      BY DEF Cmd, Msg, Message, Cmds
  <2>2. LET m == Cmd("ping") IN m.op = "cmd" /\ m.of = "ping" /\ m.of \notin Kind
      BY DEF Cmd, Msg, Kind
  <2> QED
      BY <1>2, <2>1, <2>2, WireInvSends DEF Pings
<1>3. CASE Commands
  <2>1. PICK c \in Cmds : toDev' = Append(toDev, Cmd(c))
      BY <1>3 DEF Commands
  <2>2. Cmd(c) \in Message
      BY DEF Cmd, Msg, Message
  <2>3. Cmd(c).op = "cmd" /\ Cmd(c).of \notin Kind
      BY DEF Cmd, Msg, Kind, Cmds, FileCmds
  <2>4. UNCHANGED <<toHost, received>> /\ ~AnyActive(xfer')
      BY <1>3 DEF Commands
  <2> QED
      BY <2>1, <2>2, <2>3, <2>4, WireInvSends
<1>4. CASE Answers
    BY <1>4, WireInvAnswers
<1>5. CASE Loses
    BY <1>5, WireInvLess DEF Loses
<1>6. CASE Relinks
  <2>1. \A i \in DOMAIN toDev' : toDev'[i] \in {Cmd("ping"), Cmd("loglevel")}
      BY <1>6, SessionItems DEF Relinks
  <2>2. \A i \in DOMAIN toDev' : toDev'[i].op = "cmd" /\ toDev'[i].of \notin Kind
      BY <2>1 DEF Cmd, Msg, Kind
  <2>3. DOMAIN toHost' = {} /\ ~AnyActive(xfer')
      BY <1>6 DEF Relinks
  <2> QED
      BY <2>2, <2>3
      DEF PongsAnswerPings, FramesOfKinds, OneOutstanding, InStep, FinishLast, AnyActive, Active
<1>7. CASE Takes
    BY <1>7, WireInvLess DEF Takes
<1>8. ASSUME NEW k \in Kind, Opens(k)
      PROVE  WireInv'
  <2>1. LastSent(k)' = Msg("start", k, 0) /\ Active(k)' /\ xfer'[k].st = "WaitingStartAck"
      BY <1>8 DEF Opens, LastSent, Active, Started, Running, WireTypes, TransferInv, TransferTypes
  <2>2. Asked = {} /\ Answered' = {}
      BY <1>8 DEF Opens, Settled, Asked, Answered
  <2>3. PongsAnswerPings'
      BY <1>8 DEF Opens, PongsAnswerPings
  <2>4. LET m == Msg("start", k, 0) IN m \in Message /\ m.of = k /\ m.op = "start"
      BY DEF Msg, Message
  <2>5. toDev' = Append(toDev, Msg("start", k, 0)) /\ UNCHANGED received
      BY <1>8 DEF Opens
  <2> QED
      BY <2>1, <2>2, <2>3, <2>4, <2>5, WireInvMoves
\* The reply of a step that moves a transfer on is its answer, and the only one.
<1>9. ASSUME NEW k \in Kind, Active(k), toHost # <<>>, Head(toHost).r # "pong",
             toHost' = Tail(toHost)
      PROVE  /\ Head(toHost).to = LastSent(k) /\ received[k] = xfer[k].off
             /\ Asked = {} /\ Answered' = {} /\ PongsAnswerPings'
  <2>1. /\ 1 \in DOMAIN toHost /\ Head(toHost) = toHost[1]
        /\ \A i \in DOMAIN toHost' :
             i + 1 \in DOMAIN toHost /\ i + 1 # 1 /\ toHost'[i] = toHost[i + 1]
      BY <1>9, TailItems DEF WireTypes, DeviceTypes
  <2>2. 1 \in Answered /\ AnyActive(xfer)
      BY <1>9, <2>1 DEF Answered, AnyActive, Active
  <2>3. Asked = {} /\ \A i \in Answered : i = 1
      BY <2>2 DEF OneOutstanding
  <2>4. Answered' = {}
      BY <2>1, <2>3 DEF Answered
  <2>5. PongsAnswerPings'
      BY <2>1 DEF PongsAnswerPings
  <2> QED
      BY <1>9, <2>1, <2>2, <2>3, <2>4, <2>5 DEF InStep
<1>10. ASSUME NEW k \in Kind, Proceeds(k)
       PROVE  WireInv'
  <2> DEFINE off == xfer[k].off
  <2>1. Active(k) /\ toHost # <<>> /\ Head(toHost).r # "pong" /\ toHost' = Tail(toHost)
      BY <1>10 DEF Proceeds, Active
  <2>2. received[k] = off /\ Asked = {} /\ Answered' = {} /\ PongsAnswerPings'
      BY <1>9, <2>1
  <2>3. /\ off \in Nat /\ Chunks[k] \in Nat
        /\ off <= Chunks[k]
      BY <1>10, ConstantsAssumption
      DEF Proceeds, WireTypes, TransferInv, TransferTypes, OffsetsMatchPhase
  <2>4. xfer \in [Kind -> [st : Phase, off : Nat, timer : BOOLEAN]]
      BY DEF WireTypes, TransferInv, TransferTypes
  <2>5. UNCHANGED received
      BY <1>10 DEF Proceeds
  <2>6. CASE off < Chunks[k]
    <3>1. xfer'[k] = Running("SendingData", off + 1)
        BY <1>10, <2>4, <2>6 DEF Proceeds
    <3>2. toDev' = Append(toDev, Msg("data", k, off))
        BY <1>10, <2>6 DEF Proceeds
    <3>3. Active(k)' /\ xfer'[k].st = "SendingData" /\ xfer'[k].off = off + 1
        BY <3>1 DEF Running, Active
    <3>4. xfer'[k].off - 1 = off
        BY <2>3, <3>3
    <3>5. LastSent(k)' = Msg("data", k, off)
        BY <3>3, <3>4 DEF LastSent
    <3>6. LET m == Msg("data", k, off) IN
            m \in Message /\ m.of = k /\ m.op = "data" /\ m.n = off
        BY <2>3 DEF Msg, Message
    <3> QED
        BY <2>2, <2>5, <3>2, <3>3, <3>5, <3>6, WireInvMoves
  <2>7. CASE ~(off < Chunks[k])
    <3>1. xfer'[k] = Running("WaitingFinishAck", off)
        BY <1>10, <2>4, <2>7 DEF Proceeds
    <3>2. toDev' = Append(toDev, Msg("finish", k, off))
        BY <1>10, <2>7 DEF Proceeds
    <3>3. Active(k)' /\ xfer'[k].st = "WaitingFinishAck" /\ xfer'[k].off = off
        BY <3>1 DEF Running, Active
    <3>4. off = Chunks[k]
        BY <2>3, <2>7
    <3>5. LastSent(k)' = Msg("finish", k, off)
        BY <3>3 DEF LastSent
    <3>6. LET m == Msg("finish", k, off) IN
            m \in Message /\ m.of = k /\ m.op = "finish" /\ m.n = off
        BY <2>3 DEF Msg, Message
    <3> QED
        BY <2>2, <2>5, <3>2, <3>3, <3>4, <3>5, <3>6, WireInvMoves
  <2> QED
      BY <2>6, <2>7
<1>11. CASE Follows
  <2> DEFINE k == "up"
  <2>1. /\ k \in Kind /\ Active(k)
        /\ toHost # <<>> /\ Head(toHost).r # "pong" /\ toHost' = Tail(toHost)
      BY <1>11 DEF Follows, Kind
  <2>2. Asked = {} /\ Answered' = {} /\ PongsAnswerPings'
      BY <1>9, <2>1
  <2>3. xfer'[k] = Started
      BY <1>11, <2>1 DEF Follows, Without, WireTypes, TransferInv, TransferTypes
  <2>4. LastSent(k)' = Msg("start", k, 0) /\ Active(k)' /\ xfer'[k].st = "WaitingStartAck"
      BY <2>3 DEF LastSent, Active, Started, Running
  <2>5. LET m == Msg("start", k, 0) IN m \in Message /\ m.of = k /\ m.op = "start"
      BY <2>1 DEF Msg, Message
  <2>6. toDev' = Append(toDev, Msg("start", k, 0)) /\ UNCHANGED received
      BY <1>11 DEF Follows
  <2> HIDE DEF k
  <2> QED
      BY <2>1, <2>2, <2>4, <2>5, <2>6, WireInvMoves
<1>12. ASSUME NEW k \in Kind, GivesUp(k)
       PROVE  WireInv'
  <2>1. CASE toDev' = toDev
      BY <1>12, <2>1, WireInvLess DEF GivesUp
  <2>2. CASE toDev' = Append(toDev, Msg("finish", "esp", 0))
    <3>1. ~AnyActive(xfer')
        BY <1>12 DEF GivesUp, Without, Stopped, AnyActive, WireTypes, TransferInv, TransferTypes,
                     OneTransfer, Active
    <3>2. LET m == Msg("finish", "esp", 0) IN
            /\ m \in Message /\ m.op = "finish" /\ m.of \in Kind
            /\ m.n # Chunks[m.of]
        BY ConstantsAssumption DEF Msg, Message, Kind
    <3>3. UNCHANGED <<toHost, received>>
        BY <1>12 DEF GivesUp
    <3> QED
        BY <2>2, <3>1, <3>2, <3>3, WireInvSends
  <2> QED
      BY <1>12, <2>1, <2>2 DEF GivesUp
<1> QED
    BY <1>1, <1>2, <1>3, <1>4, <1>5, <1>6, <1>7, <1>8, <1>10, <1>11, <1>12 DEF WireDelta

(***************************************************************************)
(* The ground the steps stand on                                           *)
(***************************************************************************)

\* No frame is held back: whoever sends has a connected link.
LEMMA NothingHeldBackStep ==
    ASSUME OneAtATime, Ground, [Next]_vars
    PROVE  NothingHeldBack'
<1> USE DEF NothingHeldBack, out
<1>1. NothingHeldBack
    BY DEF Ground
<1>2. CASE UNCHANGED pendingTx
    BY <1>1, <1>2
<1>3. ASSUME NEW m, Send(m), connected
      PROVE  NothingHeldBack'
    BY <1>1, <1>3 DEF Send
<1>4. CASE QmlCall
  <2>1. connected
      BY <1>4
      DEF QmlCall, StartFwUpdate, StartEspUpdate, UploadOne, UploadFiles, UploadFolder,
          EraseInactiveBank, SwapBanks, FileCommand, MiscCommand, Reboot, Call, OneAtATime
  <2>2. UNCHANGED out \/ \E m : Send(m)
      BY <1>4
      DEF QmlCall, StartFwUpdate, StartEspUpdate, UploadOne, UploadFiles, UploadFolder,
          EraseInactiveBank, SwapBanks, FileCommand, MiscCommand, Reboot, Refused, Begin,
          UploadFile
  <2> QED
      BY <1>2, <1>3, <2>1, <2>2
<1>5. CASE OnAck
  <2>1. connected
      BY <1>5 DEF OnAck, Handled, Ground, OfflineSilent
  <2>2. UNCHANGED out \/ \E m : Send(m)
      BY <1>5
      DEF OnAck, EraseAcked, SwapAcked, TransferAcked, SendNext, TransferComplete,
          QueuedUploadComplete, FileCmdAcked, AdvanceMkdirQueue, UploadFile
  <2> QED
      BY <1>2, <1>3, <2>1, <2>2
<1>6. CASE EspUpdateTimeout
  <2>1. connected
      BY <1>6 DEF EspUpdateTimeout, TimedOut, Ground, RunsSuspended, AnyActive, Active, Kind
  <2> QED
      BY <1>3, <1>6, <2>1 DEF EspUpdateTimeout
<1>7. CASE Environment
    BY <1>1, <1>2, <1>7
    DEF Environment, DevAnswer, Wedge, LoseFrame, IdlePasses, LinkDrop, LinkLost,
        IdleLinkCloses, IdleLinkOpens, DialFails, ConnectSerial, ConnectWifi, WifiUp
<1>8. CASE PingTick
    BY <1>2, <1>3, <1>8 DEF PingTick, LinkLost
<1> QED
    BY <1>2, <1>4, <1>5, <1>6, <1>7, <1>8
    DEF Next, EventLoop, vars, OnPong, OnNack, FwUpdateTimeout, FileUploadTimeout, CloseShot,
        LinkLost

\* No MKDIR is queued: only a folder upload queues one.
LEMMA NoFoldersStep ==
    ASSUME OneAtATime, QueueTypes, NoFolders, [Next]_vars
    PROVE  NoFolders'
<1> USE DEF NoFolders, queues
<1>1. CASE UNCHANGED mkdirQueue
    BY <1>1
<1>2. CASE mkdirQueue' = NoQueue
    BY <1>2 DEF NoQueue
<1>3. CASE QmlCall
  <2>1. ~UploadFolder
      BY DEF UploadFolder, Call, OneAtATime
  <2> QED
      BY <1>1, <1>2, <1>3, <2>1
      DEF QmlCall, StartFwUpdate, StartEspUpdate, UploadOne, UploadFiles, EraseInactiveBank,
          SwapBanks, FileCommand, MiscCommand, Reboot, Refused, Begin
<1>4. CASE Environment
    BY <1>1, <1>2, <1>4
    DEF Environment, DevAnswer, Wedge, LoseFrame, IdlePasses, LinkDrop, LinkLost,
        IdleLinkCloses, IdleLinkOpens, DialFails, ConnectSerial, ConnectWifi, WifiUp,
        ResetOnDrop
<1>5. CASE OnAck
  <2>1. ~(mkdirQueue.idx >= 0)
      BY DEF QueueTypes
  <2>2. UNCHANGED mkdirQueue
      BY <1>5, <2>1
      DEF OnAck, EraseAcked, SwapAcked, TransferAcked, TransferComplete, QueuedUploadComplete,
          FileCmdAcked
  <2> QED
      BY <1>1, <2>2
<1>6. CASE OnNack
    BY <1>1, <1>2, <1>6
    DEF OnNack, EraseRefused, SwapRefused, TransferAborted, StaleNackAbsorbed, FileCmdRefused
<1>7. CASE OnPong \/ FwUpdateTimeout \/ EspUpdateTimeout \/ FileUploadTimeout
    BY <1>1, <1>7 DEF OnPong, FwUpdateTimeout, EspUpdateTimeout, FileUploadTimeout, timeoutFrame
<1>8. CASE PingTick \/ CloseShot
    BY <1>1, <1>2, <1>8 DEF PingTick, CloseShot, LinkLost, ResetOnDrop
<1> QED
    BY <1>1, <1>3, <1>4, <1>5, <1>6, <1>7, <1>8 DEF Next, EventLoop, vars

RepliesInv == Ground /\ WireInv

\* The invariant of the session when calls are made one at a time.
THEOREM RepliesInvariant ==
    ASSUME OneAtATime
    PROVE  Spec => []RepliesInv
<1>1. Init => RepliesInv
  <2> SUFFICES ASSUME Init PROVE RepliesInv
      OBVIOUS
  <2>1. OfflineSilent /\ RunsSuspended
      BY DEF Init, OfflineSilent, RunsSuspended, AllStopped, Stopped, AnyActive
  <2>2. NothingHeldBack /\ NoFolders
      BY DEF Init, NothingHeldBack, NoFolders, NoQueue
  <2>3. DOMAIN toDev = {} /\ DOMAIN toHost = {} /\ ~AnyActive(xfer)
      BY DEF Init, AllStopped, Stopped, AnyActive
  <2>4. WireInv
      BY <2>3 DEF WireInv, PongsAnswerPings, FramesOfKinds, OneOutstanding, InStep, FinishLast,
                  AnyActive, Active
  <2> QED
      BY <2>1, <2>2, <2>4, TypesInit, TransferInvInit DEF RepliesInv, Ground
<1>2. RepliesInv /\ [Next]_vars => RepliesInv'
  <2> SUFFICES ASSUME RepliesInv, [Next]_vars PROVE RepliesInv'
      OBVIOUS
  <2> USE DEF RepliesInv, Ground
  <2>1. SessionTypes'
      BY OutStep, DeviceStep, LinkStep, FlagStep, QueueStep, CountStep, NameStep
      DEF SessionTypes, TransferInv
  <2>2. TransferInv'
      BY TransferStep, TransferInvStep
  <2>3. OfflineSilent' /\ RunsSuspended'
      BY OfflineStep, RunsSuspendedStep DEF OneAtATime
  <2>4. NothingHeldBack' /\ NoFolders'
      BY NothingHeldBackStep, NoFoldersStep DEF SessionTypes
  <2>5. WireInv'
      BY <2>2, WireStep, WireInvStep DEF WireTypes, SessionTypes
  <2> QED
      BY <2>1, <2>2, <2>3, <2>4, <2>5
<1> QED
    BY <1>1, <1>2, PTL DEF Spec

(***************************************************************************)
(* What follows                                                            *)
(***************************************************************************)

\* A normal FINISH finds the whole image at the device, also when its transfer
\* timed out while it was on its way.
THEOREM WholeImageHolds ==
    ASSUME OneAtATime
    PROVE  Spec => []WholeImageAtFinish
<1>1. RepliesInv => WholeImageAtFinish
  <2> SUFFICES ASSUME RepliesInv, toDev # <<>>
               PROVE  LET m == Head(toDev) IN
                      m.op = "finish" /\ m.n = Chunks[m.of] => received[m.of] = Chunks[m.of]
      BY DEF WholeImageAtFinish
  <2>1. 1 \in DOMAIN toDev /\ Head(toDev) = toDev[1]
      BY TailItems DEF RepliesInv, Ground, SessionTypes, OutTypes
  <2> QED
      BY <2>1 DEF RepliesInv, WireInv, FinishLast
<1> QED
    BY <1>1, RepliesInvariant, PTL

\* A set of at most one element.
LEMMA AtMostOne ==
    ASSUME NEW S, \A i, j \in S : i = j
    PROVE  IsFiniteSet(S) /\ Cardinality(S) \in {0, 1} /\ (S # {} => Cardinality(S) = 1)
<1>1. CASE S = {}
    BY <1>1, FS_EmptySet
<1>2. CASE S # {}
  <2>1. PICK i : i \in S
      BY <1>2
  <2>2. S = {i}
      BY <2>1
  <2> QED
      BY <2>2, FS_Singleton
<1> QED
    BY <1>1, <1>2

\* A running transfer waits for one answer at a time.
THEOREM StopAndWaitHolds ==
    ASSUME OneAtATime
    PROVE  Spec => []StopAndWait
<1>1. RepliesInv => StopAndWait
  <2> SUFFICES ASSUME RepliesInv, NEW k \in Kind, Active(k)
               PROVE  Cardinality({i \in DOMAIN toDev : toDev[i].of = k})
                      + Cardinality({i \in DOMAIN toHost : toHost[i].to.of = k}) <= 1
      BY DEF StopAndWait
  <2> DEFINE A == {i \in DOMAIN toDev : toDev[i].of = k}
             B == {i \in DOMAIN toHost : toHost[i].to.of = k}
  <2>1. k # "ping" /\ AnyActive(xfer)
      BY DEF Kind, AnyActive, Active
  <2>2. A \subseteq Asked /\ B \subseteq Answered
      BY <2>1 DEF Asked, Answered, RepliesInv, WireInv, PongsAnswerPings
  <2>3. /\ \A i, j \in A : i = j
        /\ \A i, j \in B : i = j
        /\ A = {} \/ B = {}
      BY <2>1, <2>2 DEF RepliesInv, WireInv, OneOutstanding
  <2> HIDE DEF A, B
  <2>4. Cardinality(A) \in {0, 1} /\ Cardinality(B) \in {0, 1}
      BY <2>3, AtMostOne
  <2>5. Cardinality(A) = 0 \/ Cardinality(B) = 0
      BY <2>3, FS_EmptySet
  <2>6. Cardinality(A) + Cardinality(B) <= 1
      BY <2>4, <2>5
  <2> QED
      BY <2>6 DEF A, B
<1> QED
    BY <1>1, RepliesInvariant, PTL

\* What a completion is reported for is the answer to FINISH with the whole
\* image, never a reply meant for somebody else.
THEOREM CompletionHolds ==
    ASSUME OneAtATime
    PROVE  Spec => CompletionIsEarned
<1> DEFINE Done(k) ==
             \/ signal' = CompletionSignal[k]
             \/ k = "up" /\ Active("up") /\ signal' = "multiUploadComplete"
           Earned == \A k \in Kind : Done(k) => Head(toHost).to = Msg("finish", k, Chunks[k])
<1>1. ASSUME RepliesInv, Next
      PROVE  Earned
  <2> SUFFICES ASSUME NEW k \in Kind, Done(k)
               PROVE  Head(toHost).to = Msg("finish", k, Chunks[k])
      OBVIOUS
  <2>1. CompletionSignal[k] \in {"fwUpdateComplete", "espUpdateComplete", "fileUploadComplete"}
      BY DEF CompletionSignal, Kind
  <2>2. signal' \in {"fwUpdateComplete", "espUpdateComplete", "fileUploadComplete",
                     "multiUploadComplete"}
      BY <2>1
  <2>3. OnAck
    <3>1. ~QmlCall
        BY <2>2
        DEF QmlCall, StartFwUpdate, StartEspUpdate, UploadOne, UploadFiles, UploadFolder,
            EraseInactiveBank, SwapBanks, FileCommand, MiscCommand, Reboot, Refused, Begin,
            UploadFile
    <3>2. ~Environment
        BY <2>2
        DEF Environment, DevAnswer, Wedge, LoseFrame, IdlePasses, LinkDrop, LinkLost,
            IdleLinkCloses, IdleLinkOpens, DialFails, ConnectSerial, ConnectWifi, WifiUp
    <3>3. ~OnNack
        BY <2>2
        DEF OnNack, EraseRefused, SwapRefused, TransferAborted, StaleNackAbsorbed, FileCmdRefused
    <3>4. ~(OnPong \/ FwUpdateTimeout \/ EspUpdateTimeout \/ FileUploadTimeout)
        BY <2>2 DEF OnPong, FwUpdateTimeout, EspUpdateTimeout, FileUploadTimeout, TimedOut
    <3>5. ~(PingTick \/ CloseShot)
        BY <2>2 DEF PingTick, CloseShot, LinkLost
    <3> QED
        BY <1>1, <3>1, <3>2, <3>3, <3>4, <3>5 DEF Next, EventLoop
  <2>4. Active(k) /\ xfer[k].st = "WaitingFinishAck"
    <3>1. ~(EraseAcked \/ SwapAcked \/ \E j \in Kind : TransferAcked(j))
        BY <2>2 DEF EraseAcked, SwapAcked, TransferAcked
    <3>2. ASSUME NEW j \in Kind, TransferComplete(j)
          PROVE  j = k
        BY <3>2 DEF TransferComplete, CompletionSignal, Kind
    <3>3. CASE QueuedUploadComplete
        BY <2>2, <3>3 DEF QueuedUploadComplete, UploadFile, CompletionSignal, Kind
    <3>4. ~FileCmdAcked
      <4>1. ~(mkdirQueue.idx >= 0)
          BY <1>1 DEF RepliesInv, Ground, NoFolders, SessionTypes, QueueTypes
      <4>2. pendingFileCmd \in FileCmds \cup {"none"}
          BY <1>1 DEF RepliesInv, Ground, SessionTypes, NameTypes
      <4>3. FileSignal[pendingFileCmd] \in {"fileDeleteComplete", "fileRenameComplete",
                                            "fileMkdirComplete", "sdMountChanged", "none"}
          BY <4>2 DEF FileSignal, FileCmds
      <4> QED
          BY <2>2, <4>1, <4>3 DEF FileCmdAcked
    <3> QED
        BY <2>3, <3>1, <3>2, <3>3, <3>4 DEF OnAck, TransferComplete, QueuedUploadComplete, Active
  <2>5. /\ 1 \in DOMAIN toHost /\ Head(toHost) = toHost[1] /\ Head(toHost).r = "ack"
      BY <1>1, <2>3, TailItems DEF OnAck, Handled, RepliesInv, Ground, SessionTypes, DeviceTypes
  <2>6. Head(toHost).to = LastSent(k)
      BY <1>1, <2>4, <2>5 DEF RepliesInv, WireInv, InStep, Answered
  <2>7. xfer[k].off = Chunks[k]
      BY <1>1, <2>4 DEF RepliesInv, Ground, TransferInv, OffsetsMatchPhase
  <2> QED
      BY <2>4, <2>6, <2>7 DEF LastSent
<1>2. RepliesInv /\ [Next]_vars => [Earned]_vars
    BY <1>1
<1> HIDE DEF Earned
<1>3. Spec => [][Earned]_vars
    BY <1>2, RepliesInvariant, PTL DEF Spec
<1> QED
    BY <1>3 DEF Earned, CompletionIsEarned
=============================================================================
