------------------------------ MODULE WifiLink ------------------------------
(***************************************************************************)
(* The two threads behind a WiFi link.  WifiTransport lives in the GUI     *)
(* thread and only posts requests; NetworkWorker owns the sockets and the  *)
(* frame codec.  Requests and answers are queued signals: each queue is    *)
(* FIFO, and any number of steps may pass between post and delivery.       *)
(*                                                                         *)
(* At the far end, the ESP32 of the M1 takes frames over TCP and sends     *)
(* frames back, as bytes the worker reads in blocks of any size, and       *)
(* streams the screen in UDP datagrams that may be late, lost, doubled or  *)
(* reordered.                                                              *)
(***************************************************************************)
EXTENDS FrameCodec, FiniteSets, SequencesExt

CONSTANTS
    MaxPending,    \* kMaxPendingTx (64)
    SeqRange,      \* values of frame_seq (2^16)
    FirstSeq,      \* frame_seq of the first datagram of a stream
    Replies,       \* the frames the device sends, in order
    MaxDials, MaxCloses, MaxWrites,   \* bounds: calls
    MaxCalls,                         \* bound: calls and replies together
    MaxStreams, MaxGrams,             \* bounds: streams, datagrams of one
    MaxQueue                          \* bound: requests waiting at a call

ASSUME WifiAssumption ==
    /\ MaxPending \in Nat /\ SeqRange \in Nat /\ SeqRange % 2 = 0
    /\ FirstSeq \in 0..(SeqRange - 1) /\ Replies \in Seq(Frame)
    /\ {MaxDials, MaxCloses, MaxWrites, MaxCalls, MaxStreams, MaxGrams,
        MaxQueue} \subseteq Nat

VARIABLES
    \* the two queues of signals
    toWorker, fromWorker,
    \* WifiTransport
    up,                \* m_connected
    \* NetworkWorker
    tcp,               \* state of m_tcp: "off", "dialing", "on", "closing"
    pendingClose,      \* QTcpSocket: close as soon as the connection is made
    pendingTx,         \* m_pendingTx
    codec,             \* m_codec
    screenActive, epoch, lastSeq,    \* epoch = 0: ~m_epochKnown; lastSeq = -1: none
    \* the CRC dialect both threads share: g_dialectLocked, g_txDialect
    locked, txDialect,
    resetting,         \* GUI: between the two stores of resetCrcDialect()
    flip,              \* GUI: the ping loop between its loads and its store
    latch,             \* worker: the validated frame between exchange and store
    \* the network and the device
    speaks,            \* the dialect of the device
    toDev,             \* frames written to the socket
    fromDev,           \* frames not read to the end: the bytes left of each
    streaming,         \* the ESP has a UDP target
    streams,           \* epochs used so far
    grams,             \* datagrams that are or may come again
    nextGram,          \* index of the next datagram of the stream
    \* bounds and history
    dials, closes, writes, replies,
    linkCloses,        \* closes asked for before this connection was
    sent, got,         \* frames sent and decoded over this connection
    taken,             \* the last frame the device took, 0: none
    raced,             \* a frame was validated while the GUI wrote the dialect
    twin,              \* the frame that settled it is the same in both dialects
    shown              \* the datagram shown last since the stream was armed

queues == <<toWorker, fromWorker>>
socket == <<tcp, pendingClose, pendingTx, codec>>
screen == <<screenActive, epoch, lastSeq, shown>>
crcVars == <<locked, txDialect, resetting, flip, latch, raced, twin, speaks>>
device == <<toDev, fromDev, streaming, streams, grams, nextGram>>
bounds == <<dials, closes, writes, replies>>
history == <<linkCloses, sent, got, taken>>
vars == <<queues, up, socket, screen, crcVars, device, bounds, history>>

NoGram == [epoch |-> 0, n |-> 0]

Init ==
    /\ toWorker = <<>> /\ fromWorker = <<>> /\ up = FALSE
    /\ tcp = "off" /\ pendingClose = FALSE /\ pendingTx = <<>> /\ codec = Reset
    /\ screenActive = FALSE /\ epoch = 0 /\ lastSeq = -1 /\ shown = NoGram
    /\ locked = FALSE /\ txDialect = "Correct" /\ resetting = FALSE /\ flip = "no"
    /\ latch = <<>> /\ raced = FALSE /\ twin = FALSE
    /\ speaks \in Dialect
    /\ toDev = <<>> /\ fromDev = <<>> /\ streaming = FALSE /\ streams = 0
    /\ grams = {} /\ nextGram = 0
    /\ dials = 0 /\ closes = 0 /\ writes = 0 /\ replies = 0
    /\ linkCloses = 0 /\ sent = <<>> /\ got = <<>> /\ taken = 0

-----------------------------------------------------------------------------
(* The GUI thread posts requests: open(), close(), send(), armScreen().    *)

Post(msgs) == toWorker' = toWorker \o msgs
Answer(msgs) == fromWorker' = fromWorker \o msgs

Signal(kind) == [kind |-> kind]
ControlFrame(f) == [kind |-> "frame", frame |-> f]

\* A frame of M1Device, built in the dialect of the moment; "closes", history,
\* says how often M1Device had closed the link.
Data(n, what) == [id |-> n, closes |-> closes, what |-> what, dialect |-> txDialect]
Request(kind) == [kind |-> kind, closes |-> closes]
WriteRequest(data) == [kind |-> "write", data |-> data]

GuiIdle == ~resetting /\ flip = "no"
Budget == dials + closes + writes + replies < MaxCalls
CanCall == GuiIdle /\ Len(toWorker) < MaxQueue /\ Budget

Open ==
    /\ CanCall /\ dials < MaxDials
    /\ dials' = dials + 1
    /\ Post(<<Request("connect")>>)
    /\ UNCHANGED <<crcVars, fromWorker, up, socket, screen, device, closes, writes, replies, history>>

Close ==
    /\ CanCall /\ closes < MaxCloses
    /\ closes' = closes + 1
    /\ Post(<<Request("close")>>)
    /\ UNCHANGED <<crcVars, fromWorker, up, socket, screen, device, dials, writes, replies, history>>

Send ==
    /\ CanCall /\ writes < MaxWrites
    /\ writes' = writes + 1
    /\ Post(<<WriteRequest(Data(writes + 1, "command"))>>)
    /\ UNCHANGED <<crcVars, fromWorker, up, socket, screen, device, dials, closes, replies, history>>

\* startScreenStream(): arm the receiver, then tell the device.
StartScreenStream ==
    /\ CanCall /\ writes < MaxWrites
    /\ writes' = writes + 1
    /\ Post(<<Request("arm"), WriteRequest(Data(writes + 1, "start"))>>)
    /\ UNCHANGED <<crcVars, fromWorker, up, socket, screen, device, dials, closes, replies, history>>

\* stopScreenStream().
StopScreenStream ==
    /\ CanCall /\ writes < MaxWrites /\ writes > 0
    /\ writes' = writes + 1
    /\ Post(<<Request("disarm"), WriteRequest(Data(writes + 1, "stop"))>>)
    /\ UNCHANGED <<crcVars, fromWorker, up, socket, screen, device, dials, closes, replies, history>>

Hears(kind) ==
    /\ GuiIdle /\ fromWorker # <<>> /\ Head(fromWorker).kind = kind
    /\ fromWorker' = Tail(fromWorker)

\* onWorkerConnected(): startSession() resets the dialect, in two stores.
HearConnected ==
    /\ Hears("connected")
    /\ up' = TRUE
    /\ locked' = FALSE /\ resetting' = TRUE /\ raced' = (latch # <<>>)
    /\ UNCHANGED <<txDialect, flip, latch, twin, speaks, toWorker, socket, screen, device,
                   bounds, history>>

ResetStores ==
    /\ resetting
    /\ resetting' = FALSE /\ txDialect' = "Correct"
    /\ UNCHANGED <<locked, flip, latch, raced, twin, speaks, queues, up, socket, screen, device,
                   bounds, history>>

\* onWorkerDisconnected(), for one loss maybe twice, and controlFrame.
HearDisconnected ==
    /\ Hears("disconnected")
    /\ up' = FALSE
    /\ UNCHANGED <<crcVars, toWorker, socket, screen, device, bounds, history>>

HearFrame ==
    /\ Hears("frame")
    /\ UNCHANGED <<up, crcVars, toWorker, socket, screen, device, bounds, history>>

Other(d) == IF d = "Correct" THEN "Legacy" ELSE "Correct"

\* Mutant of MayFlip: the ping loop alternates even when the dialect is settled.
MayFlipAlways == TRUE
MayFlip == ~locked

\* The ping loop: while no reply has settled the dialect, it loads the dialect
\* (PingLoads), stores the other one (PingStores) and pings with it (Send).
PingLoads ==
    /\ GuiIdle /\ up /\ MayFlip /\ writes < MaxWrites
    /\ flip' = Other(txDialect)
    /\ raced' = (raced \/ latch # <<>>)
    /\ UNCHANGED <<locked, txDialect, resetting, latch, twin, speaks, queues, up, socket,
                   screen, device, bounds, history>>

PingStores ==
    /\ flip # "no"
    /\ flip' = "no" /\ txDialect' = flip
    /\ UNCHANGED <<locked, resetting, latch, raced, twin, speaks, queues, up, socket, screen,
                   device, bounds, history>>

-----------------------------------------------------------------------------
(* The worker takes one request.                                           *)

DisarmLatch == screenActive' = FALSE /\ epoch' = 0 /\ lastSeq' = -1 /\ shown' = NoGram

WorkerIdle == latch = <<>>
Take(kind) == WorkerIdle /\ toWorker # <<>> /\ Head(toWorker).kind = kind /\ toWorker' = Tail(toWorker)

\* Mutant of Abort: an aborted connection says nothing.
AbortSilently == UNCHANGED <<fromWorker, screen>>

\* abort() on a socket that is not unconnected; an established connection says
\* disconnected(), a dial does not.
Abort ==
    IF tcp \in {"on", "closing"} THEN Answer(<<Signal("disconnected")>>) /\ DisarmLatch
                                 ELSE UNCHANGED <<fromWorker, screen>>

ConnectToHost ==
    /\ Take("connect")
    /\ Abort
    /\ tcp' = "dialing" /\ pendingClose' = FALSE
    /\ linkCloses' = Head(toWorker).closes
    /\ toDev' = <<>> /\ fromDev' = <<>> /\ streaming' = FALSE
    /\ UNCHANGED <<crcVars, up, pendingTx, codec, streams, grams, nextGram, bounds, sent, got, taken>>

\* Mutant of ClearPending: a deliberate close keeps the held-back frames.
ClearPendingNot == UNCHANGED pendingTx
ClearPending == pendingTx' = <<>>

DisconnectFromHost ==
    /\ Take("close")
    /\ ClearPending
    /\ screenActive' = FALSE
    /\ tcp' = IF tcp = "on" THEN "closing" ELSE tcp
    /\ pendingClose' = (tcp = "dialing" \/ pendingClose)
    /\ UNCHANGED <<crcVars, fromWorker, up, codec, epoch, lastSeq, shown, device, bounds, history>>

\* Mutant of HoldBack: one frame more than the buffer holds.
HoldBackOneMore(data) ==
    pendingTx' = IF Len(pendingTx) <= MaxPending THEN Append(pendingTx, data) ELSE pendingTx

\* A frame that finds the buffer full is dropped.
HoldBack(data) ==
    pendingTx' = IF Len(pendingTx) < MaxPending THEN Append(pendingTx, data) ELSE pendingTx

WriteData ==
    /\ Take("write")
    /\ LET data == Head(toWorker).data
       IN  IF tcp = "on"
           THEN toDev' = Append(toDev, data) /\ UNCHANGED pendingTx
           ELSE /\ UNCHANGED toDev
                /\ HoldBack(data)
    /\ UNCHANGED <<crcVars, fromWorker, up, tcp, pendingClose, codec, screen, fromDev, streaming,
                   streams, grams, nextGram, bounds, history>>

ArmScreen ==
    /\ Take("arm")
    /\ screenActive' = TRUE /\ epoch' = 0 /\ lastSeq' = -1 /\ shown' = NoGram
    /\ UNCHANGED <<crcVars, fromWorker, up, socket, device, bounds, history>>

DisarmScreen ==
    /\ Take("disarm")
    /\ screenActive' = FALSE
    /\ UNCHANGED <<crcVars, fromWorker, up, socket, epoch, lastSeq, shown, device, bounds, history>>

-----------------------------------------------------------------------------
(* The sockets call the worker.                                            *)

\* Mutants: a new connection inherits the decoder; the flush keeps what it sent.
ResetCodecNot == UNCHANGED codec
FlushPendingKeeps == toDev' = toDev \o pendingTx /\ UNCHANGED pendingTx
ResetCodec == codec' = Reset
FlushPending == toDev' = toDev \o pendingTx /\ pendingTx' = <<>>

OnTcpConnected ==
    /\ WorkerIdle /\ tcp = "dialing"
    /\ ResetCodec
    /\ FlushPending
    /\ Answer(<<Signal("connected")>>)
    /\ tcp' = IF pendingClose THEN "closing" ELSE "on"
    /\ pendingClose' = FALSE
    /\ sent' = <<>> /\ got' = <<>>
    /\ UNCHANGED <<crcVars, toWorker, up, screen, fromDev, streaming, streams, grams, nextGram,
                   bounds, linkCloses, taken>>

\* onTcpError() of a dial that failed: the socket is unconnected already.
OnTcpError ==
    /\ WorkerIdle /\ tcp = "dialing"
    /\ tcp' = "off" /\ pendingClose' = FALSE
    /\ Answer(<<Signal("disconnected")>>)
    /\ UNCHANGED <<crcVars, toWorker, up, pendingTx, codec, screen, device, bounds, history>>

\* onTcpDisconnected(): the connection was lost, or the close is done.  What
\* was not read or delivered is gone.
OnTcpDisconnected ==
    /\ WorkerIdle /\ tcp \in {"on", "closing"}
    /\ tcp' = "off"
    /\ DisarmLatch
    /\ toDev' = <<>> /\ fromDev' = <<>> /\ streaming' = FALSE
    /\ \E doubled \in BOOLEAN :   \* onTcpError() may have said it before
           Answer([i \in 1..(IF doubled THEN 2 ELSE 1) |-> Signal("disconnected")])
    /\ UNCHANGED <<crcVars, toWorker, up, pendingClose, pendingTx, codec, streams, grams, nextGram,
                   bounds, history>>

\* onTcpReadyRead(): a block goes through the codec, byte by byte.  A block of n
\* bytes is n steps here: no other slot of the worker can tell whether it runs
\* inside a block or between two.  A frame that passes locks the dialect; the
\* first one stores its own, a step later.
OnTcpReadyRead ==
    /\ WorkerIdle /\ tcp \in {"on", "closing"} /\ fromDev # <<>>
    /\ LET b == Head(Head(fromDev))
           rest == Tail(Head(fromDev))
           frames == Completed(codec, b)
       IN  /\ codec' = ProcessByte(codec, b)
           /\ fromDev' = IF rest = <<>> THEN Tail(fromDev) ELSE <<rest>> \o Tail(fromDev)
           /\ IF frames = <<>>
              THEN UNCHANGED <<locked, latch, raced, twin, got, fromWorker>>
              ELSE /\ locked' = TRUE
                   /\ got' = Append(got, frames[1].frame)
                   /\ IF locked
                      THEN /\ Answer(<<ControlFrame(frames[1].frame)>>)
                           /\ UNCHANGED <<latch, raced, twin>>
                      ELSE /\ latch' = frames /\ twin' = SameInBoth(frames[1].frame)
                           /\ raced' = (raced \/ ~GuiIdle)
                           /\ UNCHANGED fromWorker
    /\ UNCHANGED <<txDialect, resetting, flip, speaks, toWorker, up, tcp, pendingClose,
                   pendingTx, screen, toDev, streaming, streams, grams, nextGram, bounds,
                   linkCloses, sent, taken>>

\* The second half of crc16ValidateRx() for the first frame, which then goes out.
LatchStores ==
    /\ latch # <<>>
    /\ txDialect' = latch[1].dialect
    /\ latch' = <<>>
    /\ Answer(<<ControlFrame(latch[1].frame)>>)
    /\ UNCHANGED <<locked, resetting, flip, raced, twin, speaks, toWorker, up, socket, screen,
                   device, bounds, history>>

FrameSeq(g) == (FirstSeq + g.n) % SeqRange

\* Mutant of Ahead: only the same number again is refused.
AheadOrBehind(seq) == lastSeq = -1 \/ seq # lastSeq
\* The u16 comparison: seq is ahead of lastSeq by less than half the range.
Ahead(seq) ==
    lastSeq = -1 \/ (seq - lastSeq) % SeqRange \in 1..(SeqRange \div 2 - 1)

\* onUdpReadyRead(): the first datagram after armScreen() latches the epoch.
OnDatagram(g) ==
    /\ WorkerIdle /\ screenActive
    /\ epoch = 0 \/ epoch = g.epoch
    /\ epoch' = g.epoch
    /\ IF Ahead(FrameSeq(g))
       THEN lastSeq' = FrameSeq(g) /\ shown' = g
       ELSE UNCHANGED <<lastSeq, shown>>
    /\ UNCHANGED <<crcVars, queues, up, socket, screenActive, device, bounds, history>>

-----------------------------------------------------------------------------
(* The device.                                                             *)

\* It understands a frame of its own dialect, and one of the other if the two
\* have the same CRC.  SCREEN_START opens a stream under a new epoch,
\* SCREEN_STOP ends it.
Asks(what) == Head(toDev).what = what
Foreign == Head(toDev).dialect # speaks

DeviceTakes ==
    /\ toDev # <<>>
    /\ toDev' = Tail(toDev)
    /\ taken' = Head(toDev).id
    /\ \/ /\ Asks("start") /\ streams < MaxStreams
          /\ streaming' = TRUE /\ streams' = streams + 1 /\ nextGram' = 0
       \/ Asks("stop") /\ streaming' = FALSE /\ UNCHANGED <<streams, nextGram>>
       \/ /\ Asks("command") \/ Foreign
          /\ UNCHANGED <<streaming, streams, nextGram>>
    /\ UNCHANGED <<crcVars, queues, up, socket, screen, fromDev, grams, bounds, linkCloses, sent, got>>

DeviceReplies ==
    /\ tcp = "on" /\ replies < Len(Replies) /\ Budget
    /\ replies' = replies + 1
    /\ fromDev' = Append(fromDev, BuildFrame(Replies[replies'], speaks))
    /\ sent' = Append(sent, Replies[replies'])
    /\ UNCHANGED <<crcVars, queues, up, socket, screen, toDev, streaming, streams, grams, nextGram,
                   dials, closes, writes, linkCloses, got, taken>>

DeviceStreams ==
    /\ streaming /\ nextGram < MaxGrams
    /\ nextGram' = nextGram + 1
    /\ grams' = grams \cup {[epoch |-> streams, n |-> nextGram]}
    /\ UNCHANGED <<crcVars, queues, up, socket, screen, toDev, fromDev, streaming, streams, bounds, history>>

Gui == Open \/ Close \/ Send \/ StartScreenStream \/ StopScreenStream
       \/ HearConnected \/ HearDisconnected \/ HearFrame
       \/ ResetStores \/ PingLoads \/ PingStores
Worker == \/ ConnectToHost \/ DisconnectFromHost \/ WriteData \/ ArmScreen \/ DisarmScreen
          \/ OnTcpConnected \/ OnTcpError \/ OnTcpDisconnected \/ OnTcpReadyRead \/ LatchStores
          \/ \E g \in grams : OnDatagram(g)
Device == DeviceTakes \/ DeviceStreams \/ DeviceReplies

Next == Gui \/ Worker \/ Device

Spec == Init /\ [][Next]_vars

-----------------------------------------------------------------------------
(* Properties.                                                             *)

\* Every variable keeps to its type; the codec is in a state whose buffers fit.
TypeOK ==
    /\ tcp \in {"off", "dialing", "on", "closing"}
    /\ up \in BOOLEAN /\ pendingClose \in BOOLEAN /\ screenActive \in BOOLEAN
    /\ streaming \in BOOLEAN
    /\ Len(pendingTx) <= MaxPending
    /\ epoch \in 0..MaxStreams /\ lastSeq \in -1..(SeqRange - 1)
    /\ codec \in Decoder

\* The frames decoded from a connection are those the device sent over it, whole
\* and in order, in whatever blocks the bytes arrive and wherever the connection
\* before it was cut.
FramesIntact == tcp = "on" => IsPrefix(got, sent)

\* A frame that M1Device sent before it closed the link is never written to a
\* connection opened after the close, held back or not.
NoReplayAcrossClose ==
    \A i \in DOMAIN toDev : toDev[i].closes >= linkCloses

\* The device takes frames in the order M1Device sent them and none twice,
\* over every flush of the held-back ones and every reconnect.
SentInOrder ==
    /\ \A i, j \in DOMAIN toDev : i < j => toDev[i].id < toDev[j].id
    /\ \A i \in DOMAIN toDev : toDev[i].id > taken

\* When nothing is on its way between the threads, the GUI thread sees the link
\* as the worker does.
FacadeAgrees == fromWorker = <<>> => (up <=> tcp \in {"on", "closing"})

\* A settled dialect is the device's, so that the device understands what it is
\* sent - unless the frame that settled it reads the same in both dialects, or was
\* validated while the GUI thread was between two accesses of its own to the same
\* two variables.
OnlyRaceOrTwinMislatches ==
    locked /\ latch = <<>> /\ GuiIdle /\ ~raced /\ ~twin => txDialect = speaks

\* In a session the first validated frame latches the peer's dialect, but for that
\* race.
FirstFrameTellsDialect ==
    up /\ locked /\ latch = <<>> /\ GuiIdle /\ ~raced => txDialect = speaks

\* The picture never goes back: between two arms of the receiver all datagrams
\* shown are of one stream, each newer than the one before, whatever arrives
\* late or twice; and of that stream none that is newer is refused.
ScreenFollowsStream ==
    [][\A g \in grams :
         OnDatagram(g) /\ shown # NoGram =>
             /\ g.epoch = shown.epoch
             /\ shown' = IF g.n > shown.n THEN g ELSE shown]_vars

\* Once the device has taken every frame, the receiver listens to the stream that
\* runs and not to one that ended before it was armed.
ListensToRunningStream ==
    (/\ toWorker = <<>> /\ pendingTx = <<>> /\ toDev = <<>>
     /\ streaming /\ screenActive /\ epoch # 0) => epoch = streams
=============================================================================
