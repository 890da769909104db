# qMonstatek in TLA+

A verification project for qMonstatek, the desktop companion of the M1: it talks
to the device over USB serial or WiFi, updates its firmware and the firmware of
its ESP32, moves files, and mirrors its screen. Paths below are relative to the
repository root unless they start with `M1Session` or another module name.

    tlc -workers 2 -config session_safety.cfg MCM1Session.tla     # and the other .cfg
    tlapm M1Session_proofs.tla                                     # and the other *_proofs.tla

## 1. Inventory

| Part | State | Operations | Hard behaviour | What makes it correct | Module |
|---|---|---|---|---|---|
| `M1Device` session (`src/backend/device/m1_device.cpp`) | state, offset and timeout of three transfers; pending erase, swap and file command; upload and mkdir queues; keepalive flags | QML calls; `onFrameReceived`, `handleAck`, `handleNack`; timeouts; `onTransportConnected` | replies carry no usable identity; four operations exclude each other through flags spread over the file; timeouts race with late answers; the link drops between any two steps | one transfer at a time, each with a deadline; a completion is earned by the answer to FINISH; nothing of a lost session survives; a wedged device is noticed | `M1Session` |
| Serial transport | port open or not | `open`, `close`, `send`, `onError` | `open` closes first and runs the disconnect handling in the middle of a connect | a closed port takes no frame | `M1Session`, `Reconnect` |
| Reconnect (`onDeviceFound`, `trySerialReconnect`, `tryWifiReconnect`, discovery, mDNS, `--port`) | retry timers, attempt counters, preferred port, user intent, list of known ports | timer slots, discovery edges, the selector | three mechanisms compete for the link; attempt limits; `forgetPort()` edits the list being scanned; start-up | every pending retry has a timer; none survives `disconnect()`; another M1 is not taken; all retries end | `Reconnect` |
| WiFi transport and `NetworkWorker` | socket state as two threads see it; `m_pendingTx`; UDP epoch and sequence | queued calls to a worker thread and queued signals back | a thread boundary inside every operation; frames buffered over a reconnect; datagrams late, twice or from before | frames arrive once, in order, and not after a close; both threads agree in the end; the picture never goes back | `WifiLink` |
| Frame codec (`rpc_frame.cpp`) | decoder state and buffers | `feed`, `reset`, `buildFrame` | frames cut anywhere, payloads that contain the sync byte | what was built is decoded once, however it is cut | `FrameCodec` |
| CRC dialect (`crc16.cpp`) | dialect and lock, two atomics | validate, set, reset, ping loop | written by two threads, one variable after the other | a validated reply settles the dialect | `WifiLink` |
| DFU flasher and its helper (`dfu_flasher.cpp`, `tools/stm32_dfu_flash.c`) | three child processes, busy flags | scan, flash, swap, cancel | a process dies, is killed, fails to start, or ends while its output is still unread; the bank written depends on an option byte read earlier | the firmware that boots survives a flash of the other bank; success is said only of what was asked | `DfuFlasher`, `FlashBanks` |
| SWD recovery (`swd_recovery.cpp`) | one child process running a script | six operations, cancel | a script stops anywhere, with either probe | the same | `SwdRecovery`, `FlashBanks` |
| GitHub checker (`github_checker.cpp`) | one destination, several replies | `downloadAsset`, `onDownloadReply` | two downloads share the destination; the views listen only while visible | a file holds the image it is named after; no view waits for nothing | `Downloads` (the download half) |
| QML views | which view is active, dialogs, selected files | the buttons | dialogs with a snapshot of an older selection | guards of the calls | `Recovery`, `Reconnect` (parts) |
| Downloads, listings and device info of `M1Device` | receive buffer and expected size | INFO requests, `handleFileReadData` | end of file recognised by a short chunk | the file written is the file read | planned |
| QML orchestration (Update all, Factory restore) | a phase | signals of the above | a signal of another operation moves the phase | a phase ends only by its own operation | planned |
| Self updater, app switcher, screen buffer and canvas, log model, settings, tool paths, packaging, `TcpTransport` | - | - | sequential, or not constructed at all | - | not modelled |

QML calls slots of `M1Device` and hears its signals, on one event loop. Only
`NetworkWorker` runs in a second thread. `M1Device` owns the transports, the
codec and the discovery; `AbstractTransport` tells it `connectionChanged` and
`dataReceived`.

`PROJECT.json` lists the hazards, each at its line and with the property that
covers it or the reason why none does yet.

## 2. Modules

| Module | Models | Role |
|---|---|---|
| `Transfer` | one transfer as seen from outside: START, every chunk in order, FINISH, given up at any point | abstract specification |
| `M1Session` | the session of `M1Device` over both transports | detailed specification and properties |
| `MCM1Session` | image sizes and mixes of calls | instances for TLC |
| `M1Session_proofs`, `M1Replies_proofs` | - | theorems and proofs |
| `Reconnect` | who opens and reopens the link: user, discovery, two retry timers, mDNS, `--port` | specification and properties |
| `MCReconnect`, `Reconnect_proofs` | ports and addresses; - | instances for TLC; theorems and proofs |
| `FrameCodec`, `FrameCodec_proofs` | `FrameCodec` as operators: how a frame becomes bytes, what a byte does to the decoder; - | used by `WifiLink`; theorems and proofs |
| `WifiLink`, `MCWifiLink` | `WifiTransport`, `NetworkWorker`, their queues, the CRC dialect, the network and the far end | specification, properties; instance |
| `WifiLink_proofs` | - | theorems and proofs |
| `FlashBanks` | two banks, `SWAP_BANK`, the DFU interface, the firmware files on disk | shared state of the next three |
| `DfuFlasher` | `DfuFlasher` and the programs it starts | component |
| `SwdRecovery` | `SwdRecovery` and its scripts | component |
| `Downloads` | the downloads of `GithubChecker` and the two views that use them | component |
| `Recovery`, `MCRecovery` | the three components on one device, with one user | composition and properties; instance |
| `Recovery_proofs` | - | theorems and proofs |

`M1Session` takes its link as it comes; `Reconnect` is the part of `M1Device` that
decides which link that is, `WifiLink` what happens inside a WiFi link.

### How M1Session corresponds to the code

Every action is one slot of the event loop.

* **Calls.** `StartFwUpdate`, `StartEspUpdate`, `UploadOne`, `UploadFiles`,
  `UploadFolder`, `EraseInactiveBank`, `SwapBanks`, `FileCommand(c)`, `Reboot`,
  and `MiscCommand` for everything that is acknowledged without anybody waiting
  for it (buttons, screen, log level). `Refused` is any early return with an
  error: occupied, or a file that cannot be used.
* **Replies.** `handleAck()` and `handleNack()` ask who is waiting, in a fixed
  order; that order is `Claimant`. `OnAck` and `OnNack` are one disjunct per
  branch, with everything the branch does: the next chunk, the next file of a
  queue, resuming the keepalive. A reply carries, as history, the command it
  answers: no action reads it, properties do.
* **Timers.** The three transfer timeouts, the 3 s ping timer (`PingTick`: close
  the link or send the next PING), the 500 ms closes of `reboot()` and of a bank
  swap (`CloseShot`). Time is abstract: a running timer may fire, `IdlePasses`
  says that 20 s went by without an inbound frame.
* **Link.** `LinkDrop` is any way a link ends, and runs `onTransportConnected(false)`
  (`LinkLost`, `ResetOnDrop`). `ConnectSerial` covers a port that opens or not,
  and the `close()` inside `SerialTransport::open()`. `ConnectWifi` switches the
  transport at once and connects later (`WifiUp`): the worker first flushes what
  it held back (`Send`), then the session starts. While `dialing`, the socket may
  also fail (`DialFails`: an error and no `connectionChanged`), or open after the
  serial port was taken into use (`IdleLinkOpens`). `idleOpen` is the transport
  that `setTransport()` left behind open.
* **Device.** External: it answers each command with ACK or NACK, and counts the
  chunks that arrive in order since START (`received`).

The three transfers have the same code three times in the source and one set of
definitions here, with the kind as parameter; the differences (queue advance for
uploads, late-reply flag and clean-up FINISH for the ESP32) are kept.

Left out of `M1Session`, and why:

* INFO requests, listings, downloads, the screen stream and log messages: their
  replies have their own command numbers and never reach `handleAck()`.
* The offset of a transfer that is Idle is 0 here; in the code it keeps its last
  value, which every start overwrites before it is read.
* Slots of QML that answer a signal run here after the slot that emitted it, as
  calls of their own. In `onTransportConnected(false)` the signals come while the
  reset is under way.
* Closing the WiFi socket is one step, without the queued calls between the two
  threads, and the dialect is not in it: `WifiLink` has both. A partial write to
  the port, which only emits an error, is left out.

### How Reconnect corresponds to the code

Every action is one slot, with one exception: `DeviceDiscovery::scan()` calls its
handlers while it walks `m_ports`, and these may edit the list through
`forgetPort()`. So a scan is `ScanStart` (enumerate), one `ScanFound(p)` per port
and `ScanEnd` (lost ports, `m_ports = currentPorts`, which undoes the edits); no
other slot runs in between. `Init` is the state inside the constructor of
`M1Device`, whose first scan comes before `main()` passes `--port`
(`SetPreferredSerialPort`). `ConnectDevice` and `ConnectFails` are the two ends of
`connectToDevice()`; an `open()` on an open port runs `SerialDropped` in its middle.
`closedByUser` and `mine` are history: what the user last asked for.

Assumed of the environment: the selector is modal, as in `DeviceSelector.qml`;
the abort of an older socket is heard before a hand can reach Disconnect; the
delay between attempts is abstract (a running timer may fire at any time).

### How WifiLink corresponds to the code

The two threads take steps independently and speak through two FIFO queues
(`toWorker`, `fromWorker`): a slot of `WifiTransport` posts, a slot of
`NetworkWorker` takes (`Take(kind)`). Each access to the two atomics of the CRC
dialect is a step: `HearConnected`/`ResetStores`, `PingLoads`/`PingStores`, and in
the worker `OnTcpReadyRead`/`LatchStores`. A block of bytes goes through `feed()`
byte by byte, and so does `OnTcpReadyRead`, one byte a step: no other slot of the
worker runs inside a block, and the GUI thread runs at any time anyway. `fromDev`
holds what is left of each frame under way. The TCP connection itself keeps order
and loses nothing while it lasts; when it is cut, everything on the way is lost. Datagrams (`grams`)
may arrive in any order, any number of times, or never. External: the device takes
a frame in its own dialect, and one of the other if the CRC happens to be the same
(`Foreign` frames may be understood or not); it opens a stream under a new epoch
for every SCREEN_START. `twin` is history: the frame that settled the dialect reads
the same in both.

### How the recovery modules correspond to the code

A child process is a small record (how far it is, what it read, how it ended) that
moves on its own; its output and its end reach the GUI thread later, as slots
(`OnFlashOutput`, `OnFlashFinished`, `OnProcessFinished`). `cancel()` kills it, and
`waitForFinished()` runs the end handler before it returns. The helper
`stm32_dfu_flash.c` is `FlashClaims`, `FlashErases`, `FlashWrites`, `FlashBoots`;
where there is no helper, `STM32_Programmer_CLI` takes its place (`cli`), whose bank
is a logical address and whose verification comes after the line that is read as
success. An SWD operation is its script: a list of steps of which each may be the
last.

`Recovery` adds the user and the cabling. While a flash or an SWD operation runs,
the modal `FlashProgressDialog` leaves the cancel button, except that the guided
install starts a download by itself. Assumed: the DFU keys are held for five
seconds, so no finished slot is still queued when the device is back; one program
at a time claims the DFU interface; `kill()` is effective within
`waitForFinished()`; `deleteLater()` on the member that the slot has just cleared
does nothing, as in Qt 6.4.2, which the releases are built with; a tool is installed and the file has passed the size
check.

## 3. Runs

| Run | Question | Bounds |
|---|---|---|
| `session_safety` | do exclusion, deadlines, chunk counts and the keepalive flags survive any interleaving of any two calls? | 2 calls of 14 kinds, 2 files, 2 directories, serial link, dialogs confirmed late, at most 3 frames in flight when a call is made |
| `session_links` | and changes between USB and WiFi in the middle of them? | 2 calls, both transports, 1 held-back frame |
| `session_quiet` | when calls wait for their answers, is every transfer a `Transfer`, whole and earned? | 4 calls, frames lost, link dropped |
| `session_live` | is a wedged device noticed, does every transfer end? | 2 calls, fairness |
| `reconnect` | do the mechanisms that open the link respect the user and each other, and do they end? | 2 ports, 1 address, limits 2, 4 events, with and without `--port`; fairness |
| `wifi_link` | do two threads keep frames whole, in order, once, on the right side of a close? does the picture only go forward? | 2 dials, 1 close, 2 frames of the host and 2 of the device, 5 of these together; 2 streams of 2 datagrams |
| `recovery` | whatever is killed, pulled out or downloaded: what boots, what is called a success, what the dialogs wait for | 2 images, 4 calls or changes of cabling, both tools, both probes |
| `erase_survives_drop`, `keepalive_after_queue` | violated: section 5 | 1 call |
| `wifi_gives_up`, `stale_epoch`, `twin_first` | violated: section 5 | 2 events; 3 frames; 1 reply |

Constants and why they are enough. The firmware image has two chunks, the
smallest number with a first and a last one that differ; the other images have
one. `MissedLimit` is 2 instead of 6: the first missed PONG and the last.
A queue of two files has an advance and an end, one or two directories the same
for the mkdir queue. Two calls give every pair of operations, four give a
transfer, an aborted transfer and two calls after it. `PendingLimit` 1 (64 in the
code) reaches the full buffer. `MaxInFlight` bounds the channels only where a
call is made; what the event loop sends by itself is not bounded by it. All three
kinds are distinguished by the code, so there is no symmetry to use.

`Quiet` (a call waits until no reply but a PONG is outstanding and no transfer or
erase runs) is a restriction on the user, not on the code, and the five
properties of `session_quiet` need it: an ACK for a button pressed during a transfer
advances the transfer. For the same reason that run has no folder upload: a
MKDIR whose answer is lost waits for ever, and any later ACK advances the queue.
`LateDialogs` is the reverse: file and confirmation dialogs can be accepted after
the link went away, so `session_safety` and `session_links` allow calls with no
link. Without it `ExclusiveStream` holds, with it it does not: a transfer started
offline gets PINGs beside it when the link comes back. Where no call is made
offline, WiFi differs from USB only in a second pair of session frames, so
`session_quiet` and `session_live` run on USB alone; `M1Replies_proofs` proves the
properties of `session_quiet` over both transports.

`Reconnect`: two ports are an M1 and a second one that might be taken for it. The
limits are 2 instead of 12 and 8: the first and the last attempt. Four events are,
for instance, a choice, a drop, a return under another name and a close; the
program's own steps are not bounded. `WifiLink`: a byte is a number below 4, so
that the sync byte 3 occurs in payloads; `MaxPending` 1 (64) reaches the full
buffer; `frame_seq` counts modulo 8 from 7, so that the second datagram wraps; two
dials and a close give a cut, a replay and an abort. `MCCrc` gives a body that
starts with 1 the same CRC in both dialects and every other body two. `Recovery`: two images, for one to take the place of the
other; four calls let a swap, a flash, a cancel and a replug, or two overlapping
downloads with a flash of one of them, follow each other, with all processes
moving freely between.

### Fairness

The `FairSpec` of `M1Session` assumes weak fairness of received frames, of each transfer timeout, of
the ping timer and of the delayed close: Qt delivers bytes that arrived and
timers that expired as long as the event loop runs, and each of these timers
stays armed until it fires or is stopped. Nothing is assumed of the device, of
the link or of the user. A timeout is restarted at every chunk, so weak fairness
does not say that it fires during a transfer that makes progress.
`WedgeRecovered` and `TransfersEnd` leave out the erase and the queues
(`LiveOps`): the first has no deadline and keeps the keepalive suspended, the
second do not resume it; see section 5.

The `FairSpec` of `Reconnect` assumes weak fairness of the retry timers, of the
steps of a scan and of the 2 s timer that starts it, of the end of an mDNS browse,
and of the answers of the worker, all of which Qt delivers; and of the operating
system, that a dial ends one way or the other and that an open port that is gone
is reported. The user and the cables owe nothing. `UsbComesBack` asks for attempts
left, no port held by another program and no WiFi attempt under way: each of the
three does prevent the return, see section 5. `WifiLink` and `Recovery` are checked
for safety only.

## 4. Proofs

`M1Session_proofs` proves for every image size, queue length, limit and mix of
calls, from `ConstantsAssumption` alone:

* `OneTransferHolds`, `DeadlineHolds`, `OffsetsHold`, by the inductive invariant
  `TransferInv`. None of the three is inductive alone: that FINISH comes with the
  whole image needs that the count and the phase agreed before, exclusion needs
  the types of the fields. The code changes transfers in some thirty places but
  only in eight ways (`TransferDelta`: untouched, an erase starts or ends, a
  transfer starts, advances, ends, is chained to the next file, all end).
  `TransferStep` proves this of every action, `TransferInvStep` proves the
  invariant from it.
* `TransfersImplement`: every step of the session is, for each of the three
  transfers, a step of `Transfer` or a stutter. `SlotStep` derives it from
  `TransferDelta` and `TransferInv`.
* `SilentHolds` and, assuming `~LateDialogs`, `ExclusiveStreamHolds`. The second
  needs two more invariants: nothing is under way on a link that is down
  (`OfflineSilent`, so that no reply starts a queued file there), and a running
  transfer has a link with the keepalive suspended on it (`RunsSuspended`).
* `HeldBackHolds`, strengthened to the socket that is open but not in use
  (`SocketHoldsNothing`): coming back to it must not find old frames.
* `TypeCorrect`, one group of variables at a time.

`M1Replies_proofs` builds on it and proves the three remaining properties of
`session_quiet`, `StopAndWait`, `WholeImageAtFinish` and `CompletionIsEarned`, over
both transports, with frames lost, timeouts, reconnects and a device that may stop
answering. Their hypothesis is `OneAtATime`: `Quiet`, `~LateDialogs` and no folder
upload, which section 3 explains. `handleAck()` gives a reply to whoever is first in
a fixed order, so what a reply is taken for is what it answers only if nothing else
can be under way; the invariant `WireInv` says that nothing is, in five parts:

* `OneOutstanding` and `InStep`: while a transfer runs, at most one frame or reply
  beside PING and PONG is under way, it is the one the transfer waits for
  (`LastSent`), and the device has counted exactly the chunks before it.
* `FinishLast`: a FINISH under way finds the whole image and has no other frame of
  its kind before it. This has to hold of a transfer that timed out meanwhile too,
  of which `InStep` says nothing.
* `PongsAnswerPings` and `FramesOfKinds`, without which a PONG might count as a
  reply, or a session frame as a frame of a transfer.

It needs the transfers to have a link (`RunsSuspended`), so that no frame of theirs
waits in the buffer of the WiFi worker for the next link (`NothingHeldBack`), and
no queued MKDIR (`NoFolders`). As before the proof goes over the few ways in which
frames and transfers change together (`WireDelta`), not over the actions. TLC
checked the invariant first, over the 1.5 million states of `session_quiet` and,
once, over 22 million with WiFi and a device that stops.

`Reconnect_proofs` proves for all ports, addresses, limits and numbers of events,
from `ReconnectAssumption`: `TypeCorrect` (with it the limits of both counters),
`RetryHasTimerAlways`, `UserCloseIsFinalAlways`, `NoStealAlways` and
`IntentIsFreshAlways`. All follow from one inductive invariant, `RInv`, which adds
what the code relies on without saying so:

* `Waiting`: nothing is pending for the serial port beside a connection or over
  WiFi, so `trySerialReconnect()`, which keeps the port when it finds a
  connection, never keeps one; a running WiFi timer has attempts left.
* `Closed`: after `disconnect()` a WiFi socket that is still open is the one being
  closed, and nothing is being dialled; with a USB link there is no open port.
* `Own`: the preference and the retry name the port chosen by hand, so that
  `onDeviceFound()` refuses every other.
* `IntentUnseen`: the selector, which needs a closed link, is not open while
  `m_userDisconnecting` is set.

There is one lemma per group of conjuncts (`TypeStep`, `RetryStep`, `IntentStep`,
`ClosedStep`, `OwnStep`), each with one step per action. `RInv` was checked with
TLC over the states of the `reconnect` run before it was proved.

`Recovery_proofs` proves every property of the `recovery` run for any number of
images and of user calls, from the assumptions on the constants (`BanksAssumption`,
`ProcessAssumption`, `SwdAssumption`: the model values that stand for no image, no
tool and so on are none of the real ones): `InactiveFlashIsSafe`,
`FlashCompleteIsEarned`, `SwdIsEarned`, `DialogIsClosed`, `FilesNotMixedUp`,
`ReplyToCome` and `Typed`. The inductive invariant `RInv` has two halves. `DlInv`
is about the downloads alone: which file a reply in flight will fill, and who
listens. `Core` is about the banks, given the files, and its argument is who may
touch them: one program claims the DFU interface, and only while the ROM is on the
USB (`Claims`); an SWD script runs with the M1 out of DFU mode; a flash and an SWD
operation never live together, because the dialog of the one keeps the user from
starting the other (`OneDialog`). So what `FlashState` says of the bank a flash is
writing and `SwdState` of the banks a script has been through is disturbed by no
other actor. `BootBankWhole` is not inductive without them: a bank swap beside a
flash would turn the bank that the flash took for the inactive one.

`FrameCodec_proofs` proves, for every base, limit and CRC function, that no byte
takes the decoder out of its states (`ByteKeeps`) and that each byte of a built
frame takes it one byte further, the last one bringing out the frame in its own
dialect unless it reads the same in both (`ByteOfFrame`). From `CodecAssumption`
(a length of at most `MAX_PAYLOAD` fits in two bytes) and `CrcAssumption` (a CRC is
two bytes).

`WifiLink_proofs` builds on them and proves every property of the `wifi_link` run,
for any number of calls, frames, cuts and datagrams. The inductive invariant `WInv`
has five parts:

* `StreamInv`: what is decoded and what is still under way are, together, what was
  sent over this connection, and the decoder is where the first byte not yet read
  finds it. `DecodedAsSent` follows; the reset in `onTcpConnected()` establishes it.
* `LineInv`: the frame taken last, the written, the held-back and the posted ones
  carry rising numbers in this order (`InLine`), and the closes posted between them
  are where they were asked for (`SinceClose`). `TakenInOrder` and
  `ClosedMeansForgotten` are what this says of the written ones; that nothing is
  held back on an open socket, and nothing written on a shut one, is part of it.
* `FacadeInv`: the last announcement in the queue tells the state of the socket.
* `ScreenInv`: epoch and number of the receiver are those of the datagram shown. The
  16-bit comparison then orders two datagrams whose numbers differ by less than half
  the range (`PictureNearby`, streams of any length); `PictureNeverGoesBack` is the
  checked property under `MaxGrams <= SeqRange \div 2`, the one hypothesis beyond
  the assumptions on the constants: a datagram that is late by 32768 frames would
  be taken for a new one.
* `DialectInv`: `raced` is set whenever an access of the GUI thread lies between the
  two of the worker, so that otherwise the store of `crc16ValidateRx()` is the last.

The parts were checked with TLC over the states of the `wifi_link` run first.

Only model-checked: the liveness properties `WedgeRecovered` and `TransfersEnd` of
`M1Session`, and `RetriesSettle` and `UsbComesBack` of `Reconnect`, because fairness
and `ENABLED` are out of the prover's reach. Every safety property of a passing run
is also a theorem.

## 5. What the runs found

1. `erase_survives_drop`: `m_bankErasePending` survives a lost link, and the ACK
   of the new session's own log-level command is reported as the end of the erase.
2. `keepalive_after_queue`: the end of an upload queue does not resume the
   keepalive; the health check stays off on an idle link.
3. `twin_first`: only 46 of the 256 entries of the two CRC tables differ, so a frame
   may pass in both dialects. It settles the dialect as Correct, whatever the device
   speaks, and no later frame reopens the question.
4. `wifi_gives_up`: the next WiFi attempt is scheduled when a connection is lost,
   and an attempt that fails loses none: after one failure no other follows, and
   the limit of 8 and the backoff are never reached.
5. `stale_epoch`: stopped and started again, the receiver takes the first datagram
   it sees for the new stream; a late one of the old stream freezes the picture.

Seen while modelling, without a run of their own:

* A queue that stops by a timeout or at an unusable file keeps its index, and every
  later multi-file upload is refused as "already in progress" until the link drops.
* Start-up: an M1 that the constructor's scan finds is opened before `--port` is
  known. The option then only sets the preference; without the option the
  preference that the connection has just set is cleared.
* `onDeviceFound()` drops a port that is not the preferred one three lines before
  the branch whose comment retains a new COM number for the retry.
* The WiFi retry timer runs on when the user connects over USB. Over a USB link
  that dropped, it cancels the serial retries and takes the transport.
* After one WiFi attempt, an mDNS answer of any M1 replaces the address dialled.
* A port that was deferred to a retry, and whose attempts ran out, is only found
  again after it has been missing from a scan.
* Two accesses to the dialect and its lock, one in each thread, can settle the
  wrong dialect (`OnlyRaceOrTwinMislatches` says that nothing but this and a frame
  that reads the same in both can).
* The line "OK" of the helper is missed when a chunk ends inside it: a flash that
  went well is then reported as failed.
* The helper ignores the result of the option-byte command and says OK. A comment
  (line 285) says that it never touches `SWAP_BANK`, which its last step sets; the
  message of a failed write (line 372) says that the existing firmware is unchanged,
  which is not so when the bank given by name is the one that boots.
* With `STM32_Programmer_CLI`, `bank1` and `bank2` are logical addresses, and a
  flash of the inactive bank does not make it boot.
* A flash process that cannot be started leaves the dialog up until Cancel; a scan
  process that cannot be started blocks later scans until a flash or a connection.
* Overlapping downloads put one image into the file named after the other, which
  the properties of `Recovery` exclude by `overlapped`. No view handles
  `downloadError()`, or hears of a download that ends while it is hidden.

## 6. Plan

1. The file-command properties of `M1Session` under lost replies and the mkdir
   stage of a folder upload.
2. The downloads of `M1Device` (`handleFileReadData`): the end of a file whose size
   is a multiple of the chunk.
3. `UpdateFlow`: the phases of Update all and Factory restore over an abstract
   session that `M1Session` implements.

Not modelled at all: layout, painting, settings, tool paths, packaging, the
parsing of DNS packets, release lookup and version comparison, the self updater
(a sequential download, hash and hand-over), and `TcpTransport`, which nothing
constructs.
