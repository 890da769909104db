----------------------------- MODULE Reconnect -----------------------------
(***************************************************************************)
(* Who opens and reopens the link of M1Device: the user (selector, Discon- *)
(* nect), the edges of DeviceDiscovery, the serial retry timer, the WiFi   *)
(* retry timer, and the port asked for on the command line.  They share    *)
(* one transport pointer and one event loop, and each may run between any  *)
(* two steps of another.                                                   *)
(*                                                                         *)
(* Every action is one slot, except that DeviceDiscovery::scan() takes one *)
(* step per edge: its handlers run inside the walk over m_ports and edit   *)
(* that list.  No slot runs while a scan is under way.  The session that   *)
(* runs over the link is module M1Session, the two threads behind a WiFi   *)
(* link are module WifiLink.                                               *)
(***************************************************************************)
EXTENDS Naturals, FiniteSets

CONSTANTS
    Port,        \* names of serial ports an M1 may be enumerated under
    Addr,        \* host:port of the M1s that answer on the network
    None,        \* no port, no address: the empty QString
    Requests,    \* values of the command line option --port; None: not given
    SerialMax,   \* SERIAL_RECONNECT_MAX (12)
    WifiMax,     \* WIFI_RECONNECT_MAX (8)
    MaxEvents    \* bound: steps of the environment and of the user

ASSUME ReconnectAssumption ==
    /\ None \notin Port /\ None \notin Addr
    /\ Requests \subseteq Port \cup {None}
    /\ SerialMax \in Nat \ {0} /\ WifiMax \in Nat \ {0} /\ MaxEvents \in Nat

VARIABLES
    \* the environment
    port,              \* "absent", "busy" (another program holds it), "free"
    boot,              \* "ctor", "main", "run": how far main() has come
    events,            \* steps the environment and the user have left
    selector,          \* the (modal) DeviceSelector is open
    \* DeviceDiscovery: m_ports, and the walk of scan()
    known, scanning, current, todo,
    \* the transports
    wifi,              \* m_transport is the WiFi transport
    serialPort,        \* the port SerialTransport holds open
    sockUp,            \* WifiTransport::m_connected
    dialing,           \* a connection attempt of the worker is outstanding
    \* serial reconnect
    preferred,         \* m_preferredSerialPort
    retryPort,         \* m_serialReconnectPort
    retryTimer,        \* m_serialReconnectTimer runs
    attempts,          \* m_serialReconnectAttempts
    seeded,            \* the singleShot(0) of setPreferredSerialPort() is queued
    userDisconnecting,
    \* WiFi reconnect
    wifiTarget, wifiTimer, wifiAttempts, wifiWasConnected,
    \* MdnsDiscovery
    browsing, services,
    \* history
    closedByUser,      \* the user closed the link and nothing asked for it since
    mine,              \* the port of the last deliberate connection
    requested          \* the value given to --port

envVars  == <<port, boot, events, selector>>
scanVars == <<known, scanning, current, todo>>
linkVars == <<wifi, serialPort, sockUp, dialing>>
retryVars == <<retryPort, retryTimer, attempts>>
wifiVars == <<wifiTarget, wifiTimer, wifiAttempts, wifiWasConnected>>
mdnsVars == <<browsing, services>>
history  == <<closedByUser, mine, requested>>
vars == <<envVars, scanVars, linkVars, preferred, retryVars, seeded,
          userDisconnecting, wifiVars, mdnsVars, history>>

\* M1Device::isConnected(): the current transport is open.
Connected == IF wifi THEN sockUp ELSE serialPort # None

Idle == ~scanning /\ boot = "run"      \* the event loop takes the next slot

Enumerated == {p \in Port : port[p] # "absent"}
Opens(p) == port[p] = "free"

Init ==
    /\ port \in [Port -> {"absent", "busy", "free"}]
    /\ boot = "ctor" /\ events = MaxEvents /\ selector = FALSE
    \* the constructor's startScanning() scans before it returns
    /\ known = {} /\ scanning = TRUE /\ current = Enumerated /\ todo = current
    /\ wifi = FALSE /\ serialPort = None /\ sockUp = FALSE /\ dialing = FALSE
    /\ preferred = None
    /\ retryPort = None /\ retryTimer = FALSE /\ attempts = 0 /\ seeded = FALSE
    /\ userDisconnecting = FALSE
    /\ wifiTarget = None /\ wifiTimer = FALSE /\ wifiAttempts = 0
    /\ wifiWasConnected = FALSE
    /\ browsing = FALSE /\ services = {}
    /\ closedByUser = FALSE /\ mine = None /\ requested \in Requests

Spend == events > 0 /\ events' = events - 1

-----------------------------------------------------------------------------
(* The serial transport and onTransportConnected().                        *)

\* Mutant of ForgetIntent: a drop leaves m_userDisconnecting set.
ForgetIntentMissing == UNCHANGED userDisconnecting
ForgetIntent == userDisconnecting' = FALSE

\* onTransportConnected(false) over USB, with M1Device listening: forgetPort()
\* and a retry on the same port, unless disconnect() asked for the close.
SerialDropped ==
    /\ IF userDisconnecting
       THEN UNCHANGED <<known, retryVars>>
       ELSE /\ known' = known \ {serialPort}
            /\ attempts' = 0 /\ retryPort' = serialPort /\ retryTimer' = TRUE
    /\ ForgetIntent

\* The port fell or was closed; nobody listens when the transport is WiFi.
ClosePort ==
    /\ serialPort' = None
    /\ IF wifi THEN UNCHANGED <<known, retryVars, userDisconnecting>>
               ELSE SerialDropped

\* connectToDevice(p) when the port opens.  open() first closes an open port,
\* which runs SerialDropped in the middle; its retry is cleared again.
ConnectDevice(p) ==
    /\ Opens(p)
    /\ wifi' = FALSE /\ serialPort' = p /\ preferred' = p
    /\ retryPort' = None /\ retryTimer' = FALSE /\ attempts' = 0
    /\ IF serialPort = None
       THEN UNCHANGED <<known, userDisconnecting>>
       ELSE /\ known' = IF userDisconnecting THEN known ELSE known \ {serialPort}
            /\ userDisconnecting' = FALSE
    /\ UNCHANGED <<sockUp, dialing>>

\* connectToDevice(p) when it does not: the retry state is left to the caller.
ConnectFails(p) ==
    /\ ~Opens(p)
    /\ wifi' = FALSE /\ serialPort' = None
    /\ UNCHANGED <<sockUp, dialing, preferred>>

-----------------------------------------------------------------------------
(* DeviceDiscovery.                                                        *)

ScanStart ==
    /\ Idle
    /\ scanning' = TRUE /\ current' = Enumerated /\ todo' = Enumerated
    /\ current' # known                   \* a scan without edges does nothing
    /\ UNCHANGED <<envVars, known, linkVars, preferred, retryVars, seeded,
                   userDisconnecting, wifiVars, mdnsVars, history>>

\* Mutant of NotWanted: the preferred port is not looked at.
NotWantedAny(p) == Connected /\ p \in Port
NotWanted(p) == Connected \/ (preferred # None /\ p # preferred)

\* onDeviceFound(p): who may open it, and what a pending retry makes of it.
OnDeviceFound(p) ==
    IF NotWanted(p)
    THEN UNCHANGED <<known, linkVars, preferred, retryVars, userDisconnecting, history>>
    ELSE /\ UNCHANGED requested
         /\ closedByUser' = FALSE
         /\ \/ /\ retryTimer \/ retryPort # None
               /\ retryPort' = p
               /\ UNCHANGED <<known, linkVars, preferred, retryTimer, attempts,
                              userDisconnecting, mine>>
            \/ ~retryTimer /\ retryPort = None /\ ConnectDevice(p) /\ UNCHANGED mine
            \/ /\ ~retryTimer /\ retryPort = None
               /\ ConnectFails(p)
               /\ attempts' = 0 /\ retryPort' = p /\ retryTimer' = TRUE
               /\ IF serialPort = None
                  THEN UNCHANGED <<known, userDisconnecting>>
                  ELSE /\ known' = IF userDisconnecting THEN known
                                   ELSE known \ {serialPort}
                       /\ userDisconnecting' = FALSE
               /\ UNCHANGED mine

ScanFound(p) ==
    /\ scanning /\ p \in todo
    /\ todo' = todo \ {p}
    /\ IF p \in known
       THEN UNCHANGED <<known, linkVars, preferred, retryVars, userDisconnecting, history>>
       ELSE OnDeviceFound(p)
    /\ UNCHANGED <<envVars, scanning, current, seeded, wifiVars, mdnsVars>>

\* The second loop of scan() and its end.  Of the lost ports only the one that
\* is connected matters; forgetPort() is undone by the assignment to m_ports.
ScanEnd ==
    /\ scanning /\ todo = {}
    /\ scanning' = FALSE /\ current' = {} /\ known' = current
    /\ IF ~wifi /\ serialPort \in known \ current
       THEN /\ serialPort' = None
            /\ IF userDisconnecting
               THEN UNCHANGED retryVars
               ELSE attempts' = 0 /\ retryPort' = serialPort /\ retryTimer' = TRUE
            /\ userDisconnecting' = FALSE
       ELSE UNCHANGED <<serialPort, retryVars, userDisconnecting>>
    /\ UNCHANGED <<envVars, todo, wifi, sockUp, dialing, preferred, seeded,
                   wifiVars, mdnsVars, history>>

-----------------------------------------------------------------------------
(* Start-up and serial retries.                                            *)

\* main() calls setPreferredSerialPort() after the constructor's scan; with no
\* option, or with a device connected already, it only sets the preference.
SetPreferredSerialPort ==
    /\ boot = "main"
    /\ boot' = "run" /\ preferred' = requested
    /\ IF requested = None \/ Connected
       THEN UNCHANGED <<retryVars, seeded>>
       ELSE attempts' = 0 /\ retryPort' = requested /\ seeded' = TRUE /\ UNCHANGED retryTimer
    /\ UNCHANGED <<port, events, selector, scanVars, linkVars, userDisconnecting,
                   wifiVars, mdnsVars, history>>

ConstructorReturns ==
    /\ boot = "ctor" /\ ~scanning
    /\ boot' = "main"
    /\ UNCHANGED <<port, events, selector, scanVars, linkVars, preferred, retryVars,
                   seeded, userDisconnecting, wifiVars, mdnsVars, history>>

\* trySerialReconnect(), from the timer or from the seeded single shot.
TrySerial(shot) ==
    /\ retryTimer' = (IF shot = "timer" THEN FALSE ELSE retryTimer)
    /\ seeded' = (IF shot = "seed" THEN FALSE ELSE seeded)

\* Mutants of NoAttemptsLeft: one attempt too many, one too few.
NoAttemptsLeftLate == attempts > SerialMax
NoAttemptsLeftEarly == attempts + 1 >= SerialMax
NoAttemptsLeft == attempts >= SerialMax

SerialGivesUp(shot) ==
    /\ Connected \/ retryPort = None \/ NoAttemptsLeft
    /\ TrySerial(shot)
    /\ retryPort' = IF Connected THEN retryPort ELSE None
    /\ UNCHANGED <<known, linkVars, preferred, attempts, userDisconnecting, mine>>

SerialRetryOpens(shot) ==
    /\ ~Connected /\ retryPort # None /\ ~NoAttemptsLeft
    /\ ConnectDevice(retryPort)
    /\ seeded' = (IF shot = "seed" THEN FALSE ELSE seeded)
    /\ UNCHANGED mine

\* Mutant of RestartTimer: a failed attempt leaves the timer stopped.
RestartTimerMissing == retryTimer' = FALSE
RestartTimer == retryTimer' = TRUE
\* Mutant of CountAttempt: failed attempts are not counted.
CountAttemptMissing == attempts' = attempts
CountAttempt == attempts' = attempts + 1

\* A failed attempt restarts the timer; the port a WiFi connection had left open
\* is closed by the attempt and takes the retry over.
SerialRetryFails(shot) ==
    /\ ~Connected /\ retryPort # None /\ ~NoAttemptsLeft
    /\ ConnectFails(retryPort)
    /\ RestartTimer
    /\ seeded' = (IF shot = "seed" THEN FALSE ELSE seeded)
    /\ IF serialPort = None \/ userDisconnecting
       THEN CountAttempt /\ UNCHANGED <<retryPort, known>>
       ELSE attempts' = 0 /\ retryPort' = serialPort /\ known' = known \ {serialPort}
    /\ userDisconnecting' = (IF serialPort = None THEN userDisconnecting ELSE FALSE)
    /\ UNCHANGED mine

TrySerialReconnect(shot) ==
    /\ Idle
    /\ IF shot = "timer" THEN retryTimer ELSE seeded
    /\ SerialGivesUp(shot) \/ SerialRetryOpens(shot) \/ SerialRetryFails(shot)
    /\ UNCHANGED <<envVars, scanning, current, todo, wifiVars, mdnsVars,
                   closedByUser, requested>>

\* The open port fails (unplugged), or the keepalive closes it (a dead RPC path).
SerialFails ==
    /\ Idle /\ serialPort # None
    /\ IF port[serialPort] = "absent" THEN UNCHANGED events ELSE ~wifi /\ Spend
    /\ ClosePort
    /\ UNCHANGED <<port, boot, selector, scanning, current, todo, wifi, sockUp, dialing,
                   preferred, seeded, wifiVars, mdnsVars, history>>

-----------------------------------------------------------------------------
(* WiFi: the answers of the worker, and the retries.                       *)

WifiUp ==
    /\ Idle /\ dialing /\ ~sockUp
    /\ dialing' = FALSE /\ sockUp' = TRUE
    /\ IF wifi
       THEN wifiWasConnected' = TRUE /\ wifiAttempts' = 0 /\ wifiTimer' = FALSE
       ELSE UNCHANGED <<wifiWasConnected, wifiAttempts, wifiTimer>>
    /\ UNCHANGED <<envVars, scanVars, wifi, serialPort, preferred, retryVars, seeded,
                   userDisconnecting, wifiTarget, mdnsVars, history>>

\* The attempt failed.  onWorkerDisconnected() reports a loss of a connection
\* only, so M1Device hears of no failed attempt.
DialFails ==
    /\ Idle /\ dialing /\ ~sockUp
    /\ dialing' = FALSE
    /\ UNCHANGED <<envVars, scanVars, wifi, serialPort, sockUp, preferred, retryVars,
                   seeded, userDisconnecting, wifiVars, mdnsVars, history>>

\* onTransportConnected(false) over WiFi: a drop after a successful connect that
\* the user did not ask for starts the timer and an mDNS browse.
WifiDropped ==
    /\ IF /\ ~userDisconnecting /\ wifiWasConnected /\ wifiTarget # None
          /\ wifiAttempts < WifiMax
       THEN /\ wifiTimer' = TRUE /\ browsing' = TRUE
            /\ services' = IF browsing THEN services ELSE {}
       ELSE UNCHANGED <<wifiTimer, mdnsVars>>
    /\ ForgetIntent

\* The worker's disconnected() arrives: the network or the keepalive ended the
\* connection, disconnect() closed it, or a new attempt aborted it.
WifiDown ==
    /\ Idle /\ sockUp
    /\ IF userDisconnecting \/ dialing THEN UNCHANGED events ELSE Spend
    /\ sockUp' = FALSE
    /\ IF wifi THEN WifiDropped
               ELSE UNCHANGED <<wifiTimer, mdnsVars, userDisconnecting>>
    /\ UNCHANGED <<port, boot, selector, scanVars, wifi, serialPort, dialing, preferred,
                   retryVars, seeded, wifiTarget, wifiAttempts, wifiWasConnected, history>>

\* connectToDeviceWifi(a).  It cancels the serial retries; an open port stays
\* open, unheard.
ConnectDeviceWifi(a) ==
    /\ retryTimer' = FALSE /\ retryPort' = None /\ attempts' = 0
    /\ wifi' = TRUE /\ wifiTarget' = a /\ userDisconnecting' = FALSE /\ dialing' = TRUE
    /\ UNCHANGED <<serialPort, sockUp, wifiTimer, wifiWasConnected>>

TryWifiReconnect ==
    /\ Idle /\ wifiTimer
    /\ IF Connected
       THEN /\ wifiTimer' = FALSE
            /\ UNCHANGED <<linkVars, retryVars, userDisconnecting, wifiTarget,
                           wifiAttempts, wifiWasConnected>>
       ELSE /\ wifiTimer' = FALSE /\ wifiAttempts' = wifiAttempts + 1
            /\ retryTimer' = FALSE /\ retryPort' = None /\ attempts' = 0
            /\ wifi' = TRUE /\ userDisconnecting' = FALSE /\ dialing' = TRUE
            /\ UNCHANGED <<serialPort, sockUp, wifiTarget, wifiWasConnected>>
    /\ UNCHANGED <<envVars, scanVars, preferred, seeded, mdnsVars, history>>

\* The lambda of setMdnsDiscovery() adopts the address of whichever M1 answered,
\* once a reconnect attempt has been made.
AdoptTarget(a) ==
    wifiTarget' = IF Connected \/ ~wifiWasConnected \/ wifiAttempts = 0
                  THEN wifiTarget ELSE a

\* parseMdnsResponse(): a known service is not announced again.
MdnsAnswer(a) ==
    /\ Idle /\ browsing /\ a \notin services
    /\ services' = services \cup {a}
    /\ AdoptTarget(a)
    /\ UNCHANGED <<envVars, scanVars, linkVars, preferred, retryVars, seeded,
                   userDisconnecting, wifiTimer, wifiAttempts, wifiWasConnected,
                   browsing, history>>

\* The 10 s shot of this browse, or one left over from an earlier browse.
MdnsStopScan ==
    /\ Idle /\ browsing
    /\ browsing' = FALSE
    /\ UNCHANGED <<envVars, scanVars, linkVars, preferred, retryVars, seeded,
                   userDisconnecting, wifiVars, services, history>>

-----------------------------------------------------------------------------
(* The user.  The selector opens while there is no connection, is modal,   *)
(* and stays open when a connection comes up by itself.                    *)

OpenSelector ==
    /\ Idle /\ ~Connected /\ ~selector
    /\ selector' = TRUE
    /\ UNCHANGED <<port, boot, events, scanVars, linkVars, preferred, retryVars, seeded,
                   userDisconnecting, wifiVars, mdnsVars, history>>

CancelSelector ==
    /\ Idle /\ selector
    /\ selector' = FALSE
    /\ UNCHANGED <<port, boot, events, scanVars, linkVars, preferred, retryVars, seeded,
                   userDisconnecting, wifiVars, mdnsVars, history>>

ChooseSerial(p) ==
    /\ Idle /\ selector /\ Spend
    /\ selector' = FALSE
    /\ \/ ConnectDevice(p) /\ closedByUser' = FALSE /\ mine' = p
       \/ /\ ConnectFails(p)
          /\ IF serialPort = None THEN UNCHANGED <<known, retryVars, userDisconnecting>>
                                  ELSE SerialDropped
          /\ closedByUser' = FALSE /\ UNCHANGED mine
    /\ UNCHANGED <<port, boot, scanning, current, todo, seeded, wifiVars, mdnsVars, requested>>

ChooseWifi(a) ==
    /\ Idle /\ selector /\ Spend
    /\ selector' = FALSE
    /\ ConnectDeviceWifi(a)
    /\ closedByUser' = FALSE
    /\ UNCHANGED <<port, boot, scanVars, preferred, seeded, wifiAttempts, mdnsVars,
                   mine, requested>>

\* The Scan button of the selector.
MdnsStartScan ==
    /\ Idle /\ selector /\ ~browsing /\ Spend
    /\ browsing' = TRUE /\ services' = {}
    /\ UNCHANGED <<port, boot, selector, scanVars, linkVars, preferred, retryVars, seeded,
                   userDisconnecting, wifiVars, history>>

\* Mutant of CancelRetries: the WiFi retry timer runs on.
CancelRetriesSerial ==
    /\ retryTimer' = FALSE /\ retryPort' = None /\ attempts' = 0
    /\ UNCHANGED <<wifiTimer, wifiWasConnected, wifiAttempts>>
CancelRetries ==
    /\ retryTimer' = FALSE /\ retryPort' = None /\ attempts' = 0
    /\ wifiTimer' = FALSE /\ wifiWasConnected' = FALSE /\ wifiAttempts' = 0

\* disconnect().  A serial port closes inside it, a socket later (WifiDown).
\* The abort of an older connection is heard before a hand can click here.
Disconnect ==
    /\ Idle /\ Connected /\ ~selector /\ ~(wifi /\ dialing) /\ ~userDisconnecting /\ Spend
    /\ CancelRetries
    /\ userDisconnecting' = wifi
    /\ serialPort' = IF wifi THEN serialPort ELSE None
    /\ closedByUser' = TRUE
    /\ UNCHANGED <<port, boot, selector, scanVars, wifi, sockUp, dialing, preferred,
                   seeded, wifiTarget, mdnsVars, mine, requested>>

-----------------------------------------------------------------------------
(* The environment.                                                        *)

PortChanges(p, from, to) ==
    /\ boot = "run" /\ port[p] \in from /\ Spend
    /\ port' = [port EXCEPT ![p] = to]
    /\ UNCHANGED <<boot, selector, scanVars, linkVars, preferred, retryVars, seeded,
                   userDisconnecting, wifiVars, mdnsVars, history>>

Plug(p) == PortChanges(p, {"absent"}, "free") \/ PortChanges(p, {"absent"}, "busy")
Unplug(p) == PortChanges(p, {"free", "busy"}, "absent")
Grab(p) == p # serialPort /\ PortChanges(p, {"free"}, "busy")
Release(p) == PortChanges(p, {"busy"}, "free")

Slots ==
    \/ ScanStart \/ ScanEnd \/ (\E p \in Port : ScanFound(p))
    \/ ConstructorReturns \/ SetPreferredSerialPort
    \/ (\E shot \in {"timer", "seed"} : TrySerialReconnect(shot))
    \/ TryWifiReconnect \/ WifiUp \/ DialFails \/ MdnsStopScan

User == \/ OpenSelector \/ CancelSelector \/ Disconnect \/ MdnsStartScan
        \/ \E p \in Port : ChooseSerial(p)
        \/ \E a \in Addr : ChooseWifi(a)

Environment ==
    \/ SerialFails \/ WifiDown
    \/ \E p \in Port : Plug(p) \/ Unplug(p) \/ Grab(p) \/ Release(p)
    \/ \E a \in Addr : MdnsAnswer(a)

Next == Slots \/ User \/ Environment

Spec == Init /\ [][Next]_vars

\* Qt delivers expired timers and queued signals, discovery scans every 2 s, the
\* operating system reports a port that is gone and ends every dial.
Fairness ==
    /\ WF_vars(ScanStart) /\ WF_vars(ScanEnd) /\ WF_vars(\E p \in Port : ScanFound(p))
    /\ WF_vars(ConstructorReturns) /\ WF_vars(SetPreferredSerialPort)
    /\ WF_vars(TrySerialReconnect("timer")) /\ WF_vars(TrySerialReconnect("seed"))
    /\ WF_vars(TryWifiReconnect) /\ WF_vars(WifiUp \/ DialFails)
    /\ WF_vars(MdnsStopScan)
    /\ WF_vars(serialPort # None /\ port[serialPort] = "absent" /\ SerialFails)
    /\ WF_vars((userDisconnecting \/ dialing) /\ WifiDown)

FairSpec == Spec /\ Fairness

-----------------------------------------------------------------------------
(* Properties.                                                             *)

EnvTypes ==
    /\ port \in [Port -> {"absent", "busy", "free"}]
    /\ boot \in {"ctor", "main", "run"}
    /\ known \subseteq Port /\ current \subseteq Port /\ todo \subseteq current
    /\ services \subseteq Addr

FlagTypes ==
    /\ scanning \in BOOLEAN /\ selector \in BOOLEAN /\ browsing \in BOOLEAN
    /\ wifi \in BOOLEAN /\ sockUp \in BOOLEAN /\ dialing \in BOOLEAN
    /\ retryTimer \in BOOLEAN /\ seeded \in BOOLEAN /\ userDisconnecting \in BOOLEAN
    /\ wifiTimer \in BOOLEAN /\ wifiWasConnected \in BOOLEAN /\ closedByUser \in BOOLEAN

NameTypes ==
    /\ serialPort \in Port \cup {None} /\ preferred \in Port \cup {None}
    /\ retryPort \in Port \cup {None} /\ mine \in Port \cup {None}
    /\ requested \in Port \cup {None} /\ wifiTarget \in Addr \cup {None}

CounterTypes ==
    /\ attempts \in 0..SerialMax /\ wifiAttempts \in 0..WifiMax
    /\ events \in 0..MaxEvents

\* Every variable keeps to its type, and the counters to their limits.
TypeOK == EnvTypes /\ FlagTypes /\ NameTypes /\ CounterTypes

\* A port waiting to be retried always has a timer (or the start-up shot) that
\* will retry it: otherwise onDeviceFound() would hand every new edge to a retry
\* that never comes, and the device would stay unconnected for good.
RetryHasTimer == retryPort # None => retryTimer \/ seeded

\* After disconnect() nothing reopens the link behind the user's back: no retry
\* of either transport is pending until the user chooses or a device is plugged.
UserCloseIsFinal == closedByUser => ~retryTimer /\ retryPort = None /\ ~wifiTimer

\* After a deliberate connection discovery and retries open that port only, never
\* that of a second M1 which another instance may hold.
NoSteal == mine # None => serialPort \in {mine, None}

\* The intent to disconnect does not outlive the close it was meant for: it is
\* set only while the socket that disconnect() closes is still reported open.
IntentIsFresh == userDisconnecting => wifi /\ sockUp

\* Whatever happened before, the retries come to an end.
RetriesSettle == <>[](~retryTimer /\ ~wifiTimer /\ ~dialing)

\* A USB link that dropped comes back without the user when its device does, as
\* long as retries are left and no WiFi attempt competes for the transport.
UsbComesBack ==
    (/\ events = 0 /\ Idle /\ retryTimer /\ attempts < SerialMax
     /\ \A p \in Port : port[p] # "busy"
     /\ retryPort # None /\ Opens(retryPort)
     /\ ~wifiTimer /\ ~dialing) ~> Connected

\* A WiFi reconnect attempt that failed is followed by the next one until
\* WIFI_RECONNECT_MAX attempts have been made.
FailedAttemptFollowed ==
    [][(dialing /\ ~dialing' /\ ~sockUp' /\ wifi /\ wifiAttempts \in 1..(WifiMax - 1))
         => wifiTimer']_vars
=============================================================================
