-------------------------- MODULE Reconnect_proofs --------------------------
(***************************************************************************)
(* Proofs about Reconnect for all sets of ports and addresses, all retry   *)
(* limits and any number of events.                                        *)
(*                                                                         *)
(* None of the safety properties is inductive alone: whether a retry may   *)
(* be left pending depends on which transport is current, and whether the  *)
(* link of another M1 may be opened depends on the preference that the     *)
(* start-up code writes.  RInv names those dependencies; each action is    *)
(* shown to keep it, in a lemma per group of actions.                      *)
(***************************************************************************)
EXTENDS Reconnect, TLAPS

\* A retry waits only while nothing is connected and the transport is USB; the
\* WiFi timer waits only while attempts are left; no WiFi before main() is done.
Waiting ==
    /\ wifiTimer => wifiAttempts < WifiMax
    /\ Connected \/ wifi => retryPort = None /\ ~retryTimer
    /\ wifi => boot = "run"

\* disconnect() comes after main(); what the closed link may still do is to lose
\* the socket that disconnect() closes.
Closed ==
    closedByUser =>
        /\ boot = "run"
        /\ ~wifi => serialPort = None
        /\ wifi => ~dialing /\ (sockUp => userDisconnecting)

\* The preference and the pending retry name the port chosen by hand.
Own == mine # None => preferred = mine /\ retryPort \in {mine, None} /\ boot = "run"

\* The selector cannot open while the socket that disconnect() closes is still up.
IntentUnseen == userDisconnecting => ~selector

RInv ==
    /\ TypeOK
    /\ RetryHasTimer /\ Waiting
    /\ IntentIsFresh /\ IntentUnseen
    /\ UserCloseIsFinal /\ Closed
    /\ NoSteal /\ Own

LEMMA InitRInv == Init => RInv
<1> SUFFICES ASSUME Init PROVE RInv
    OBVIOUS
<1> USE ReconnectAssumption
<1>1. TypeOK
  <2>1. EnvTypes
    BY DEF Init, EnvTypes, Enumerated
  <2>2. FlagTypes
    BY DEF Init, FlagTypes
  <2>3. NameTypes
    BY DEF Init, NameTypes
  <2>4. CounterTypes
    BY DEF Init, CounterTypes
  <2> QED
    BY <2>1, <2>2, <2>3, <2>4 DEF TypeOK
<1>2. RetryHasTimer /\ Waiting
    BY DEF Init, RetryHasTimer, Waiting, Connected
<1>3. IntentIsFresh /\ IntentUnseen /\ UserCloseIsFinal /\ Closed
    BY DEF Init, IntentIsFresh, IntentUnseen, UserCloseIsFinal, Closed
<1>4. NoSteal /\ Own
    BY DEF Init, NoSteal, Own
<1> QED
    BY <1>1, <1>2, <1>3, <1>4 DEF RInv

\* The counters stay in their limits because a timer waits only while tries are left.
LEMMA TypeStep == TypeOK /\ Waiting /\ [Next]_vars => TypeOK'
<1> SUFFICES ASSUME TypeOK, Waiting, [Next]_vars PROVE TypeOK'
    OBVIOUS
<1> USE ReconnectAssumption DEF TypeOK, EnvTypes, FlagTypes, NameTypes,
        CounterTypes, envVars, scanVars, linkVars, retryVars, wifiVars, mdnsVars,
        history, Spend
<1>1. CASE ScanStart
  <2> USE <1>1 DEF ScanStart, Enumerated
  <2>1. EnvTypes'
    OBVIOUS
  <2>2. FlagTypes'
    OBVIOUS
  <2>3. NameTypes'
    OBVIOUS
  <2>4. CounterTypes'
    OBVIOUS
  <2> QED
    BY <2>1, <2>2, <2>3, <2>4
<1>2. CASE ScanEnd
  <2> USE <1>2 DEF ScanEnd
  <2>1. EnvTypes'
    OBVIOUS
  <2>2. FlagTypes'
    OBVIOUS
  <2>3. NameTypes'
    OBVIOUS
  <2>4. CounterTypes'
    OBVIOUS
  <2> QED
    BY <2>1, <2>2, <2>3, <2>4
<1>3. ASSUME NEW p \in Port, ScanFound(p) PROVE TypeOK'
  <2> USE <1>3 DEF ScanFound, OnDeviceFound, ConnectDevice, ConnectFails
  <2>1. EnvTypes'
    OBVIOUS
  <2>2. FlagTypes'
    OBVIOUS
  <2>3. NameTypes'
    OBVIOUS
  <2>4. CounterTypes'
    OBVIOUS
  <2> QED
    BY <2>1, <2>2, <2>3, <2>4
<1>4. CASE ConstructorReturns
  <2> USE <1>4 DEF ConstructorReturns
  <2>1. EnvTypes'
    OBVIOUS
  <2>2. FlagTypes'
    OBVIOUS
  <2>3. NameTypes'
    OBVIOUS
  <2>4. CounterTypes'
    OBVIOUS
  <2> QED
    BY <2>1, <2>2, <2>3, <2>4
<1>5. CASE SetPreferredSerialPort
  <2> USE <1>5 DEF SetPreferredSerialPort
  <2>1. EnvTypes'
    OBVIOUS
  <2>2. FlagTypes'
    OBVIOUS
  <2>3. NameTypes'
    OBVIOUS
  <2>4. CounterTypes'
    OBVIOUS
  <2> QED
    BY <2>1, <2>2, <2>3, <2>4
<1>6. ASSUME NEW shot \in {"timer", "seed"}, TrySerialReconnect(shot), SerialGivesUp(shot)
      PROVE TypeOK'
  <2> USE <1>6 DEF TrySerialReconnect, SerialGivesUp, TrySerial
  <2>1. EnvTypes'
    OBVIOUS
  <2>2. FlagTypes'
    OBVIOUS
  <2>3. NameTypes'
    OBVIOUS
  <2>4. CounterTypes'
    OBVIOUS
  <2> QED
    BY <2>1, <2>2, <2>3, <2>4
<1>7. ASSUME NEW shot \in {"timer", "seed"}, TrySerialReconnect(shot), SerialRetryOpens(shot)
      PROVE TypeOK'
  <2> USE <1>7 DEF TrySerialReconnect, SerialRetryOpens, ConnectDevice
  <2>1. EnvTypes'
    OBVIOUS
  <2>2. FlagTypes'
    OBVIOUS
  <2>3. NameTypes'
    OBVIOUS
  <2>4. CounterTypes'
    OBVIOUS
  <2> QED
    BY <2>1, <2>2, <2>3, <2>4
<1>8. ASSUME NEW shot \in {"timer", "seed"}, TrySerialReconnect(shot), SerialRetryFails(shot)
      PROVE TypeOK'
  <2> USE <1>8 DEF TrySerialReconnect, SerialRetryFails, ConnectFails,
            RestartTimer, CountAttempt, NoAttemptsLeft
  <2>1. EnvTypes'
    OBVIOUS
  <2>2. FlagTypes'
    OBVIOUS
  <2>3. NameTypes'
    OBVIOUS
  <2>4. CounterTypes'
    OBVIOUS
  <2> QED
    BY <2>1, <2>2, <2>3, <2>4
<1>9. CASE TryWifiReconnect
  <2> USE <1>9 DEF TryWifiReconnect, Waiting
  <2>1. EnvTypes'
    OBVIOUS
  <2>2. FlagTypes'
    OBVIOUS
  <2>3. NameTypes'
    OBVIOUS
  <2>4. CounterTypes'
    OBVIOUS
  <2> QED
    BY <2>1, <2>2, <2>3, <2>4
<1>10. CASE WifiUp
  <2> USE <1>10 DEF WifiUp
  <2>1. EnvTypes'
    OBVIOUS
  <2>2. FlagTypes'
    OBVIOUS
  <2>3. NameTypes'
    OBVIOUS
  <2>4. CounterTypes'
    OBVIOUS
  <2> QED
    BY <2>1, <2>2, <2>3, <2>4
<1>11. CASE DialFails
  <2> USE <1>11 DEF DialFails
  <2>1. EnvTypes'
    OBVIOUS
  <2>2. FlagTypes'
    OBVIOUS
  <2>3. NameTypes'
    OBVIOUS
  <2>4. CounterTypes'
    OBVIOUS
  <2> QED
    BY <2>1, <2>2, <2>3, <2>4
<1>12. CASE MdnsStopScan
  <2> USE <1>12 DEF MdnsStopScan
  <2>1. EnvTypes'
    OBVIOUS
  <2>2. FlagTypes'
    OBVIOUS
  <2>3. NameTypes'
    OBVIOUS
  <2>4. CounterTypes'
    OBVIOUS
  <2> QED
    BY <2>1, <2>2, <2>3, <2>4
<1>13. CASE MdnsStartScan
  <2> USE <1>13 DEF MdnsStartScan
  <2>1. EnvTypes'
    OBVIOUS
  <2>2. FlagTypes'
    OBVIOUS
  <2>3. NameTypes'
    OBVIOUS
  <2>4. CounterTypes'
    OBVIOUS
  <2> QED
    BY <2>1, <2>2, <2>3, <2>4
<1>14. CASE OpenSelector
  <2> USE <1>14 DEF OpenSelector
  <2>1. EnvTypes'
    OBVIOUS
  <2>2. FlagTypes'
    OBVIOUS
  <2>3. NameTypes'
    OBVIOUS
  <2>4. CounterTypes'
    OBVIOUS
  <2> QED
    BY <2>1, <2>2, <2>3, <2>4
<1>15. CASE CancelSelector
  <2> USE <1>15 DEF CancelSelector
  <2>1. EnvTypes'
    OBVIOUS
  <2>2. FlagTypes'
    OBVIOUS
  <2>3. NameTypes'
    OBVIOUS
  <2>4. CounterTypes'
    OBVIOUS
  <2> QED
    BY <2>1, <2>2, <2>3, <2>4
<1>16. CASE Disconnect
  <2> USE <1>16 DEF Disconnect, CancelRetries
  <2>1. EnvTypes'
    OBVIOUS
  <2>2. FlagTypes'
    OBVIOUS
  <2>3. NameTypes'
    OBVIOUS
  <2>4. CounterTypes'
    OBVIOUS
  <2> QED
    BY <2>1, <2>2, <2>3, <2>4
<1>17. ASSUME NEW p \in Port, ChooseSerial(p) PROVE TypeOK'
  <2> USE <1>17 DEF ChooseSerial, ConnectDevice, ConnectFails, SerialDropped,
            ForgetIntent
  <2>1. EnvTypes'
    OBVIOUS
  <2>2. FlagTypes'
    OBVIOUS
  <2>3. NameTypes'
    OBVIOUS
  <2>4. CounterTypes'
    OBVIOUS
  <2> QED
    BY <2>1, <2>2, <2>3, <2>4
<1>18. ASSUME NEW a \in Addr, ChooseWifi(a) PROVE TypeOK'
  <2> USE <1>18 DEF ChooseWifi, ConnectDeviceWifi
  <2>1. EnvTypes'
    OBVIOUS
  <2>2. FlagTypes'
    OBVIOUS
  <2>3. NameTypes'
    OBVIOUS
  <2>4. CounterTypes'
    OBVIOUS
  <2> QED
    BY <2>1, <2>2, <2>3, <2>4
<1>19. CASE SerialFails
  <2> USE <1>19 DEF SerialFails, ClosePort, SerialDropped, ForgetIntent
  <2>1. EnvTypes'
    OBVIOUS
  <2>2. FlagTypes'
    OBVIOUS
  <2>3. NameTypes'
    OBVIOUS
  <2>4. CounterTypes'
    OBVIOUS
  <2> QED
    BY <2>1, <2>2, <2>3, <2>4
<1>20. CASE WifiDown
  <2> USE <1>20 DEF WifiDown, WifiDropped, ForgetIntent
  <2>1. EnvTypes'
    OBVIOUS
  <2>2. FlagTypes'
    OBVIOUS
  <2>3. NameTypes'
    OBVIOUS
  <2>4. CounterTypes'
    OBVIOUS
  <2> QED
    BY <2>1, <2>2, <2>3, <2>4
<1>21. ASSUME NEW p \in Port, NEW from, NEW to \in {"absent", "busy", "free"}, PortChanges(p, from, to)
      PROVE TypeOK'
  <2> USE <1>21 DEF PortChanges
  <2>1. EnvTypes'
    OBVIOUS
  <2>2. FlagTypes'
    OBVIOUS
  <2>3. NameTypes'
    OBVIOUS
  <2>4. CounterTypes'
    OBVIOUS
  <2> QED
    BY <2>1, <2>2, <2>3, <2>4
<1>22. ASSUME NEW a \in Addr, MdnsAnswer(a) PROVE TypeOK'
  <2> USE <1>22 DEF MdnsAnswer, AdoptTarget
  <2>1. EnvTypes'
    OBVIOUS
  <2>2. FlagTypes'
    OBVIOUS
  <2>3. NameTypes'
    OBVIOUS
  <2>4. CounterTypes'
    OBVIOUS
  <2> QED
    BY <2>1, <2>2, <2>3, <2>4
<1>23. CASE UNCHANGED vars
    BY <1>23 DEF vars
<1> QED
    BY <1>1, <1>2, <1>3, <1>4, <1>5, <1>6, <1>7, <1>8, <1>9, <1>10, <1>11, <1>12,
       <1>13, <1>14, <1>15, <1>16, <1>17, <1>18, <1>19, <1>20, <1>21, <1>22, <1>23
       DEF Next, Slots, User, Environment, TrySerialReconnect, Plug, Unplug, Grab, Release

\* No retry is stranded, and none is pending beside a connection or over WiFi.
LEMMA RetryStep == RInv /\ [Next]_vars => (RetryHasTimer /\ Waiting)'
<1> SUFFICES ASSUME RInv, [Next]_vars PROVE (RetryHasTimer /\ Waiting)'
    OBVIOUS
<1> USE ReconnectAssumption DEF RInv, TypeOK, FlagTypes, NameTypes, CounterTypes,
        RetryHasTimer, Waiting, Connected, Idle, envVars, scanVars, linkVars,
        retryVars, wifiVars, mdnsVars, history, Spend
<1>1. CASE ScanStart
    BY <1>1 DEF ScanStart, Enumerated
<1>2. CASE ScanEnd
    BY <1>2 DEF ScanEnd
<1>3. ASSUME NEW p \in Port, ScanFound(p) PROVE (RetryHasTimer /\ Waiting)'
    BY <1>3 DEF ScanFound, OnDeviceFound, ConnectDevice, ConnectFails
<1>4. CASE ConstructorReturns
    BY <1>4 DEF ConstructorReturns
<1>5. CASE SetPreferredSerialPort
    BY <1>5 DEF SetPreferredSerialPort
<1>6. ASSUME NEW shot \in {"timer", "seed"}, TrySerialReconnect(shot), SerialGivesUp(shot)
      PROVE (RetryHasTimer /\ Waiting)'
    BY <1>6 DEF TrySerialReconnect, SerialGivesUp, TrySerial
<1>7. ASSUME NEW shot \in {"timer", "seed"}, TrySerialReconnect(shot), SerialRetryOpens(shot)
      PROVE (RetryHasTimer /\ Waiting)'
    BY <1>7 DEF TrySerialReconnect, SerialRetryOpens, ConnectDevice
<1>8. ASSUME NEW shot \in {"timer", "seed"}, TrySerialReconnect(shot), SerialRetryFails(shot)
      PROVE (RetryHasTimer /\ Waiting)'
    BY <1>8 DEF TrySerialReconnect, SerialRetryFails, ConnectFails, RestartTimer,
        CountAttempt, NoAttemptsLeft
<1>9. CASE TryWifiReconnect
    BY <1>9 DEF TryWifiReconnect
<1>10. CASE WifiUp
    BY <1>10 DEF WifiUp
<1>11. CASE DialFails
    BY <1>11 DEF DialFails
<1>12. CASE MdnsStopScan
    BY <1>12 DEF MdnsStopScan
<1>13. CASE MdnsStartScan
    BY <1>13 DEF MdnsStartScan
<1>14. CASE OpenSelector
    BY <1>14 DEF OpenSelector
<1>15. CASE CancelSelector
    BY <1>15 DEF CancelSelector
<1>16. CASE Disconnect
    BY <1>16 DEF Disconnect, CancelRetries
<1>17. ASSUME NEW p \in Port, ChooseSerial(p) PROVE (RetryHasTimer /\ Waiting)'
    BY <1>17 DEF ChooseSerial, ConnectDevice, ConnectFails, SerialDropped,
        ForgetIntent
<1>18. ASSUME NEW a \in Addr, ChooseWifi(a) PROVE (RetryHasTimer /\ Waiting)'
    BY <1>18 DEF ChooseWifi, ConnectDeviceWifi
<1>19. CASE SerialFails
    BY <1>19 DEF SerialFails, ClosePort, SerialDropped, ForgetIntent
<1>20. CASE WifiDown
    BY <1>20 DEF WifiDown, WifiDropped, ForgetIntent
<1>21. ASSUME NEW p \in Port, NEW from, NEW to \in {"absent", "busy", "free"}, PortChanges(p, from, to)
      PROVE (RetryHasTimer /\ Waiting)'
    BY <1>21 DEF PortChanges
<1>22. ASSUME NEW a \in Addr, MdnsAnswer(a) PROVE (RetryHasTimer /\ Waiting)'
    BY <1>22 DEF MdnsAnswer, AdoptTarget
<1>23. CASE UNCHANGED vars
    BY <1>23 DEF vars
<1> QED
    BY <1>1, <1>2, <1>3, <1>4, <1>5, <1>6, <1>7, <1>8, <1>9, <1>10, <1>11, <1>12,
       <1>13, <1>14, <1>15, <1>16, <1>17, <1>18, <1>19, <1>20, <1>21, <1>22, <1>23
       DEF Next, Slots, User, Environment, TrySerialReconnect, Plug, Unplug, Grab, Release

\* The intent is set by a close that is still under way, and consumed by its end.
LEMMA IntentStep == RInv /\ [Next]_vars => (IntentIsFresh /\ IntentUnseen)'
<1> SUFFICES ASSUME RInv, [Next]_vars PROVE (IntentIsFresh /\ IntentUnseen)'
    OBVIOUS
<1> USE ReconnectAssumption DEF RInv, TypeOK, FlagTypes, NameTypes, CounterTypes,
        IntentIsFresh, IntentUnseen, Connected, NotWanted, envVars, scanVars, linkVars,
        retryVars, wifiVars, mdnsVars, history, Spend
<1>1. CASE ScanStart
    BY <1>1 DEF ScanStart, Enumerated
<1>2. CASE ScanEnd
    BY <1>2 DEF ScanEnd
<1>3. ASSUME NEW p \in Port, ScanFound(p) PROVE (IntentIsFresh /\ IntentUnseen)'
    BY <1>3 DEF ScanFound, OnDeviceFound, ConnectDevice, ConnectFails
<1>4. CASE ConstructorReturns
    BY <1>4 DEF ConstructorReturns
<1>5. CASE SetPreferredSerialPort
    BY <1>5 DEF SetPreferredSerialPort
<1>6. ASSUME NEW shot \in {"timer", "seed"}, TrySerialReconnect(shot), SerialGivesUp(shot)
      PROVE (IntentIsFresh /\ IntentUnseen)'
    BY <1>6 DEF TrySerialReconnect, SerialGivesUp, TrySerial
<1>7. ASSUME NEW shot \in {"timer", "seed"}, TrySerialReconnect(shot), SerialRetryOpens(shot)
      PROVE (IntentIsFresh /\ IntentUnseen)'
    BY <1>7 DEF TrySerialReconnect, SerialRetryOpens, ConnectDevice
<1>8. ASSUME NEW shot \in {"timer", "seed"}, TrySerialReconnect(shot), SerialRetryFails(shot)
      PROVE (IntentIsFresh /\ IntentUnseen)'
    BY <1>8 DEF TrySerialReconnect, SerialRetryFails, ConnectFails, RestartTimer,
        CountAttempt, NoAttemptsLeft
<1>9. CASE TryWifiReconnect
    BY <1>9 DEF TryWifiReconnect, Waiting
<1>10. CASE WifiUp
    BY <1>10 DEF WifiUp
<1>11. CASE DialFails
    BY <1>11 DEF DialFails
<1>12. CASE MdnsStopScan
    BY <1>12 DEF MdnsStopScan
<1>13. CASE MdnsStartScan
    BY <1>13 DEF MdnsStartScan
<1>14. CASE OpenSelector
    BY <1>14 DEF OpenSelector
<1>15. CASE CancelSelector
    BY <1>15 DEF CancelSelector
<1>16. CASE Disconnect
    BY <1>16 DEF Disconnect, CancelRetries
<1>17. ASSUME NEW p \in Port, ChooseSerial(p) PROVE (IntentIsFresh /\ IntentUnseen)'
    BY <1>17 DEF ChooseSerial, ConnectDevice, ConnectFails, SerialDropped,
        ForgetIntent
<1>18. ASSUME NEW a \in Addr, ChooseWifi(a) PROVE (IntentIsFresh /\ IntentUnseen)'
    BY <1>18 DEF ChooseWifi, ConnectDeviceWifi
<1>19. CASE SerialFails
    BY <1>19 DEF SerialFails, ClosePort, SerialDropped, ForgetIntent
<1>20. CASE WifiDown
    BY <1>20 DEF WifiDown, WifiDropped, ForgetIntent
<1>21. ASSUME NEW p \in Port, NEW from, NEW to \in {"absent", "busy", "free"}, PortChanges(p, from, to)
      PROVE (IntentIsFresh /\ IntentUnseen)'
    BY <1>21 DEF PortChanges
<1>22. ASSUME NEW a \in Addr, MdnsAnswer(a) PROVE (IntentIsFresh /\ IntentUnseen)'
    BY <1>22 DEF MdnsAnswer, AdoptTarget
<1>23. CASE UNCHANGED vars
    BY <1>23 DEF vars
<1> QED
    BY <1>1, <1>2, <1>3, <1>4, <1>5, <1>6, <1>7, <1>8, <1>9, <1>10, <1>11, <1>12,
       <1>13, <1>14, <1>15, <1>16, <1>17, <1>18, <1>19, <1>20, <1>21, <1>22, <1>23
       DEF Next, Slots, User, Environment, TrySerialReconnect, Plug, Unplug, Grab, Release

\* What disconnect() cancelled stays cancelled until somebody asks for a link.
LEMMA ClosedStep == RInv /\ [Next]_vars => (UserCloseIsFinal /\ Closed)'
<1> SUFFICES ASSUME RInv, [Next]_vars PROVE (UserCloseIsFinal /\ Closed)'
    OBVIOUS
<1> USE ReconnectAssumption DEF RInv, EnvTypes, TypeOK, FlagTypes, NameTypes,
        CounterTypes, UserCloseIsFinal, Closed, IntentIsFresh, Waiting, Connected,
        Idle, envVars, scanVars, linkVars, retryVars, wifiVars, mdnsVars, history,
        Spend
<1>1. CASE ScanStart
    BY <1>1 DEF ScanStart, Enumerated
<1>2. CASE ScanEnd
    BY <1>2 DEF ScanEnd
<1>3. ASSUME NEW p \in Port, ScanFound(p) PROVE (UserCloseIsFinal /\ Closed)'
    BY <1>3 DEF ScanFound, OnDeviceFound, ConnectDevice, ConnectFails
<1>4. CASE ConstructorReturns
    BY <1>4 DEF ConstructorReturns
<1>5. CASE SetPreferredSerialPort
    BY <1>5 DEF SetPreferredSerialPort
<1>6. ASSUME NEW shot \in {"timer", "seed"}, TrySerialReconnect(shot), SerialGivesUp(shot)
      PROVE (UserCloseIsFinal /\ Closed)'
    BY <1>6 DEF TrySerialReconnect, SerialGivesUp, TrySerial
<1>7. ASSUME NEW shot \in {"timer", "seed"}, TrySerialReconnect(shot), SerialRetryOpens(shot)
      PROVE (UserCloseIsFinal /\ Closed)'
    BY <1>7 DEF TrySerialReconnect, SerialRetryOpens, ConnectDevice
<1>8. ASSUME NEW shot \in {"timer", "seed"}, TrySerialReconnect(shot), SerialRetryFails(shot)
      PROVE (UserCloseIsFinal /\ Closed)'
    BY <1>8 DEF TrySerialReconnect, SerialRetryFails, ConnectFails, RestartTimer,
        CountAttempt, NoAttemptsLeft
<1>9. CASE TryWifiReconnect
    BY <1>9 DEF TryWifiReconnect
<1>10. CASE WifiUp
    BY <1>10 DEF WifiUp
<1>11. CASE DialFails
    BY <1>11 DEF DialFails
<1>12. CASE MdnsStopScan
    BY <1>12 DEF MdnsStopScan
<1>13. CASE MdnsStartScan
    BY <1>13 DEF MdnsStartScan
<1>14. CASE OpenSelector
    BY <1>14 DEF OpenSelector
<1>15. CASE CancelSelector
    BY <1>15 DEF CancelSelector
<1>16. CASE Disconnect
    BY <1>16 DEF Disconnect, CancelRetries
<1>17. ASSUME NEW p \in Port, ChooseSerial(p) PROVE (UserCloseIsFinal /\ Closed)'
    BY <1>17 DEF ChooseSerial, ConnectDevice, ConnectFails, SerialDropped,
        ForgetIntent
<1>18. ASSUME NEW a \in Addr, ChooseWifi(a) PROVE (UserCloseIsFinal /\ Closed)'
    BY <1>18 DEF ChooseWifi, ConnectDeviceWifi
<1>19. CASE SerialFails
    BY <1>19 DEF SerialFails, ClosePort, SerialDropped, ForgetIntent
<1>20. CASE WifiDown
    BY <1>20 DEF WifiDown, WifiDropped, ForgetIntent
<1>21. ASSUME NEW p \in Port, NEW from, NEW to \in {"absent", "busy", "free"}, PortChanges(p, from, to)
      PROVE (UserCloseIsFinal /\ Closed)'
    BY <1>21 DEF PortChanges
<1>22. ASSUME NEW a \in Addr, MdnsAnswer(a) PROVE (UserCloseIsFinal /\ Closed)'
    BY <1>22 DEF MdnsAnswer, AdoptTarget
<1>23. CASE UNCHANGED vars
    BY <1>23 DEF vars
<1> QED
    BY <1>1, <1>2, <1>3, <1>4, <1>5, <1>6, <1>7, <1>8, <1>9, <1>10, <1>11, <1>12,
       <1>13, <1>14, <1>15, <1>16, <1>17, <1>18, <1>19, <1>20, <1>21, <1>22, <1>23
       DEF Next, Slots, User, Environment, TrySerialReconnect, Plug, Unplug, Grab, Release

\* Only the chosen port is opened, retried or preferred.
LEMMA OwnStep == RInv /\ [Next]_vars => (NoSteal /\ Own)'
<1> SUFFICES ASSUME RInv, [Next]_vars PROVE (NoSteal /\ Own)'
    OBVIOUS
<1> USE ReconnectAssumption DEF RInv, TypeOK, FlagTypes, NameTypes, CounterTypes,
        NoSteal, Own, Waiting, Connected, NotWanted, Idle, envVars, scanVars,
        linkVars, retryVars, wifiVars, mdnsVars, history, Spend
<1>1. CASE ScanStart
    BY <1>1 DEF ScanStart, Enumerated
<1>2. CASE ScanEnd
    BY <1>2 DEF ScanEnd
<1>3. ASSUME NEW p \in Port, ScanFound(p) PROVE (NoSteal /\ Own)'
    BY <1>3 DEF ScanFound, OnDeviceFound, ConnectDevice, ConnectFails
<1>4. CASE ConstructorReturns
    BY <1>4 DEF ConstructorReturns
<1>5. CASE SetPreferredSerialPort
    BY <1>5 DEF SetPreferredSerialPort
<1>6. ASSUME NEW shot \in {"timer", "seed"}, TrySerialReconnect(shot), SerialGivesUp(shot)
      PROVE (NoSteal /\ Own)'
    BY <1>6 DEF TrySerialReconnect, SerialGivesUp, TrySerial
<1>7. ASSUME NEW shot \in {"timer", "seed"}, TrySerialReconnect(shot), SerialRetryOpens(shot)
      PROVE (NoSteal /\ Own)'
    BY <1>7 DEF TrySerialReconnect, SerialRetryOpens, ConnectDevice
<1>8. ASSUME NEW shot \in {"timer", "seed"}, TrySerialReconnect(shot), SerialRetryFails(shot)
      PROVE (NoSteal /\ Own)'
    BY <1>8 DEF TrySerialReconnect, SerialRetryFails, ConnectFails, RestartTimer,
        CountAttempt, NoAttemptsLeft
<1>9. CASE TryWifiReconnect
    BY <1>9 DEF TryWifiReconnect
<1>10. CASE WifiUp
    BY <1>10 DEF WifiUp
<1>11. CASE DialFails
    BY <1>11 DEF DialFails
<1>12. CASE MdnsStopScan
    BY <1>12 DEF MdnsStopScan
<1>13. CASE MdnsStartScan
    BY <1>13 DEF MdnsStartScan
<1>14. CASE OpenSelector
    BY <1>14 DEF OpenSelector
<1>15. CASE CancelSelector
    BY <1>15 DEF CancelSelector
<1>16. CASE Disconnect
    BY <1>16 DEF Disconnect, CancelRetries
<1>17. ASSUME NEW p \in Port, ChooseSerial(p) PROVE (NoSteal /\ Own)'
    BY <1>17 DEF ChooseSerial, ConnectDevice, ConnectFails, SerialDropped,
        ForgetIntent
<1>18. ASSUME NEW a \in Addr, ChooseWifi(a) PROVE (NoSteal /\ Own)'
    BY <1>18 DEF ChooseWifi, ConnectDeviceWifi
<1>19. CASE SerialFails
    BY <1>19 DEF SerialFails, ClosePort, SerialDropped, ForgetIntent
<1>20. CASE WifiDown
    BY <1>20 DEF WifiDown, WifiDropped, ForgetIntent
<1>21. ASSUME NEW p \in Port, NEW from, NEW to \in {"absent", "busy", "free"}, PortChanges(p, from, to)
      PROVE (NoSteal /\ Own)'
    BY <1>21 DEF PortChanges
<1>22. ASSUME NEW a \in Addr, MdnsAnswer(a) PROVE (NoSteal /\ Own)'
    BY <1>22 DEF MdnsAnswer, AdoptTarget
<1>23. CASE UNCHANGED vars
    BY <1>23 DEF vars
<1> QED
    BY <1>1, <1>2, <1>3, <1>4, <1>5, <1>6, <1>7, <1>8, <1>9, <1>10, <1>11, <1>12,
       <1>13, <1>14, <1>15, <1>16, <1>17, <1>18, <1>19, <1>20, <1>21, <1>22, <1>23
       DEF Next, Slots, User, Environment, TrySerialReconnect, Plug, Unplug, Grab, Release

LEMMA RInvHolds == Spec => []RInv
<1>1. RInv /\ [Next]_vars => RInv'
    BY TypeStep, RetryStep, IntentStep, ClosedStep, OwnStep DEF RInv
<1> QED
    BY InitRInv, <1>1, PTL DEF Spec

\* Every variable keeps to its type and the retry counters to their limits, for any
\* number of ports, addresses, retries and events.
THEOREM TypeCorrect == Spec => []TypeOK
<1>1. RInv => TypeOK
    BY DEF RInv
<1> QED
    BY RInvHolds, <1>1, PTL

\* onDeviceFound() never hands an edge to a retry that will not run: a port waits for
\* a retry only while the timer, or the single shot of --port, is going to serve it.
THEOREM RetryHasTimerAlways == Spec => []RetryHasTimer
<1>1. RInv => RetryHasTimer
    BY DEF RInv
<1> QED
    BY RInvHolds, <1>1, PTL

\* No interleaving of scans, timers, late worker answers and start-up leaves a retry
\* pending after disconnect().
THEOREM UserCloseIsFinalAlways == Spec => []UserCloseIsFinal
<1>1. RInv => UserCloseIsFinal
    BY DEF RInv
<1> QED
    BY RInvHolds, <1>1, PTL

\* After a deliberate connection no edge and no retry opens another M1's port.
THEOREM NoStealAlways == Spec => []NoSteal
<1>1. RInv => NoSteal
    BY DEF RInv
<1> QED
    BY RInvHolds, <1>1, PTL

\* m_userDisconnecting is never left over for a later, unwanted loss.
THEOREM IntentIsFreshAlways == Spec => []IntentIsFresh
<1>1. RInv => IntentIsFresh
    BY DEF RInv
<1> QED
    BY RInvHolds, <1>1, PTL
=============================================================================
