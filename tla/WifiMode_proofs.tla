--------------------------- MODULE WifiMode_proofs ---------------------------
(***************************************************************************)
(* Proofs about WifiMode for every set of networks, passwords and command  *)
(* arguments.  The safety properties are one inductive invariant, Kept;    *)
(* that AT AP and the rest leave the access point alone follows from the   *)
(* types.                                                                  *)
(***************************************************************************)
EXTENDS WifiMode, TLAPS

\* A number of arguments AT AP may have.
LEMMA Counted == \A n \in Nat \ {0} : /\ n = 1 \/ n = 2 \/ n > 2
                                      /\ n <= 5 => n \in {1, 2, 3, 4, 5}
OBVIOUS

\* An AT AP that is not refused makes an access point of an access point.
LEMMA ApAskedType ==
    ASSUME NEW a \in ApArgs, ~Refused(a), NEW ap \in AccessPoints
    PROVE  ApAsked(a, ap) \in AccessPoints
<1>0. Len(a) \in Nat \ {0} /\ a[1] \in Ssids /\ (Len(a) > 1 => a[2] \in Passwords)
  BY WifiAssumption
<1>1. /\ Len(a) <= 5
      /\ Len(a) > 2 => a[3] \in 1..4
      /\ Len(a) > 3 => a[4] \in 0..1
      /\ Len(a) > 4 => a[5] \in 1..13
  BY <1>0 DEF Refused
<1>4. /\ a[1] \in Ssids \cup {"ESP"}
      /\ (IF Len(a) = 1 THEN NoPassword ELSE a[2]) \in Passwords \cup {NoPassword}
      /\ (IF Len(a) = 1 THEN AUTH_OPEN ELSE IF Len(a) = 2 THEN ap.authmode ELSE a[3]) \in 0..4
      /\ (IF Len(a) > 3 THEN a[4] ELSE ap.ssid_hidden) \in 0..1
      /\ (IF Len(a) > 4 THEN a[5] ELSE ap.channel) \in 1..13
  <2>1. Len(a) = 1 \/ Len(a) = 2 \/ Len(a) > 2
    BY <1>0, Counted, Zenon
  <2>2. ap.authmode \in 0..4 /\ ap.ssid_hidden \in 0..1 /\ ap.channel \in 1..13
    BY DEF AccessPoints
  <2>3. (IF Len(a) = 1 THEN NoPassword ELSE a[2]) \in Passwords \cup {NoPassword}
    BY <1>0, <2>1
  <2>4. (IF Len(a) = 1 THEN AUTH_OPEN ELSE IF Len(a) = 2 THEN ap.authmode ELSE a[3])
           \in 0..4
    BY <1>1, <2>1, <2>2 DEF AUTH_OPEN
  <2>5. QED
    BY <1>0, <1>1, <2>2, <2>3, <2>4
<1>5. QED
  BY <1>4 DEF ApAsked, AccessPoints

LEMMA LimitedType ==
    ASSUME NEW ap \in AccessPoints
    PROVE  Limited(ap) \in AccessPoints /\ Limited(ap).max_connection = 1
BY DEF Limited, AccessPoints

LEMMA FactoryType == FactoryAp \in AccessPoints
BY DEF FactoryAp, AccessPoints, AUTH_OPEN

\* The types of the state, for all arguments.
THEOREM TypeCorrect == Spec => []TypeOK
<1>1. Init => TypeOK
  <2>1. Accepting \subseteq Networks
    BY WifiAssumption DEF Networks
  <2>2. QED
    <3>1. Init => linked \in BOOLEAN
      BY Zenon DEF Init
    <3>2. QED
      BY <2>1, <3>1, FactoryType DEF Init, TypeOK, Modes, SOFTAP_MODE
<1>2. TypeOK /\ [Next]_vars => TypeOK'
  <2> SUFFICES ASSUME TypeOK, [Next]_vars PROVE TypeOK'
    OBVIOUS
  <2> USE DEF TypeOK
  <2>1. CASE Start
    BY <2>1 DEF Start
  <2>2. CASE user_init
    BY <2>2, LimitedType
       DEF user_init, SetMode, AccessPoints, Modes, SOFTAP_MODE, STATION_MODE
  <2>3. CASE Restart \/ PowerCut
    <3>1. linked' \in BOOLEAN
      BY <2>3, Zenon DEF Restart, PowerCut, Off
    <3>2. QED
      BY <2>3, <3>1 DEF Restart, PowerCut, Off
  <2>4. CASE Join
    BY <2>4 DEF Join, AccessPoints
  <2>5. CASE Leave
    BY <2>5 DEF Leave
  <2>6. CASE Associate \/ LoseLink
    BY <2>6 DEF Associate, LoseLink
  <2>7. CASE resetTimerCb
    BY <2>7 DEF resetTimerCb, SetMode, Modes, STATION_MODE, SOFTAP_MODE
  <2>8. ASSUME NEW arg \in ModeArgs, config_cmd_mode(arg) PROVE TypeOK'
    <3>1. linked' \in BOOLEAN
      BY <2>8, Zenon DEF config_cmd_mode, SetMode
    <3>2. mode' \in Modes /\ saved' \in Modes
      BY <2>8 DEF config_cmd_mode, SetMode
    <3>3. clients' \in 0..4
      BY <2>8 DEF config_cmd_mode, SetMode
    <3>4. QED
      BY <2>8, <3>1, <3>2, <3>3 DEF config_cmd_mode
  <2>9. ASSUME NEW network \in Networks, config_cmd_sta(network) PROVE TypeOK'
    <3>1. linked' \in BOOLEAN
      BY <2>9, Zenon DEF config_cmd_sta, setup_wifi_station_mode
    <3>2. QED
      BY <2>9, <3>1, LimitedType
       DEF config_cmd_sta, setup_wifi_station_mode, Replaced, Modes, STATION_MODE
  <2>10. ASSUME NEW a \in ApArgs, config_cmd_ap(a) PROVE TypeOK'
    BY <2>10, ApAskedType DEF config_cmd_ap
  <2>11. CASE config_cmd_reset
    BY <2>11 DEF config_cmd_reset
  <2>12. CASE config_cmd_restore
    BY <2>12, FactoryType DEF config_cmd_restore
  <2>13. CASE UNCHANGED vars
    BY <2>13 DEF vars
  <2>14. QED
    BY <2>1, <2>2, <2>3, <2>4, <2>5, <2>6, <2>7, <2>8, <2>9, <2>10, <2>11, <2>12,
       <2>13 DEF Next
<1>3. QED
  BY <1>1, <1>2, PTL DEF Spec

-----------------------------------------------------------------------------
(****************************** Safety **************************************)

\* One client, the network that was asked for, and an armed timer, because the limit
\* is in force while the board runs and no restart is under way.
Kept ==
    /\ OneClient /\ StationAsAsked /\ StationWatched
    /\ pc = "on" => apconf.max_connection = 1
    /\ pc \in {"off", "boot"} => clients = 0

LEMMA KeptNext == TypeOK /\ Kept /\ [Next]_vars => Kept'
<1> SUFFICES ASSUME TypeOK, Kept, [Next]_vars PROVE Kept'
  OBVIOUS
<1> USE DEF Kept, OneClient, StationAsAsked, StationWatched
<1>1. CASE Start
  BY <1>1 DEF Start
<1>2. CASE user_init
  <2>1. apconf'.max_connection = 1
    BY <1>2 DEF user_init, TypeOK, AccessPoints
  <2>2. QED
    BY <1>2, <2>1 DEF user_init, SetMode, SOFTAP_MODE, STATION_MODE
<1>3. CASE Restart \/ PowerCut
  BY <1>3 DEF Restart, PowerCut, Off
<1>4. CASE Join
  BY <1>4 DEF Join, Running, TypeOK
<1>5. CASE Leave
  BY <1>5 DEF Leave, TypeOK
<1>6. CASE Associate \/ LoseLink
  BY <1>6 DEF Associate, LoseLink
<1>7. CASE resetTimerCb
  BY <1>7 DEF resetTimerCb, SetMode, Running, STATION_MODE, SOFTAP_MODE, STATIONAP_MODE
<1>8. ASSUME NEW arg \in ModeArgs, config_cmd_mode(arg) PROVE Kept'
  BY <1>8 DEF config_cmd_mode
<1>9. ASSUME NEW network \in Networks, config_cmd_sta(network) PROVE Kept'
  <2>1. network # NoNetwork
    BY DEF Networks, NoNetwork
  <2>2. stconf' = network /\ asked' = network /\ timer' = "long" /\ clients' = 0
    BY <1>9 DEF config_cmd_sta, setup_wifi_station_mode, Replaced
  <2>3. apconf'.max_connection = 1
    BY <1>9, LimitedType DEF config_cmd_sta, setup_wifi_station_mode, TypeOK
  <2>4. QED
    BY <2>1, <2>2, <2>3
<1>10. ASSUME NEW a \in ApArgs, config_cmd_ap(a) PROVE Kept'
  <2>1. apconf'.max_connection = apconf.max_connection
    BY <1>10 DEF config_cmd_ap, ApAsked, TypeOK, AccessPoints
  <2>2. QED
    BY <1>10, <2>1 DEF config_cmd_ap
<1>11. CASE config_cmd_reset
  BY <1>11 DEF config_cmd_reset
<1>12. CASE config_cmd_restore
  BY <1>12 DEF config_cmd_restore
<1>13. CASE UNCHANGED vars
  BY <1>13 DEF vars
<1>14. QED
  BY <1>1, <1>2, <1>3, <1>4, <1>5, <1>6, <1>7, <1>8, <1>9, <1>10, <1>11, <1>12,
     <1>13 DEF Next

LEMMA KeptAlways == Spec => []Kept
<1>1. Init => Kept
  BY DEF Init, Kept, OneClient, StationAsAsked, StationWatched
<1>2. QED
  BY <1>1, KeptNext, TypeCorrect, PTL DEF Spec

\* At most one client, whatever AT AP, AT STA and AT RESTORE do to the configuration.
THEOREM OneClientOnly == Spec => []OneClient
<1>1. Kept => OneClient
  BY DEF Kept
<1>2. QED
  BY <1>1, KeptAlways, PTL

\* The board is a station only of the network that was asked for.
THEOREM StationIsAsked == Spec => []StationAsAsked
<1>1. Kept => StationAsAsked
  BY DEF Kept
<1>2. QED
  BY <1>1, KeptAlways, PTL

\* The timer that looks after a station never lapses.
THEOREM StationIsWatched == Spec => []StationWatched
<1>1. Kept => StationWatched
  BY DEF Kept
<1>2. QED
  BY <1>1, KeptAlways, PTL

-----------------------------------------------------------------------------

LEMMA ApKeptStep ==
    ASSUME TypeOK, [Next]_vars,
           ~(pc' = "restart" /\ apconf' = FactoryAp),
           ~(\E a \in ApArgs : ~Refused(a) /\ apconf' = ApAsked(a, apconf))
    PROVE  /\ apconf'.ssid = apconf.ssid /\ apconf'.password = apconf.password
           /\ apconf'.authmode = apconf.authmode
           /\ apconf'.ssid_hidden = apconf.ssid_hidden
           /\ apconf'.channel = apconf.channel
<1>1. CASE apconf' = [apconf EXCEPT !.max_connection = 1] \/ apconf' = apconf
  BY <1>1 DEF TypeOK, AccessPoints
<1>2. QED
  BY <1>1 DEF Next, vars, Start, user_init, Restart, PowerCut, Off, Join, Leave,
     Associate, LoseLink, resetTimerCb, config_cmd_mode, config_cmd_sta,
     setup_wifi_station_mode, Limited, config_cmd_ap, config_cmd_reset,
     config_cmd_restore

\* What clients know the access point by changes only as AT AP or AT RESTORE say.
THEOREM ApIsKept == Spec => ApKept
<1> DEFINE names == <<"ssid", "password", "authmode", "ssid_hidden", "channel">>
           Named(a) == \A i \in 1..5 :
               apconf'[names[i]] = IF i <= Len(a) THEN a[i]
                                   ELSE IF i < 4 /\ Len(a) = 1 THEN FactoryAp[names[i]]
                                   ELSE apconf[names[i]]
           Step == (\E i \in 1..5 : apconf'[names[i]] # apconf[names[i]]) =>
                       \/ pc' = "restart" /\ apconf' = FactoryAp
                       \/ \E a \in ApArgs : Named(a)
<1>1. ASSUME TypeOK, NEW a \in ApArgs, ~Refused(a), apconf' = ApAsked(a, apconf)
      PROVE  Named(a)
  <2>1. Len(a) \in {1, 2, 3, 4, 5}
    <3>1. Len(a) \in Nat \ {0}
      BY WifiAssumption
    <3>2. Len(a) <= 5
      BY <1>1, <3>1 DEF Refused
    <3>3. QED
      BY <3>1, <3>2, Counted, Zenon
  <2> DEFINE n == Len(a)
  <2> HIDE DEF n
  <2>2. /\ apconf'.ssid = a[1]
        /\ apconf'.password = IF n = 1 THEN NoPassword ELSE a[2]
        /\ apconf'.authmode = IF n = 1 THEN AUTH_OPEN
                              ELSE IF n = 2 THEN apconf.authmode ELSE a[3]
        /\ apconf'.ssid_hidden = IF n > 3 THEN a[4] ELSE apconf.ssid_hidden
        /\ apconf'.channel = IF n > 4 THEN a[5] ELSE apconf.channel
    BY <1>1 DEF ApAsked, TypeOK, AccessPoints, n
  <2>3. /\ FactoryAp.password = NoPassword /\ FactoryAp.authmode = AUTH_OPEN
        /\ names[1] = "ssid" /\ names[2] = "password" /\ names[3] = "authmode"
        /\ names[4] = "ssid_hidden" /\ names[5] = "channel"
    BY DEF FactoryAp
  <2>4. n \in {1, 2, 3, 4, 5}
    BY <2>1 DEF n
  <2>5. ASSUME NEW i \in 1..5
        PROVE  apconf'[names[i]] = IF i <= n THEN a[i]
                                   ELSE IF i < 4 /\ n = 1 THEN FactoryAp[names[i]]
                                   ELSE apconf[names[i]]
    <3>1. CASE i = 1
      BY <2>2, <2>3, <2>4, <3>1
    <3>2. CASE i = 2
      BY <2>2, <2>3, <2>4, <3>2
    <3>3. CASE i = 3
      BY <2>2, <2>3, <2>4, <3>3
    <3>4. CASE i = 4
      BY <2>2, <2>3, <2>4, <3>4
    <3>5. CASE i = 5
      BY <2>2, <2>3, <2>4, <3>5
    <3>6. QED
      BY <3>1, <3>2, <3>3, <3>4, <3>5
  <2>6. QED
    BY <2>5 DEF n
<1>2. ASSUME TypeOK, [Next]_vars PROVE Step
  BY <1>1, <1>2, ApKeptStep
<1>3. TypeOK /\ [Next]_vars => [Step]_vars
  BY <1>2
<1>4. Spec => [][Step]_vars
  BY <1>3, TypeCorrect, PTL DEF Spec
<1>5. QED
  BY <1>4 DEF ApKept
=============================================================================
