------------------------------ MODULE WifiMode ------------------------------
(***************************************************************************)
(* The Wi-Fi mode of the board (config.c, main.c).  It starts as an access *)
(* point for one client; AT STA makes it a station of some network, AT AP  *)
(* changes the access point, AT MODE stores a mode and restarts, and a     *)
(* timer looks after the mode while it is not a mere access point.         *)
(*                                                                         *)
(* The SDK keeps the mode, the network to join and the access point in its *)
(* own part of the flash.  A restart that was asked for comes a little     *)
(* later: until then handlers still run.                                   *)
(***************************************************************************)
EXTENDS Naturals, Sequences

CONSTANTS
    Ssids,      \* names of networks, of at most 32 characters
    Passwords,  \* passwords given with them
    Accepting,  \* the networks around: which <<name, password>> they accept
    ApArgs,     \* arguments AT AP is given: a name, password, authmode, hidden,
                \* channel, of which the last ones may be missing
    ModeArgs    \* arguments AT MODE is given

ASSUME WifiAssumption ==
    /\ Accepting \subseteq Ssids \X Passwords
    /\ ModeArgs \subseteq Nat
    /\ \A a \in ApArgs :
          /\ Len(a) \in Nat \ {0} /\ a[1] \in Ssids
          /\ Len(a) > 1 => a[2] \in Passwords
          /\ \A i \in 3 .. Len(a) : a[i] \in Nat

VARIABLES
    mode,    \* the mode in force
    saved,   \* the mode the SDK starts in
    stconf,  \* the network to join, or NoNetwork
    apconf,  \* the access point
    linked,  \* the board has joined a network
    clients, \* how many have joined the board
    timer,   \* resetTimer: "off", "short" (15 s) or "long" (225 s)
    pc,      \* "off", "boot", "on", or "restart": one has been asked for
    asked    \* the network AT STA named since the start, or NoNetwork

vars == <<mode, saved, stconf, apconf, linked, clients, timer, pc, asked>>

STATION_MODE == 1
SOFTAP_MODE == 2
STATIONAP_MODE == 3
Modes == {STATION_MODE, SOFTAP_MODE, STATIONAP_MODE}
AUTH_OPEN == 0

NoNetwork == <<>>
Networks == Ssids \X Passwords
NoPassword == "no password"

\* What the SDK takes as an access point; 4 clients unless it is told otherwise.
AccessPoints == [ssid: Ssids \cup {"ESP"}, password: Passwords \cup {NoPassword},
                 authmode: 0..4, ssid_hidden: 0..1, channel: 1..13,
                 max_connection: {1, 4}]
FactoryAp == [ssid |-> "ESP", password |-> NoPassword, authmode |-> AUTH_OPEN,
              ssid_hidden |-> 0, channel |-> 1, max_connection |-> 4]

TypeOK ==
    /\ mode \in Modes /\ saved \in Modes
    /\ stconf \in Networks \cup {NoNetwork}
    /\ asked \in Networks \cup {NoNetwork}
    /\ apconf \in AccessPoints
    /\ linked \in BOOLEAN /\ clients \in 0..4
    /\ timer \in {"off", "short", "long"}
    /\ pc \in {"off", "boot", "on", "restart"}

Running == pc \in {"on", "restart"}

\* Commands come over TCP: from a client, or from the network that was joined.
Reached == Running /\ (clients > 0 \/ linked)

-----------------------------------------------------------------------------
(***************************** What the SDK does ****************************)

\* A mode without its access point drops the clients, one without its station the link.
SetMode(m) ==
    /\ mode' = m
    /\ clients' = IF m = STATION_MODE THEN 0 ELSE clients
    /\ linked' = IF m = SOFTAP_MODE THEN FALSE ELSE linked

Start ==
    /\ pc = "off" /\ pc' = "boot"
    /\ mode' = saved
    /\ UNCHANGED <<saved, stconf, apconf, linked, clients, timer, asked>>

Join ==
    /\ Running /\ mode # STATION_MODE
    /\ clients < apconf.max_connection /\ clients' = clients + 1
    /\ UNCHANGED <<mode, saved, stconf, apconf, linked, timer, pc, asked>>

Leave ==
    /\ clients > 0 /\ clients' = clients - 1
    /\ UNCHANGED <<mode, saved, stconf, apconf, linked, timer, pc, asked>>

Associate ==
    /\ Running /\ mode # SOFTAP_MODE
    /\ ~linked /\ linked' = TRUE
    /\ stconf \in Accepting
    /\ UNCHANGED <<mode, saved, stconf, apconf, clients, timer, pc, asked>>

LoseLink ==
    /\ linked /\ linked' = FALSE
    /\ UNCHANGED <<mode, saved, stconf, apconf, clients, timer, pc, asked>>

\* The restart that was asked for, or power going.
Off ==
    /\ pc' = "off"
    /\ linked' = FALSE /\ clients' = 0 /\ timer' = "off" /\ asked' = NoNetwork
    /\ UNCHANGED <<mode, saved, stconf, apconf>>

Restart == pc = "restart" /\ Off
PowerCut == pc \in {"boot", "on"} /\ Off

-----------------------------------------------------------------------------
(***************************** Start and timer *****************************)

user_init ==
    /\ pc = "boot" /\ pc' = "on"
    /\ apconf' = [apconf EXCEPT !.max_connection = 1]
    /\ SetMode(SOFTAP_MODE)
    /\ UNCHANGED <<saved, stconf, timer, asked>>

resetTimerCb_once ==                                              \* mutant
    /\ Running /\ timer # "off" /\ timer' = "off"
    /\ IF mode = STATIONAP_MODE /\ clients = 0 THEN SetMode(STATION_MODE)
       ELSE UNCHANGED <<mode, clients, linked>>
    /\ UNCHANGED <<saved, stconf, apconf, pc, asked>>

\* As a mere access point the timer is not armed again.
resetTimerCb ==
    /\ Running /\ timer # "off"
    /\ timer' = IF mode = SOFTAP_MODE THEN "off" ELSE "short"
    /\ IF mode = STATIONAP_MODE /\ clients = 0 THEN SetMode(STATION_MODE)
       ELSE UNCHANGED <<mode, clients, linked>>
    /\ UNCHANGED <<saved, stconf, apconf, pc, asked>>

-----------------------------------------------------------------------------
(******************************** Commands *********************************)

\* AT MODE: uint8_t mode = atoi(argv[1]).
config_cmd_mode(arg) ==
    LET m == arg % 256 IN
    /\ Reached /\ m \in Modes /\ m # mode
    /\ SetMode(m) /\ saved' = m
    /\ pc' = "restart"
    /\ UNCHANGED <<stconf, apconf, timer, asked>>

\* The configuration the SDK has stored is replaced where it differs.
Replaced_name_only(old, new) ==                                   \* mutant
    IF old = NoNetwork \/ old[1] # new[1] THEN new ELSE old
Replaced(old, new) == IF old # new THEN new ELSE old

Limited_unread(ap) ==                                             \* mutant
    [FactoryAp EXCEPT !.max_connection = 1]
Limited(ap) == [ap EXCEPT !.max_connection = 1]

setup_wifi_station_mode(network) ==
    /\ mode' = STATION_MODE /\ clients' = 0 /\ linked' = FALSE
    /\ stconf' = Replaced(stconf, network)
    /\ apconf' = Limited(apconf)
    /\ timer' = "long"

config_cmd_sta(network) ==
    /\ Reached
    /\ setup_wifi_station_mode(network)
    /\ asked' = network
    /\ UNCHANGED <<saved, pc>>

\* What makes AT AP answer ERROR, and leave everything as it is.
Refused(a) ==
    \/ Len(a) > 5
    \/ Len(a) > 2 /\ a[3] \notin 1..4
    \/ Len(a) > 3 /\ a[4] \notin 0..1
    \/ Len(a) > 4 /\ a[5] \notin 1..13

\* The access point AT AP makes of `ap`: what it does not name stays as it was.
ApAsked_fresh(a, ap) ==                                           \* mutant
    [ssid |-> a[1], password |-> IF Len(a) = 1 THEN NoPassword ELSE a[2],
     authmode |-> IF Len(a) > 2 THEN a[3] ELSE AUTH_OPEN,
     ssid_hidden |-> IF Len(a) > 3 THEN a[4] ELSE 0,
     channel |-> IF Len(a) > 4 THEN a[5] ELSE 1, max_connection |-> 4]
ApAsked(a, ap) ==
    [ap EXCEPT
        !.ssid = a[1],
        !.password = IF Len(a) = 1 THEN NoPassword ELSE a[2],
        !.authmode = IF Len(a) = 1 THEN AUTH_OPEN ELSE IF Len(a) = 2 THEN @ ELSE a[3],
        !.ssid_hidden = IF Len(a) > 3 THEN a[4] ELSE @,
        !.channel = IF Len(a) > 4 THEN a[5] ELSE @]

config_cmd_ap(a) ==
    /\ Reached /\ ~Refused(a)
    /\ apconf' = ApAsked(a, apconf)
    /\ UNCHANGED <<mode, saved, stconf, linked, clients, timer, pc, asked>>

\* AT RESET, and everything else that asks for a restart.
config_cmd_reset ==
    /\ Reached /\ pc' = "restart"
    /\ UNCHANGED <<mode, saved, stconf, apconf, linked, clients, timer, asked>>

\* AT RESTORE: what the SDK stored is as it was when it left the factory.
config_cmd_restore ==
    /\ Reached /\ pc' = "restart"
    /\ saved' \in Modes /\ stconf' = NoNetwork /\ apconf' = FactoryAp
    /\ UNCHANGED <<mode, linked, clients, timer, asked>>

-----------------------------------------------------------------------------

Init ==
    /\ mode = SOFTAP_MODE /\ saved \in Modes
    /\ stconf \in Accepting \cup {NoNetwork} /\ asked = NoNetwork
    /\ apconf = FactoryAp
    /\ linked = FALSE /\ clients = 0 /\ timer = "off"
    /\ pc = "off"

Next ==
    \/ Start \/ user_init \/ Restart \/ PowerCut
    \/ Join \/ Leave \/ Associate \/ LoseLink
    \/ resetTimerCb
    \/ \E arg \in ModeArgs : config_cmd_mode(arg)
    \/ \E network \in Networks : config_cmd_sta(network)
    \/ \E a \in ApArgs : config_cmd_ap(a)
    \/ config_cmd_reset \/ config_cmd_restore

Spec == Init /\ [][Next]_vars

-----------------------------------------------------------------------------
(******************************** Properties *******************************)

\* One client at most (main.c:99 "limit to one device connected"): AT AP, which reads
\* and writes the whole configuration, keeps the limit, and so do AT STA and a start
\* after AT RESTORE.
OneClient == pc = "on" => clients <= 1

\* The board is a station only because AT STA was given since the start, and the
\* network it joins is the one that was named, password included: no mode left behind
\* by AT MODE, and no network stored before, survives.  Only there does the alarm
\* contact go unwatched (pulseTimer).
StationAsAsked == pc = "on" /\ mode # SOFTAP_MODE => asked # NoNetwork /\ stconf = asked

\* As long as the board is a station the timer that looks after the mode is armed: no
\* chain of callbacks and commands lets it lapse.
StationWatched == pc = "on" /\ mode # SOFTAP_MODE => timer # "off"

\* The name, password and the rest by which clients find the access point change only
\* by AT RESTORE or by an AT AP, to what it names: what it does not name, AT STA,
\* refused commands and restarts leave as it was.
ApKept ==
    [][LET names == <<"ssid", "password", "authmode", "ssid_hidden", "channel">> IN
       (\E i \in 1..5 : apconf'[names[i]] # apconf[names[i]]) =>
           \/ pc' = "restart" /\ apconf' = FactoryAp
           \/ \E a \in ApArgs : \A i \in 1..5 :
                 apconf'[names[i]] = IF i <= Len(a) THEN a[i]
                                     ELSE IF i < 4 /\ Len(a) = 1 THEN FactoryAp[names[i]]
                                     ELSE apconf[names[i]]]_vars
=============================================================================
