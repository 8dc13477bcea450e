------------------------------ MODULE RbootOta ------------------------------
(***************************************************************************)
(* The OTA client (rboot-ota.c) with the two commands that start it and    *)
(* switch ROMs (config.c) and the boot loader's choice of a ROM.           *)
(*                                                                         *)
(* The client is a set of callbacks over four pieces of shared state: the  *)
(* static pointer `upgrade`, one timer, the SDK's upgrade flag, and the    *)
(* espconn structures it allocates and the SDK calls back with.  Callbacks *)
(* never preempt one another, so each is one action; what is hard is the   *)
(* order in which the SDK delivers them, because espconn_disconnect is     *)
(* asynchronous and outlives the attempt that called it.                   *)
(***************************************************************************)
EXTENDS Naturals, FiniteSets, WriteOutcomes

CONSTANTS
    Conns,          \* addresses an espconn structure can be allocated at
    None,           \* the null pointer
    ContentLens,    \* Content-Length values a server may announce
    ChunkLens,      \* body bytes one receive callback can carry
    MaxTotal,       \* bound: bytes received in one attempt
    LateCallbacks   \* TRUE: the SDK may still call back for a connection
                    \* whose attempt has been given up

ASSUME ConnsAssumption == IsFiniteSet(Conns) /\ None \notin Conns
ASSUME LengthsAssumption ==
    /\ ContentLens \subseteq Nat
    /\ ChunkLens \subseteq Nat
    /\ MaxTotal \in Nat
ASSUME LateAssumption == LateCallbacks \in BOOLEAN

Slots == {0, 1}

VARIABLES
    flag,         \* system_upgrade_flag: "IDLE", "START", "FINISH"
    upgrade,      \* the static pointer: "null", "live", or "freed" (dangling)
    up,           \* the structure it points to while live
    timer,        \* the function ota_timer is armed with, or "off"
    heap,         \* espconn structures allocated and not yet freed
    net,          \* what the SDK is doing with the espconn at each address
    abandoned,    \* addresses freed under the SDK, with what it was doing there
    image,        \* what each ROM slot holds
    current_rom,  \* the ROM the boot configuration selects
    running,      \* the ROM that executes
    restarting,   \* system_restart has been called
    fault         \* undefined behaviour reached: the pointer that was followed

pointers == <<flag, upgrade, up>>
network  == <<timer, heap, net, abandoned>>
roms     == <<current_rom, running, restarting>>
vars     == <<pointers, network, image, roms, fault>>

\* A structure as zalloc and the assignments of rboot_ota_start leave it.
Attempt(slot, c) == [rom_slot |-> slot, conn |-> c, total_len |-> 0,
                     content_len |-> 0, written |-> 0, extra_count |-> 0]

NoUpgrade == Attempt(0, None)

Upgrades == [rom_slot: Slots, conn: Conns \cup {None}, total_len: Nat,
             content_len: Nat, written: Nat, extra_count: 0..3]

NetStates == {"none", "resolving", "connecting", "open", "closing"}

TypeOK ==
    /\ flag \in {"IDLE", "START", "FINISH"}
    /\ upgrade \in {"null", "live", "freed"}
    /\ up \in Upgrades
    /\ upgrade = "live" => up.conn \in Conns
    /\ timer \in {"off", "connect_timeout_cb", "rboot_ota_deinit"}
    /\ heap \subseteq Conns
    /\ net \in [Conns -> NetStates]
    /\ abandoned \subseteq Conns \X NetStates
    /\ image \in [Slots -> {"whole", "partial"}]
    /\ current_rom \in Slots
    /\ running \in Slots
    /\ restarting \in BOOLEAN
    /\ fault \in {"none", "null", "freed"}

-----------------------------------------------------------------------------
(***************************** The flash writer ****************************)

\* The slot holds a whole image once exactly the announced bytes are in it.
ImageAfter(u, w, content_len) ==
    IF w.touched = 0 THEN image
    ELSE [image EXCEPT ![u.rom_slot] =
             IF w.ret = "ok" /\ w.written = content_len
             THEN "whole" ELSE "partial"]

-----------------------------------------------------------------------------
(************************** Boot configuration *****************************)

\* Saving the configuration fails when there is no RAM for a sector buffer.
rboot_set_current_rom(rom) == current_rom' \in {current_rom, rom}

\* Mutant: a failed update selects the new ROM too.
OtaUpdate_CallBack_ignores_result(result, rom_slot) ==
    rboot_set_current_rom(rom_slot) /\ restarting' = result

\* The user's callback: on success select the new ROM and restart, whether or
\* not the selection could be saved.
OtaUpdate_CallBack(result, rom_slot) ==
    IF result
    THEN rboot_set_current_rom(rom_slot) /\ restarting' = TRUE
    ELSE UNCHANGED <<current_rom, restarting>>

-----------------------------------------------------------------------------
(****************************** Shared handlers ****************************)

os_timer_disarm_forgotten == UNCHANGED timer       \* mutant
os_timer_disarm == timer' = "off"

\* What the SDK is left doing with the attempt's connection: nothing if it is
\* already gone, else a disconnect is requested and upgrade_disconcb will come.
espconn_disconnect(gone) ==
    [net EXCEPT ![up.conn] = IF gone THEN "none" ELSE "closing"]

\* Mutant: after a failure the flag is not reset.
rboot_ota_deinit_keeps_flag(gone, fl) ==
    /\ os_timer_disarm
    /\ upgrade' = "null"
    /\ up' = NoUpgrade
    /\ heap' = IF gone THEN heap \ {up.conn} ELSE heap
    /\ net' = espconn_disconnect(gone)
    /\ flag' = fl
    /\ OtaUpdate_CallBack(fl = "FINISH", up.rom_slot)
    /\ UNCHANGED <<running, fault>>

\* Ends the attempt.  `gone` says that the connection has been marked as gone
\* and its memory freed.  `fl` is the upgrade flag at this point.
rboot_ota_deinit(gone, fl) ==
    /\ os_timer_disarm
    /\ upgrade' = "null"
    /\ up' = NoUpgrade
    /\ heap' = IF gone THEN heap \ {up.conn} ELSE heap
    /\ net' = espconn_disconnect(gone)
    /\ flag' = IF fl = "FINISH" THEN fl ELSE "IDLE"
    /\ OtaUpdate_CallBack(fl = "FINISH", up.rom_slot)
    /\ UNCHANGED <<running, fault>>

\* Frees the espconn it is given and, if that one belongs to the attempt in
\* progress, ends the attempt.  A dangling `upgrade` passes the null test and
\* the freed structure is read: the comparison comes out either way.
upgrade_disconcb(c) ==
    \/ /\ upgrade = "live" /\ up.conn = c
       /\ rboot_ota_deinit(TRUE, flag)
    \/ /\ ~ (upgrade = "live" /\ up.conn = c)
       /\ os_timer_disarm
       /\ heap' = heap \ {c}
       /\ net' = [net EXCEPT ![c] = "none"]
       /\ fault' \in IF upgrade = "freed" THEN {"none", "freed"} ELSE {"none"}
       /\ UNCHANGED <<pointers, roms>>

\* A handler that follows `upgrade` without testing it.
Follows(handler) ==
    \/ upgrade = "live" /\ handler
    \/ /\ upgrade # "live"
       /\ fault' = upgrade
       /\ UNCHANGED <<pointers, network, image, roms>>

\* Callbacks run only while the program does.
Alive == fault = "none" /\ ~restarting

-----------------------------------------------------------------------------
(******************************* AT commands *******************************)

\* The structure of a new attempt: it targets the ROM that is not selected.
Fresh_same_slot(c) == Attempt(current_rom, c)                    \* mutant
Fresh_next_slot(c) == Attempt(current_rom + 1, c)                \* mutant
Fresh(c) == Attempt(1 - current_rom, c)

\* An update may start: the program runs and none is marked as in progress.
MayStart == Alive /\ flag # "START"

\* AT OTA: no memory for the status structure.
StartNoRam ==
    /\ MayStart
    /\ upgrade' = "null"
    /\ up' = NoUpgrade
    /\ UNCHANGED <<flag, network, image, roms, fault>>

\* AT OTA: no memory for the connection.  The status structure is freed but
\* the static pointer still points to it.
StartNoConn ==
    /\ MayStart
    /\ upgrade' = "freed"
    /\ up' = NoUpgrade
    /\ UNCHANGED <<flag, network, image, roms, fault>>

\* AT OTA: the name cannot be looked up.  Everything is freed, the flag stays.
StartDnsError ==
    /\ MayStart /\ heap # Conns
    /\ flag' = "START"
    /\ upgrade' = "freed"
    /\ up' = NoUpgrade
    /\ UNCHANGED <<network, image, roms, fault>>

\* AT OTA: the lookup is in progress, upgrade_resolved will be called.
StartLookup(c) ==
    /\ MayStart /\ c \notin heap
    /\ flag' = "START"
    /\ upgrade' = "live"
    /\ up' = Fresh(c)
    /\ heap' = heap \cup {c}
    /\ net' = [net EXCEPT ![c] = "resolving"]
    /\ UNCHANGED <<timer, abandoned, image, roms, fault>>

\* AT OTA: the address is known, upgrade_resolved is called at once.
StartConnect(c) ==
    /\ MayStart /\ c \notin heap
    /\ flag' = "START"
    /\ upgrade' = "live"
    /\ up' = Fresh(c)
    /\ heap' = heap \cup {c}
    /\ net' = [net EXCEPT ![c] = "connecting"]
    /\ timer' = "connect_timeout_cb"
    /\ UNCHANGED <<abandoned, image, roms, fault>>

\* rboot_ota_start, as AT OTA calls it.  When an update is already in progress
\* nothing changes.
config_cmd_ota ==
    \/ StartNoRam \/ StartNoConn \/ StartDnsError
    \/ \E c \in Conns : StartLookup(c) \/ StartConnect(c)

\* AT SWITCH: select the other ROM, whatever it holds, and restart.
config_cmd_switch ==
    /\ Alive
    /\ rboot_set_current_rom(1 - current_rom)
    /\ restarting' = TRUE
    /\ UNCHANGED <<pointers, network, image, running, fault>>

-----------------------------------------------------------------------------
(************************ Network callbacks of the SDK *********************)

\* espconn_connect, which does nothing to a connection that is already made or
\* being made.
espconn_connect(c) == [net EXCEPT ![c] = IF @ = "resolving" THEN "connecting" ELSE @]

\* The espconn of the attempt is freed while the SDK still works on it.
LeftToSdk == IF LateCallbacks THEN abandoned \cup {<<up.conn, net[up.conn]>>} ELSE {}

\* Mutant: the connection attempt is not timed.
upgrade_resolved_untimed(c, found) ==
    /\ found
    /\ net' = espconn_connect(c)
    /\ UNCHANGED <<pointers, timer, heap, abandoned, image, roms, fault>>

\* The DNS answer: without an address the attempt ends, else connect under the
\* timeout.
upgrade_resolved(c, found) ==
    \/ /\ ~found
       /\ upgrade_disconcb(up.conn)
       /\ UNCHANGED <<abandoned, image>>
    \/ /\ found
       /\ net' = espconn_connect(c)
       /\ timer' = "connect_timeout_cb"
       /\ UNCHANGED <<pointers, heap, abandoned, image, roms, fault>>

DnsAnswer(c) ==
    /\ Alive /\ net[c] = "resolving"
    /\ \E found \in BOOLEAN : Follows(upgrade_resolved(c, found))

\* Connected: send the request under the reply timeout, unless there is no
\* memory for it.  `established` is the network state if the request goes out.
upgrade_connect_cb(established) ==
    \/ /\ rboot_ota_deinit(FALSE, flag)
       /\ UNCHANGED <<abandoned, image>>
    \/ /\ timer' = "rboot_ota_deinit"
       /\ net' = established
       /\ UNCHANGED <<pointers, heap, abandoned, image, roms, fault>>

Connected(c) ==
    /\ Alive /\ net[c] = "connecting"
    /\ Follows(upgrade_connect_cb([net EXCEPT ![c] = "open"]))

\* The connection failed or was reset: whichever connection that was, the
\* handler cleans up the one the attempt in progress owns.
upgrade_recon_cb(c) ==
    /\ upgrade_disconcb(up.conn)
    /\ abandoned' = IF up.conn = c THEN abandoned ELSE LeftToSdk
    /\ UNCHANGED image

Reconnect(c) ==
    /\ Alive /\ net[c] \in {"connecting", "open"}
    /\ Follows(upgrade_recon_cb(c))

\* The remote end closed, or a requested disconnect is complete.
Disconnected(c) ==
    /\ Alive /\ net[c] \in {"open", "closing"}
    /\ upgrade_disconcb(c)
    /\ UNCHANGED <<abandoned, image>>

\* What a receive callback can bring: a valid 200 reply with its length and the
\* first body bytes, or something else; later packets are body bytes only.
Packets == [ok: BOOLEAN, content_len: ContentLens, length: ChunkLens]

\* All of the announced bytes have been received.
Complete_or_more(total, len) == total >= len                     \* mutant
Complete(total, len) == total = len

\* A received packet.  While content_len is 0 the packet must be the header of
\* a valid reply.  `reading` says the SDK has left the connection in
\* ESPCONN_READ.
upgrade_recvcb(p, reading) ==
    LET first == up.content_len = 0
        len   == IF first THEN p.content_len ELSE up.content_len
        total == up.total_len + p.length
    IN \/ /\ first /\ ~p.ok
          /\ rboot_ota_deinit(FALSE, flag)
          /\ UNCHANGED image
       \/ /\ first => p.ok
          /\ \E w \in WriteOutcomes(up, p.length) :
                /\ image' = ImageAfter(up, w, len)
                /\ \/ /\ w.ret = "ok" /\ Complete(total, len)
                      /\ rboot_ota_deinit(FALSE, "FINISH")
                   \/ /\ w.ret # "ok" \/ (~Complete(total, len) /\ ~reading)
                      /\ rboot_ota_deinit(FALSE, flag)
                   \/ /\ w.ret = "ok" /\ ~Complete(total, len) /\ reading
                      /\ up' = [up EXCEPT !.total_len = total,
                                          !.content_len = len,
                                          !.written = w.written,
                                          !.extra_count = w.extra_count]
                      /\ timer' = "rboot_ota_deinit"
                      /\ UNCHANGED <<flag, upgrade, heap, net, roms, fault>>

Received(c) ==
    /\ Alive /\ (net[c] = "open" \/ <<c, "open">> \in abandoned)
    /\ \E p \in Packets, reading \in BOOLEAN :
          /\ up.total_len + p.length <= MaxTotal
          /\ Follows(upgrade_recvcb(p, reading) /\ UNCHANGED abandoned)

-----------------------------------------------------------------------------
(********************************* The timer *******************************)

\* Giving up a connection attempt frees the espconn without telling the SDK.
connect_timeout_cb ==
    /\ upgrade_disconcb(up.conn)
    /\ abandoned' = LeftToSdk
    /\ UNCHANGED image

ConnectTimeout ==
    /\ Alive /\ timer = "connect_timeout_cb"
    /\ Follows(connect_timeout_cb)

ReceiveTimeout ==
    /\ Alive /\ timer = "rboot_ota_deinit"
    /\ Follows(rboot_ota_deinit(FALSE, flag) /\ UNCHANGED <<abandoned, image>>)

-----------------------------------------------------------------------------
(************************** The SDK and the boot loader ********************)

\* A callback for a connection the client has given up, which the handlers take
\* for the one of the attempt in progress: a lookup is answered after all, what
\* was timed out still connects or fails, or a connection being closed is reset.
\* (Received has the packets of one that was open; that its disconnect callback
\* frees the espconn again is left out.)
LateAnswer(c) ==
    /\ Alive /\ <<c, "resolving">> \in abandoned
    /\ \E found \in BOOLEAN : Follows(upgrade_resolved(up.conn, found))

LateConnected(c) ==
    /\ Alive /\ <<c, "connecting">> \in abandoned
    /\ Follows(upgrade_connect_cb(net))

LateReconnect(c) ==
    /\ Alive /\ LateCallbacks
    /\ net[c] = "closing" \/ \E doing \in {"connecting", "open"} : <<c, doing>> \in abandoned
    /\ Follows(upgrade_recon_cb(c))

\* The power is cut while the configuration is being saved, which is the last
\* thing done before a restart: the boot loader finds none and writes the default
\* one, which selects ROM 0.
ConfigLost ==
    /\ restarting
    /\ current_rom' = 0
    /\ UNCHANGED <<pointers, network, image, running, restarting, fault>>

\* A restart or a power cut: RAM is lost, the boot loader runs the selected ROM
\* if it is whole and otherwise falls back to one that is.
Reboot ==
    /\ \E s \in Slots :
          /\ image[s] = "whole"
          /\ image[current_rom] = "whole" => s = current_rom
          /\ current_rom' = s
          /\ running' = s
    /\ flag' = "IDLE" /\ upgrade' = "null" /\ up' = NoUpgrade
    /\ timer' = "off" /\ heap' = {} /\ abandoned' = {}
    /\ net' = [c \in Conns |-> "none"]
    /\ restarting' = FALSE /\ fault' = "none"
    /\ UNCHANGED image

-----------------------------------------------------------------------------

Init ==
    /\ flag = "IDLE" /\ upgrade = "null" /\ up = NoUpgrade
    /\ timer = "off" /\ heap = {} /\ abandoned = {}
    /\ net = [c \in Conns |-> "none"]
    /\ image \in [Slots -> {"whole", "partial"}]
    /\ current_rom \in Slots
    /\ running = current_rom
    /\ image[running] = "whole"
    /\ restarting = FALSE /\ fault = "none"

Next ==
    \/ config_cmd_ota \/ config_cmd_switch
    \/ ConnectTimeout \/ ReceiveTimeout
    \/ ConfigLost \/ Reboot
    \/ \E c \in Conns :
          \/ DnsAnswer(c) \/ Connected(c) \/ Reconnect(c)
          \/ Disconnected(c) \/ Received(c)
          \/ LateAnswer(c) \/ LateConnected(c) \/ LateReconnect(c)

Spec == Init /\ [][Next]_vars

\* The timer expires, the SDK answers every lookup and completes every
\* disconnect it was asked for, and a requested restart happens.
Fairness ==
    /\ WF_vars(ConnectTimeout) /\ WF_vars(ReceiveTimeout)
    /\ WF_vars(restarting /\ Reboot)
    /\ \A c \in Conns : /\ WF_vars(DnsAnswer(c))
                        /\ WF_vars(net[c] = "closing" /\ Disconnected(c))

FairSpec == Spec /\ Fairness

-----------------------------------------------------------------------------
(******************************** Properties *******************************)

\* The connections that can call back are known: an espconn the SDK is resolving,
\* connecting or receiving on belongs to the attempt in progress, which is the
\* one the upgrade flag stands for.  (The handlers rely on it: they follow
\* `upgrade`, not the espconn they are given.)
CallbacksOwned ==
    \A c \in Conns : net[c] \in {"resolving", "connecting", "open"} =>
        upgrade = "live" /\ up.conn = c /\ flag = "START"

\* No callback or timer follows a null `upgrade`.
NoNullUse == fault # "null"

\* No espconn is lost: each one allocated belongs to the attempt in progress or
\* is about to be freed by the disconnect callback.
NoLeak == \A c \in heap : net[c] = "closing" \/ (upgrade = "live" /\ up.conn = c)

\* What was received is either programmed or waiting in extra_bytes, words at a
\* time, and an attempt that has received everything is over.
Accounting ==
    /\ up.written + up.extra_count = up.total_len
    /\ up.written % 4 = 0
    /\ up.content_len # 0 => up.total_len # up.content_len

\* The ROM that executes is never overwritten, so there is always one to boot.
RunningImageWhole == image[running] = "whole"

\* An attempt that reports success leaves a whole image in its slot.
CommitWhole ==
    [][flag # "FINISH" /\ flag' = "FINISH" => image'[up.rom_slot] = "whole"]_vars

\* Why the executing ROM stays whole: an attempt targets the other slot, because
\* until a restart is requested the selected ROM is the one that executes.
SlotSafety ==
    /\ RunningImageWhole
    /\ upgrade = "live" => up.rom_slot # running
    /\ ~restarting => current_rom = running

\* Why no callback meets a null pointer and nothing leaks: an attempt in progress
\* owns exactly one espconn the SDK works on, the timer is armed only for it, and
\* every other allocated espconn has a disconnect pending.
Ownership ==
    /\ CallbacksOwned /\ NoLeak /\ NoNullUse
    /\ abandoned = {}
    /\ timer # "off" => upgrade = "live"
    /\ upgrade = "live" =>
          up.conn \in heap /\ net[up.conn] \in {"resolving", "connecting", "open"}
    /\ \A c \in Conns \ heap : net[c] = "none"

\* Announced lengths for which programming in words stores every byte.
WordSized == \A n \in ContentLens : n > 0 /\ n % 4 = 0

\* The client keeps the promise of an A/B update.
Ab == INSTANCE AbUpdate WITH selected <- current_rom,
                             reported <- flag = "FINISH"
RefinesAbUpdate == Ab!Spec

\* As long as no attempt starts while an earlier connection is still being
\* closed, every attempt ends: by success, failure, a timeout or a restart.
EveryAttemptEnds ==
    [](Cardinality(heap) <= 1) => (upgrade = "live" ~> upgrade # "live")

\* However an attempt ends, with it ends the refusal of the next one: the flag says
\* START only during an attempt, or after one whose name could not be looked up, of
\* which the freed structure is left (see StartDnsError).
FlagReleased == flag = "START" => upgrade # "null"

\* What a comment in the code says and the code does not keep.

\* "timeout for the initial connect and each recv": both are always timed.
ConnectAndRecvTimed ==
    upgrade = "live" /\ net[up.conn] \in {"connecting", "open"} => timer # "off"
=============================================================================
