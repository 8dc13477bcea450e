-------------------------- MODULE RbootOta_proofs --------------------------
(***************************************************************************)
(* Proofs about the OTA client for every set of connections, every list of *)
(* announced lengths and every packet size.                                *)
(***************************************************************************)
EXTENDS RbootOta, TLAPS

\* What the flash writer does to its counters (rboot_write_flash): the words it
\* programs are whole, and no byte is lost between the flash and extra_bytes.
LEMMA WordsFacts ==
    ASSUME NEW n \in Nat
    PROVE  /\ Words(n) \in Nat
           /\ Words(n) % 4 = 0
           /\ Rest(n) \in 0..3
           /\ Words(n) + Rest(n) = n
  BY SMT DEF Words, Rest

\* Two lengths in whole words add up to whole words.
LEMMA WordsAdd ==
    ASSUME NEW a \in Nat, NEW b \in Nat, a % 4 = 0, b % 4 = 0
    PROVE  (a + b) % 4 = 0
  <1>1. PICK i \in Nat : a = 4 * i
    BY SMT
  <1>2. PICK j \in Nat : b = 4 * j
    BY SMT
  <1> QED BY <1>1, <1>2, SMT

\* The writer's outcomes as cases: `have` is what it holds with the new bytes.
LEMMA WriteCases ==
    ASSUME NEW u \in Upgrades, NEW len \in Nat, NEW have \in Nat,
           have = u.extra_count + len, NEW w,
           \/ w = [ret |-> "ok", written |-> u.written,
                   extra_count |-> u.extra_count, touched |-> 0] /\ len = 0
           \/ w = [ret |-> "ok", written |-> u.written + Words(have),
                   extra_count |-> Rest(have), touched |-> Words(have)]
           \/ w = [ret |-> "no_ram", written |-> u.written,
                   extra_count |-> u.extra_count, touched |-> 0]
           \/ w = [ret |-> "spi_error", written |-> u.written,
                   extra_count |-> Rest(have), touched |-> Words(have)]
    PROVE  /\ w.touched \in Nat
           /\ w.written \in Nat
           /\ w.extra_count \in 0..3
           /\ w.ret = "ok" => w.written + w.extra_count
                                = u.written + u.extra_count + len
           /\ u.written % 4 = 0 => w.written % 4 = 0
           /\ w.ret = "ok" /\ len > 0 /\ w.extra_count = 0 => w.touched > 0
  <1>1. u.written \in Nat /\ u.extra_count \in 0..3
    BY DEF Upgrades
  <1>2. /\ Words(have) \in Nat
        /\ Rest(have) \in 0..3 /\ Words(have) + Rest(have) = have
    BY WordsFacts
  <1>3. u.written % 4 = 0 => (u.written + Words(have)) % 4 = 0
    BY <1>1, <1>2, WordsAdd, WordsFacts
  <1>4. CASE w = [ret |-> "ok", written |-> u.written,
                  extra_count |-> u.extra_count, touched |-> 0] /\ len = 0
    BY <1>1, <1>4
  <1>5. CASE w = [ret |-> "ok", written |-> u.written + Words(have),
                  extra_count |-> Rest(have), touched |-> Words(have)]
    <2>1. /\ w.ret = "ok" /\ w.written = u.written + Words(have)
          /\ w.extra_count = Rest(have) /\ w.touched = Words(have)
      BY <1>5
    <2>2. u.written % 4 = 0 => w.written % 4 = 0
      BY <1>3, <2>1
    <2>3. /\ w.touched \in Nat /\ w.written \in Nat /\ w.extra_count \in 0..3
          /\ w.written + w.extra_count = u.written + u.extra_count + len
          /\ len > 0 /\ w.extra_count = 0 => w.touched > 0
      BY <1>1, <1>2, <2>1
    <2> QED BY <2>2, <2>3
  <1>6. CASE w = [ret |-> "no_ram", written |-> u.written,
                  extra_count |-> u.extra_count, touched |-> 0]
    BY <1>1, <1>6
  <1>7. CASE w = [ret |-> "spi_error", written |-> u.written,
                  extra_count |-> Rest(have), touched |-> Words(have)]
    BY <1>1, <1>2, <1>7
  <1> QED BY <1>4, <1>5, <1>6, <1>7

\* Every outcome of one call of rboot_write_flash: the counters keep their
\* ranges, a successful call accounts for every byte it was given, and one that
\* leaves no remainder has programmed something.
LEMMA WriteOutcome ==
    ASSUME NEW u \in Upgrades, NEW len \in Nat,
           NEW w \in WriteOutcomes(u, len)
    PROVE  /\ w.touched \in Nat
           /\ w.written \in Nat
           /\ w.extra_count \in 0..3
           /\ w.ret = "ok" => w.written + w.extra_count
                                = u.written + u.extra_count + len
           /\ u.written % 4 = 0 => w.written % 4 = 0
           /\ w.ret = "ok" /\ len > 0 /\ w.extra_count = 0 => w.touched > 0
  <1>1. PICK have \in Nat : have = u.extra_count + len
    BY DEF Upgrades
  <1> QED BY <1>1, WriteCases DEF WriteOutcomes

-----------------------------------------------------------------------------
(***************************** Type correctness ****************************)

\* The part of TypeOK that the shared handlers decide.
HandlerTypes ==
    /\ flag \in {"IDLE", "START", "FINISH"}
    /\ upgrade \in {"null", "live", "freed"}
    /\ up \in Upgrades
    /\ upgrade = "live" => up.conn \in Conns
    /\ timer \in {"off", "connect_timeout_cb", "rboot_ota_deinit"}
    /\ heap \subseteq Conns
    /\ net \in [Conns -> NetStates]
    /\ current_rom \in Slots
    /\ running \in Slots
    /\ restarting \in BOOLEAN
    /\ fault \in {"none", "null", "freed"}

LEMMA NoUpgradeType == NoUpgrade \in Upgrades
  BY DEF NoUpgrade, Attempt, Upgrades, Slots

LEMMA FreshType ==
    ASSUME TypeOK, NEW c \in Conns
    PROVE  /\ Fresh(c) \in Upgrades
           /\ Fresh(c).conn = c
           /\ Fresh(c).rom_slot = 1 - current_rom
           /\ Fresh(c).total_len = 0 /\ Fresh(c).content_len = 0
           /\ Fresh(c).written = 0 /\ Fresh(c).extra_count = 0
  <1>1. 1 - current_rom \in Slots
    BY DEF Slots, TypeOK
  <1>2. Fresh(c) = [rom_slot |-> 1 - current_rom, conn |-> c, total_len |-> 0,
                    content_len |-> 0, written |-> 0, extra_count |-> 0]
    BY DEF Fresh, Attempt
  <1> QED BY <1>1, <1>2 DEF Upgrades

\* rboot_ota_deinit leaves every variable it changes well typed.
LEMMA DeinitType ==
    ASSUME TypeOK, NEW gone \in BOOLEAN, NEW fl \in {"IDLE", "START", "FINISH"},
           rboot_ota_deinit(gone, fl)
    PROVE  HandlerTypes'
  <1>1. up.rom_slot \in Slots
    BY DEF TypeOK, Upgrades
  <1>2. current_rom' \in Slots /\ restarting' \in BOOLEAN
    BY <1>1 DEF rboot_ota_deinit, OtaUpdate_CallBack, rboot_set_current_rom,
                TypeOK
  <1>3. net' \in [Conns -> NetStates]
    BY DEF rboot_ota_deinit, espconn_disconnect, TypeOK, NetStates
  <1> QED
    BY <1>2, <1>3, NoUpgradeType
       DEF rboot_ota_deinit, os_timer_disarm, TypeOK, HandlerTypes

\* So does upgrade_disconcb, whichever connection it is given.
LEMMA DisconcbType ==
    ASSUME TypeOK, NEW c, upgrade_disconcb(c)
    PROVE  HandlerTypes'
  <1>1. CASE rboot_ota_deinit(TRUE, flag)
    BY <1>1, DeinitType DEF TypeOK
  <1>2. CASE ~ (upgrade = "live" /\ up.conn = c)
    <2>1. fault' \in {"none", "freed"}
      BY <1>2 DEF upgrade_disconcb
    <2>2. net' \in [Conns -> NetStates]
      BY <1>2 DEF upgrade_disconcb, TypeOK, NetStates
    <2> QED
      BY <1>2, <2>1, <2>2
         DEF upgrade_disconcb, os_timer_disarm, pointers, roms, TypeOK,
             HandlerTypes
  <1> QED BY <1>1, <1>2 DEF upgrade_disconcb

\* Following a pointer that is not live only records the fault.
LEMMA FollowsType ==
    ASSUME TypeOK, upgrade # "live", fault' = upgrade,
           UNCHANGED <<pointers, network, image, roms>>
    PROVE  TypeOK'
  BY DEF TypeOK, pointers, network, roms

LEMMA ImageType ==
    ASSUME TypeOK, NEW w, NEW len, image' = ImageAfter(up, w, len)
    PROVE  image' \in [Slots -> {"whole", "partial"}]
  BY DEF ImageAfter, TypeOK

\* A packet is a valid or invalid reply and a number of body bytes.
LEMMA PacketType ==
    ASSUME NEW p \in Packets
    PROVE  p.content_len \in Nat /\ p.length \in Nat /\ p.content_len \in ContentLens
  BY LengthsAssumption DEF Packets

\* One received packet: the invariant of types survives every outcome of
\* upgrade_recvcb.
LEMMA RecvType ==
    ASSUME TypeOK, NEW p \in Packets, NEW reading \in BOOLEAN,
           upgrade_recvcb(p, reading), UNCHANGED abandoned
    PROVE  TypeOK'
  <1> DEFINE len   == IF up.content_len = 0 THEN p.content_len ELSE up.content_len
             total == up.total_len + p.length
  <1>1. up \in Upgrades /\ len \in Nat /\ total \in Nat /\ p.length \in Nat
    BY PacketType DEF TypeOK, Upgrades
  <1>2. abandoned' \subseteq Conns \X NetStates
    BY DEF TypeOK
  <1>3. CASE rboot_ota_deinit(FALSE, flag) /\ UNCHANGED image
    BY <1>2, <1>3, DeinitType DEF TypeOK, HandlerTypes
  <1>4. CASE \E w \in WriteOutcomes(up, p.length) :
                /\ image' = ImageAfter(up, w, len)
                /\ \/ rboot_ota_deinit(FALSE, "FINISH")
                   \/ rboot_ota_deinit(FALSE, flag)
                   \/ /\ up' = [up EXCEPT !.total_len = total,
                                          !.content_len = len,
                                          !.written = w.written,
                                          !.extra_count = w.extra_count]
                      /\ timer' = "rboot_ota_deinit"
                      /\ UNCHANGED <<flag, upgrade, heap, net, roms, fault>>
    <2>1. PICK w \in WriteOutcomes(up, p.length) :
                /\ image' = ImageAfter(up, w, len)
                /\ \/ rboot_ota_deinit(FALSE, "FINISH")
                   \/ rboot_ota_deinit(FALSE, flag)
                   \/ /\ up' = [up EXCEPT !.total_len = total,
                                          !.content_len = len,
                                          !.written = w.written,
                                          !.extra_count = w.extra_count]
                      /\ timer' = "rboot_ota_deinit"
                      /\ UNCHANGED <<flag, upgrade, heap, net, roms, fault>>
      BY <1>4
    <2>2. image' \in [Slots -> {"whole", "partial"}]
      BY <2>1, ImageType
    <2>3. w.written \in Nat /\ w.extra_count \in 0..3
      BY <1>1, WriteOutcome
    <2>4. CASE rboot_ota_deinit(FALSE, "FINISH") \/ rboot_ota_deinit(FALSE, flag)
      BY <1>2, <2>2, <2>4, DeinitType DEF TypeOK, HandlerTypes
    <2>5. CASE /\ up' = [up EXCEPT !.total_len = total, !.content_len = len,
                                   !.written = w.written,
                                   !.extra_count = w.extra_count]
               /\ timer' = "rboot_ota_deinit"
               /\ UNCHANGED <<flag, upgrade, heap, net, roms, fault>>
      <3>1. up' \in Upgrades
        <4> HIDE DEF len, total
        <4> QED BY <1>1, <2>3, <2>5 DEF Upgrades
      <3>2. up'.conn = up.conn
        BY <1>1, <2>5 DEF Upgrades
      <3> QED BY <1>2, <2>2, <2>5, <3>1, <3>2 DEF roms, TypeOK
    <2> QED BY <2>1, <2>4, <2>5
  <1> QED BY <1>3, <1>4 DEF upgrade_recvcb

\* Every step of the client, the SDK and the boot loader preserves the types.
LEMMA TypeStep == TypeOK /\ [Next]_vars => TypeOK'
  <1> SUFFICES ASSUME TypeOK, [Next]_vars PROVE TypeOK'
    OBVIOUS
  <1>1. ASSUME upgrade # "live", fault' = upgrade,
               UNCHANGED <<pointers, network, image, roms>>
        PROVE  TypeOK'
    BY <1>1, FollowsType
  <1>2. ASSUME HandlerTypes', abandoned' \subseteq Conns \X NetStates,
               image' \in [Slots -> {"whole", "partial"}]
        PROVE  TypeOK'
    BY <1>2 DEF TypeOK, HandlerTypes
  <1>3. abandoned \subseteq Conns \X NetStates /\ image \in [Slots -> {"whole", "partial"}]
        /\ flag \in {"IDLE", "START", "FINISH"}
    BY DEF TypeOK
  <1>23. upgrade = "live" => LeftToSdk \subseteq Conns \X NetStates
    BY <1>3 DEF LeftToSdk, TypeOK
  <1>4. CASE StartNoRam
    BY <1>4, NoUpgradeType DEF StartNoRam, network, roms, TypeOK
  <1>5. CASE StartNoConn
    BY <1>5, NoUpgradeType DEF StartNoConn, network, roms, TypeOK
  <1>6. CASE StartDnsError
    BY <1>6, NoUpgradeType DEF StartDnsError, network, roms, TypeOK
  <1>7. CASE config_cmd_switch
    <2>1. current_rom' \in Slots
      BY <1>7 DEF config_cmd_switch, rboot_set_current_rom, Slots, TypeOK
    <2> QED
      BY <1>7, <2>1 DEF config_cmd_switch, pointers, network, TypeOK
  <1>22. CASE ConfigLost
    BY <1>22 DEF ConfigLost, pointers, network, Slots, TypeOK
  <1>8. CASE ConnectTimeout
    <2>1. CASE upgrade = "live" /\ connect_timeout_cb
      <3>1. abandoned' \subseteq Conns \X NetStates
        BY <1>23, <2>1 DEF connect_timeout_cb
      <3> QED BY <1>2, <1>3, <2>1, <3>1, DisconcbType DEF connect_timeout_cb
    <2> QED BY <1>1, <1>8, <2>1 DEF ConnectTimeout, Follows
  <1>9. CASE ReceiveTimeout
    BY <1>1, <1>2, <1>3, <1>9, DeinitType DEF ReceiveTimeout, Follows
  <1>10. CASE Reboot
    <2>1. /\ current_rom' \in Slots /\ running' \in Slots
          /\ net' \in [Conns -> NetStates]
      BY <1>10 DEF Reboot, NetStates
    <2> QED BY <1>10, <2>1, NoUpgradeType DEF Reboot, TypeOK
  <1>11. ASSUME NEW c \in Conns, StartLookup(c) PROVE TypeOK'
    BY <1>11, FreshType DEF StartLookup, roms, TypeOK, NetStates
  <1>12. ASSUME NEW c \in Conns, StartConnect(c) PROVE TypeOK'
    BY <1>12, FreshType DEF StartConnect, roms, TypeOK, NetStates
  <1>13. ASSUME NEW c \in Conns, DnsAnswer(c) \/ LateAnswer(c) PROVE TypeOK'
    <2>1. PICK found \in BOOLEAN, d \in {c, up.conn} : Follows(upgrade_resolved(d, found))
      BY <1>13 DEF DnsAnswer, LateAnswer
    <2>2. CASE upgrade_disconcb(up.conn) /\ UNCHANGED <<abandoned, image>>
      BY <1>2, <1>3, <2>2, DisconcbType
    <2>3. CASE /\ net' = espconn_connect(d)
               /\ timer' = "connect_timeout_cb"
               /\ UNCHANGED <<pointers, heap, abandoned, image, roms, fault>>
      <3>1. net' \in [Conns -> NetStates]
        BY <2>3 DEF espconn_connect, NetStates, TypeOK
      <3> QED BY <2>3, <3>1 DEF pointers, roms, TypeOK
    <2> QED BY <1>1, <2>1, <2>2, <2>3 DEF Follows, upgrade_resolved
  <1>14. ASSUME NEW c \in Conns, NEW established, upgrade_connect_cb(established),
                established \in [Conns -> NetStates]
         PROVE  TypeOK'
    <2>1. CASE rboot_ota_deinit(FALSE, flag) /\ UNCHANGED <<abandoned, image>>
      BY <1>2, <1>3, <2>1, DeinitType
    <2>2. CASE /\ timer' = "rboot_ota_deinit" /\ net' = established
               /\ UNCHANGED <<pointers, heap, abandoned, image, roms, fault>>
      BY <1>14, <2>2 DEF pointers, roms, TypeOK
    <2> QED BY <1>14, <2>1, <2>2 DEF upgrade_connect_cb
  <1>15. ASSUME NEW c \in Conns, Connected(c) PROVE TypeOK'
    <2>1. [net EXCEPT ![c] = "open"]
            \in [Conns -> NetStates]
      BY DEF TypeOK, NetStates
    <2> QED BY <1>1, <1>14, <1>15, <2>1 DEF Connected, Follows
  <1>16. ASSUME NEW c, upgrade = "live", upgrade_recon_cb(c) PROVE TypeOK'
    <2>1. abandoned' \subseteq Conns \X NetStates
      BY <1>3, <1>16, <1>23 DEF upgrade_recon_cb
    <2> QED BY <1>2, <1>3, <1>16, <2>1, DisconcbType DEF upgrade_recon_cb
  <1>17. ASSUME NEW c \in Conns, Reconnect(c) \/ LateReconnect(c) PROVE TypeOK'
    BY <1>1, <1>16, <1>17 DEF Reconnect, LateReconnect, Follows
  <1>18. ASSUME NEW c \in Conns, Disconnected(c) PROVE TypeOK'
    BY <1>2, <1>3, <1>18, DisconcbType DEF Disconnected
  <1>19. ASSUME NEW c \in Conns, Received(c) PROVE TypeOK'
    BY <1>1, <1>19, RecvType DEF Received, Follows
  <1>20. ASSUME NEW c \in Conns, LateConnected(c) PROVE TypeOK'
    BY <1>1, <1>14, <1>20 DEF LateConnected, Follows, TypeOK
  <1>21. CASE UNCHANGED vars
    BY <1>21 DEF vars, pointers, network, roms, TypeOK
  <1> QED
    BY <1>4, <1>5, <1>6, <1>7, <1>8, <1>9, <1>10, <1>11, <1>12, <1>13, <1>15,
       <1>17, <1>18, <1>19, <1>20, <1>21, <1>22 DEF Next, config_cmd_ota

\* Every variable keeps its type: in particular no update targets anything but
\* one of the two slots, and extra_bytes never overflows its four bytes.
THEOREM TypeCorrect == Spec => []TypeOK
  <1>1. Init => TypeOK
    BY NoUpgradeType DEF Init, TypeOK, Slots, NetStates
  <1> QED BY <1>1, TypeStep, PTL DEF Spec

-----------------------------------------------------------------------------
(************************ The executing ROM is whole ***********************)

\* The outcomes of one received packet: the attempt fails before anything is
\* written, or the writer is called once and the attempt succeeds, fails or
\* goes on.
GoesOn(w, p) ==
    /\ up' = [up EXCEPT
                !.total_len = up.total_len + p.length,
                !.content_len = IF up.content_len = 0 THEN p.content_len
                                ELSE up.content_len,
                !.written = w.written, !.extra_count = w.extra_count]
    /\ timer' = "rboot_ota_deinit"
    /\ UNCHANGED <<flag, upgrade, heap, net, roms, fault>>

AnnouncedBy(p) ==
    IF up.content_len = 0 THEN p.content_len ELSE up.content_len

LEMMA RecvCases ==
    ASSUME NEW p \in Packets, NEW reading \in BOOLEAN, upgrade_recvcb(p, reading)
    PROVE  \/ rboot_ota_deinit(FALSE, flag) /\ UNCHANGED image
           \/ \E w \in WriteOutcomes(up, p.length) :
                /\ image' = ImageAfter(up, w, AnnouncedBy(p))
                /\ \/ /\ w.ret = "ok" /\ up.total_len + p.length = AnnouncedBy(p)
                      /\ rboot_ota_deinit(FALSE, "FINISH")
                   \/ rboot_ota_deinit(FALSE, flag)
                   \/ /\ w.ret = "ok" /\ up.total_len + p.length # AnnouncedBy(p)
                      /\ GoesOn(w, p)
  BY DEF upgrade_recvcb, AnnouncedBy, GoesOn, Complete

\* Ending an attempt keeps the slots safe if the image written last did.
LEMMA DeinitSlots ==
    ASSUME TypeOK, SlotSafety, NEW gone \in BOOLEAN, NEW fl,
           rboot_ota_deinit(gone, fl), image'[running] = "whole"
    PROVE  SlotSafety'
  BY DEF SlotSafety, RunningImageWhole, rboot_ota_deinit, OtaUpdate_CallBack,
         rboot_set_current_rom, TypeOK

LEMMA DisconcbSlots ==
    ASSUME TypeOK, SlotSafety, NEW c, upgrade_disconcb(c), UNCHANGED image
    PROVE  SlotSafety'
  <1>1. image'[running] = "whole"
    BY DEF SlotSafety, RunningImageWhole
  <1>2. CASE rboot_ota_deinit(TRUE, flag)
    BY <1>1, <1>2, DeinitSlots
  <1>3. CASE UNCHANGED <<pointers, roms>>
    BY <1>3 DEF SlotSafety, RunningImageWhole, pointers, roms
  <1> QED BY <1>2, <1>3 DEF upgrade_disconcb

\* The writer only touches the slot of the attempt, which is not executing.
LEMMA ImageElsewhere ==
    ASSUME TypeOK, SlotSafety, upgrade = "live", NEW w, NEW len,
           image' = ImageAfter(up, w, len)
    PROVE  image'[running] = "whole"
  BY DEF SlotSafety, RunningImageWhole, ImageAfter, TypeOK, Upgrades

\* An attempt started while the program runs targets the other slot.
LEMMA FreshElsewhere ==
    ASSUME TypeOK, SlotSafety, ~restarting, NEW c \in Conns
    PROVE  Fresh(c).rom_slot # running
  BY FreshType DEF SlotSafety, TypeOK, Slots

\* A step that leaves the slots' variables alone, or only forgets the attempt.
LEMMA SlotsKept ==
    ASSUME SlotSafety, UNCHANGED <<image, roms>>,
           upgrade' # "live" \/ UNCHANGED <<upgrade, up>>
    PROVE  SlotSafety'
  BY DEF SlotSafety, RunningImageWhole, roms

LEMMA SlotStep == TypeOK /\ SlotSafety /\ [Next]_vars => SlotSafety'
  <1> SUFFICES ASSUME TypeOK, SlotSafety, [Next]_vars PROVE SlotSafety'
    OBVIOUS
  <1>1. ASSUME upgrade # "live", fault' = upgrade,
               UNCHANGED <<pointers, network, image, roms>>
        PROVE  SlotSafety'
    BY <1>1, SlotsKept DEF pointers
  <1>2. ASSUME NEW fl, rboot_ota_deinit(FALSE, fl), UNCHANGED image
        PROVE  SlotSafety'
    BY <1>2, DeinitSlots DEF SlotSafety, RunningImageWhole
  <1>3. CASE StartNoRam \/ StartNoConn \/ StartDnsError
    BY <1>3, SlotsKept DEF StartNoRam, StartNoConn, StartDnsError
  <1>4. CASE config_cmd_switch \/ ConfigLost
    BY <1>4 DEF config_cmd_switch, ConfigLost, pointers, SlotSafety,
                RunningImageWhole
  <1>5. CASE ConnectTimeout
    BY <1>1, <1>5, DisconcbSlots DEF ConnectTimeout, Follows, connect_timeout_cb
  <1>6. CASE ReceiveTimeout
    BY <1>1, <1>2, <1>6 DEF ReceiveTimeout, Follows
  <1>7. CASE Reboot
    BY <1>7 DEF Reboot, SlotSafety, RunningImageWhole
  <1>8. ASSUME NEW c \in Conns, StartLookup(c) \/ StartConnect(c)
        PROVE  SlotSafety'
    <2>1. ~restarting /\ up' = Fresh(c) /\ UNCHANGED <<image, roms>>
      BY <1>8 DEF StartLookup, StartConnect, MayStart, Alive
    <2>2. up'.rom_slot # running
      BY <2>1, FreshElsewhere
    <2> QED BY <2>1, <2>2 DEF SlotSafety, RunningImageWhole, roms
  <1>9. ASSUME NEW c \in Conns, DnsAnswer(c) \/ LateAnswer(c) PROVE SlotSafety'
    <2>1. PICK found \in BOOLEAN, d \in {c, up.conn} : Follows(upgrade_resolved(d, found))
      BY <1>9 DEF DnsAnswer, LateAnswer
    <2>2. CASE upgrade_disconcb(up.conn) /\ UNCHANGED <<abandoned, image>>
      BY <2>2, DisconcbSlots
    <2>3. CASE UNCHANGED <<pointers, image, roms>>
      BY <2>3, SlotsKept DEF pointers
    <2> QED BY <1>1, <2>1, <2>2, <2>3 DEF Follows, upgrade_resolved
  <1>10. ASSUME NEW established, upgrade_connect_cb(established)
         PROVE  SlotSafety'
    BY <1>2, <1>10, SlotsKept DEF upgrade_connect_cb, pointers
  <1>11. ASSUME NEW c \in Conns, Connected(c) \/ LateConnected(c)
         PROVE  SlotSafety'
    BY <1>1, <1>10, <1>11 DEF Connected, LateConnected, Follows
  <1>12. ASSUME NEW c \in Conns, Reconnect(c) \/ LateReconnect(c)
         PROVE  SlotSafety'
    BY <1>1, <1>12, DisconcbSlots
       DEF Reconnect, LateReconnect, Follows, upgrade_recon_cb
  <1>13. ASSUME NEW c \in Conns, Disconnected(c) PROVE SlotSafety'
    BY <1>13, DisconcbSlots DEF Disconnected
  <1>14. ASSUME NEW c \in Conns, Received(c) PROVE SlotSafety'
    <2>1. PICK p \in Packets, reading \in BOOLEAN :
             Follows(upgrade_recvcb(p, reading) /\ UNCHANGED abandoned)
      BY <1>14 DEF Received
    <2>2. CASE upgrade = "live" /\ upgrade_recvcb(p, reading)
      <3>1. CASE rboot_ota_deinit(FALSE, flag) /\ UNCHANGED image
        BY <1>2, <3>1
      <3>2. ASSUME NEW w, image' = ImageAfter(up, w, AnnouncedBy(p)),
                   NEW fl, rboot_ota_deinit(FALSE, fl)
            PROVE  SlotSafety'
        BY <2>2, <3>2, ImageElsewhere, DeinitSlots
      <3>3. ASSUME NEW w, image' = ImageAfter(up, w, AnnouncedBy(p)), GoesOn(w, p)
            PROVE  SlotSafety'
        <4>1. image'[running] = "whole"
          BY <2>2, <3>3, ImageElsewhere
        <4>2. up'.rom_slot = up.rom_slot /\ UNCHANGED <<upgrade, roms>>
          BY <3>3 DEF GoesOn, TypeOK, Upgrades
        <4> QED BY <4>1, <4>2 DEF SlotSafety, RunningImageWhole, roms
      <3> QED BY <2>2, <3>1, <3>2, <3>3, RecvCases
    <2> QED BY <1>1, <2>1, <2>2 DEF Follows
  <1>15. CASE UNCHANGED vars
    BY <1>15, SlotsKept DEF vars, pointers
  <1> QED
    BY <1>3, <1>4, <1>5, <1>6, <1>7, <1>8, <1>9, <1>11, <1>12, <1>13, <1>14,
       <1>15 DEF Next, config_cmd_ota

\* The slot invariant holds whatever the server sends, whenever a callback comes
\* late and however the power fails.
THEOREM SlotsSafe == Spec => []SlotSafety
  <1>1. Init => SlotSafety
    BY DEF Init, SlotSafety, RunningImageWhole
  <1>2. TypeOK /\ SlotSafety /\ [Next]_vars => SlotSafety'
    BY SlotStep
  <1> QED BY <1>1, <1>2, TypeCorrect, PTL DEF Spec

\* In particular there is always a whole image to execute (rboot-ota.c picks the
\* slot that is not selected).
THEOREM RunningImageIsWhole == Spec => []RunningImageWhole
  <1>1. SlotSafety => RunningImageWhole
    BY DEF SlotSafety
  <1> QED BY <1>1, SlotsSafe, PTL

-----------------------------------------------------------------------------
(************************** Every byte is accounted for ********************)

\* A packet was written and the attempt goes on.
Wrote ==
    \E p \in Packets : \E w \in WriteOutcomes(up, p.length) :
        /\ w.ret = "ok" /\ up.total_len + p.length # AnnouncedBy(p)
        /\ GoesOn(w, p)

\* A packet completed the announced length and the attempt succeeded.
Finished ==
    /\ upgrade = "live"
    /\ \E p \in Packets : \E w \in WriteOutcomes(up, p.length) :
        /\ w.ret = "ok" /\ up.total_len + p.length = AnnouncedBy(p)
        /\ image' = ImageAfter(up, w, AnnouncedBy(p))
        /\ rboot_ota_deinit(FALSE, "FINISH")

\* All that a step can do to the attempt's structure and to the flag: leave the
\* structure, forget it, start a new one, write a packet, or succeed.
AttemptChanges ==
    \/ UNCHANGED up /\ flag' # "FINISH"
    \/ UNCHANGED <<up, flag>>
    \/ up' = NoUpgrade /\ (flag' = flag \/ flag' # "FINISH")
    \/ \E c \in Conns : up' = Fresh(c) /\ flag' # "FINISH"
    \/ Wrote /\ UNCHANGED flag
    \/ Finished

LEMMA DisconcbChanges ==
    ASSUME NEW c, upgrade_disconcb(c) PROVE AttemptChanges
  BY DEF upgrade_disconcb, rboot_ota_deinit, pointers, AttemptChanges

LEMMA StepChanges == TypeOK /\ [Next]_vars => AttemptChanges
  <1> SUFFICES ASSUME TypeOK, [Next]_vars PROVE AttemptChanges
    OBVIOUS
  <1>1. ASSUME UNCHANGED pointers PROVE AttemptChanges
    BY <1>1 DEF pointers, AttemptChanges
  <1>2. ASSUME rboot_ota_deinit(FALSE, flag) PROVE AttemptChanges
    BY <1>2 DEF rboot_ota_deinit, AttemptChanges
  <1>3. CASE StartNoRam \/ StartNoConn \/ StartDnsError \/ Reboot
    BY <1>3 DEF StartNoRam, StartNoConn, StartDnsError, Reboot, AttemptChanges
  <1>4. CASE config_cmd_switch \/ ConfigLost
    BY <1>1, <1>4 DEF config_cmd_switch, ConfigLost
  <1>5. CASE ConnectTimeout
    BY <1>1, <1>5, DisconcbChanges DEF ConnectTimeout, Follows, connect_timeout_cb
  <1>6. CASE ReceiveTimeout
    BY <1>1, <1>2, <1>6 DEF ReceiveTimeout, Follows
  <1>7. ASSUME NEW c \in Conns, StartLookup(c) \/ StartConnect(c)
        PROVE  AttemptChanges
    BY <1>7 DEF StartLookup, StartConnect, AttemptChanges
  <1>8. ASSUME NEW c \in Conns, DnsAnswer(c) \/ LateAnswer(c) PROVE AttemptChanges
    BY <1>1, <1>8, DisconcbChanges DEF DnsAnswer, LateAnswer, Follows, upgrade_resolved
  <1>9. ASSUME NEW c \in Conns, Connected(c) \/ LateConnected(c)
        PROVE  AttemptChanges
    BY <1>1, <1>2, <1>9 DEF Connected, LateConnected, Follows, upgrade_connect_cb
  <1>10. ASSUME NEW c \in Conns, Reconnect(c) \/ LateReconnect(c)
         PROVE  AttemptChanges
    BY <1>1, <1>10, DisconcbChanges
       DEF Reconnect, LateReconnect, Follows, upgrade_recon_cb
  <1>11. ASSUME NEW c \in Conns, Disconnected(c) PROVE AttemptChanges
    BY <1>11, DisconcbChanges DEF Disconnected
  <1>12. ASSUME NEW c \in Conns, Received(c) PROVE AttemptChanges
    <2>1. PICK p \in Packets, reading \in BOOLEAN :
             Follows(upgrade_recvcb(p, reading) /\ UNCHANGED abandoned)
      BY <1>12 DEF Received
    <2>2. CASE upgrade = "live" /\ upgrade_recvcb(p, reading)
      <3>1. CASE rboot_ota_deinit(FALSE, flag)
        BY <1>2, <3>1
      <3>2. CASE Wrote /\ UNCHANGED flag
        BY <3>2 DEF AttemptChanges
      <3>3. CASE Finished
        BY <3>3 DEF AttemptChanges
      <3>4. rboot_ota_deinit(FALSE, flag) \/ (Wrote /\ UNCHANGED flag) \/ Finished
        BY <2>2, RecvCases DEF Wrote, Finished, GoesOn
      <3> QED BY <3>1, <3>2, <3>3, <3>4
    <2> QED BY <1>1, <2>1, <2>2 DEF Follows
  <1>13. CASE UNCHANGED vars
    BY <1>1, <1>13 DEF vars
  <1> QED
    BY <1>3, <1>4, <1>5, <1>6, <1>7, <1>8, <1>9, <1>10, <1>11, <1>12, <1>13
       DEF Next, config_cmd_ota

\* A structure that has received nothing.
LEMMA AccountingEmpty ==
    ASSUME up'.total_len = 0, up'.content_len = 0, up'.written = 0,
           up'.extra_count = 0
    PROVE  Accounting'
  BY SMT DEF Accounting

LEMMA AccountingStep == TypeOK /\ Accounting /\ [Next]_vars => Accounting'
  <1> SUFFICES ASSUME TypeOK, Accounting, AttemptChanges PROVE Accounting'
    BY StepChanges
  <1>1. CASE UNCHANGED up
    BY <1>1 DEF Accounting
  <1>2. CASE up' = NoUpgrade
    BY <1>2, AccountingEmpty DEF NoUpgrade, Attempt
  <1>3. ASSUME NEW c \in Conns, up' = Fresh(c) PROVE Accounting'
    BY <1>3, AccountingEmpty, FreshType
  <1>4. CASE Finished
    BY <1>4, AccountingEmpty DEF Finished, rboot_ota_deinit, NoUpgrade, Attempt
  <1>5. CASE Wrote
    <2>0. PICK p \in Packets : \E w \in WriteOutcomes(up, p.length) :
            /\ w.ret = "ok" /\ up.total_len + p.length # AnnouncedBy(p)
            /\ GoesOn(w, p)
      BY <1>5 DEF Wrote
    <2>1. PICK w \in WriteOutcomes(up, p.length) :
            /\ w.ret = "ok" /\ up.total_len + p.length # AnnouncedBy(p)
            /\ GoesOn(w, p)
      BY <2>0
    <2>2. up \in Upgrades /\ p.length \in Nat
      BY PacketType DEF TypeOK
    <2>3. /\ w.written \in Nat /\ w.extra_count \in 0..3
          /\ w.written + w.extra_count = up.written + up.extra_count + p.length
          /\ w.written % 4 = 0
      BY <2>1, <2>2, WriteOutcome DEF Accounting
    <2>4. /\ up'.total_len = up.total_len + p.length
          /\ up'.content_len = AnnouncedBy(p)
          /\ up'.written = w.written /\ up'.extra_count = w.extra_count
      BY <2>1, <2>2 DEF GoesOn, AnnouncedBy, Upgrades
    <2>5. up'.written + up'.extra_count = up'.total_len
      BY <2>2, <2>3, <2>4 DEF Accounting, Upgrades
    <2> QED BY <2>1, <2>3, <2>4, <2>5 DEF Accounting
  <1> QED BY <1>1, <1>2, <1>3, <1>4, <1>5 DEF AttemptChanges

\* Every received byte is programmed or waits in extra_bytes, and an attempt that
\* has received everything is over, for every packet size and announced length.
THEOREM BytesAccounted == Spec => []Accounting
  <1>1. Init => Accounting
    BY SMT DEF Init, Accounting, NoUpgrade, Attempt
  <1> QED BY <1>1, AccountingStep, TypeCorrect, PTL DEF Spec

-----------------------------------------------------------------------------
(***************** Success means a whole image in the slot *****************)

\* Until the header has been accepted nothing has been received.  (This needs
\* every announced length to be positive: after "Content-Length: 0" the client
\* takes the next packet for a header again.)
HeaderFirst == up.content_len = 0 => up.total_len = 0

\* The length the attempt waits for is one a server announced.
Announced == up.content_len # 0 => up.content_len \in ContentLens

CommitInv == Accounting /\ HeaderFirst /\ Announced

LEMMA CommitInvStep ==
    ASSUME WordSized
    PROVE  TypeOK /\ CommitInv /\ [Next]_vars => CommitInv'
  <1> SUFFICES ASSUME TypeOK, CommitInv, [Next]_vars PROVE CommitInv'
    OBVIOUS
  <1>1. Accounting' /\ AttemptChanges
    BY AccountingStep, StepChanges DEF CommitInv
  <1>2. CASE UNCHANGED up
    BY <1>1, <1>2 DEF CommitInv, HeaderFirst, Announced
  <1>3. CASE up' = NoUpgrade
    BY <1>1, <1>3 DEF CommitInv, HeaderFirst, Announced, NoUpgrade, Attempt
  <1>4. ASSUME NEW c \in Conns, up' = Fresh(c) PROVE CommitInv'
    BY <1>1, <1>4, FreshType DEF CommitInv, HeaderFirst, Announced
  <1>5. CASE Finished
    BY <1>1, <1>5 DEF Finished, rboot_ota_deinit, CommitInv, HeaderFirst,
                      Announced, NoUpgrade, Attempt
  <1>6. CASE Wrote
    <2>1. PICK p \in Packets : \E w \in WriteOutcomes(up, p.length) : GoesOn(w, p)
      BY <1>6 DEF Wrote
    <2>2. up'.content_len = AnnouncedBy(p)
      BY <2>1 DEF GoesOn, AnnouncedBy, TypeOK, Upgrades
    <2>3. AnnouncedBy(p) \in ContentLens
      BY PacketType DEF AnnouncedBy, CommitInv, Announced
    <2>4. AnnouncedBy(p) # 0
      BY <2>3, LengthsAssumption DEF WordSized
    <2> QED BY <1>1, <2>2, <2>3, <2>4 DEF CommitInv, HeaderFirst, Announced
  <1> QED BY <1>1, <1>2, <1>3, <1>4, <1>5, <1>6 DEF AttemptChanges

\* A multiple of four less whole words leaves no remainder.
LEMMA NoRemainder ==
    ASSUME NEW w \in Nat, NEW e \in 0..3, w % 4 = 0, (w + e) % 4 = 0
    PROVE  e = 0
  BY SMT

\* The packet that completes an attempt completes the image.
LEMMA FinishedWhole ==
    ASSUME WordSized, TypeOK, CommitInv, Finished
    PROVE  image' = [image EXCEPT ![up.rom_slot] = "whole"]
  <1>0. PICK p \in Packets : \E w \in WriteOutcomes(up, p.length) :
          /\ w.ret = "ok" /\ up.total_len + p.length = AnnouncedBy(p)
          /\ image' = ImageAfter(up, w, AnnouncedBy(p))
    BY DEF Finished
  <1>1. PICK w \in WriteOutcomes(up, p.length) :
          /\ w.ret = "ok" /\ up.total_len + p.length = AnnouncedBy(p)
          /\ image' = ImageAfter(up, w, AnnouncedBy(p))
    BY <1>0
  <1>2. up \in Upgrades /\ p.length \in Nat /\ up.total_len \in Nat
    BY PacketType DEF TypeOK, Upgrades
  <1>3. AnnouncedBy(p) \in ContentLens
    BY PacketType DEF AnnouncedBy, CommitInv, Announced
  <1>4. /\ AnnouncedBy(p) \in Nat /\ AnnouncedBy(p) > 0
        /\ AnnouncedBy(p) % 4 = 0
    BY <1>3, LengthsAssumption DEF WordSized
  <1>5. up.total_len # AnnouncedBy(p)
    BY <1>4 DEF AnnouncedBy, CommitInv, HeaderFirst, Accounting
  <1>6. p.length > 0
    BY <1>1, <1>2, <1>5
  <1>7. /\ w.written \in Nat /\ w.extra_count \in 0..3
        /\ w.written + w.extra_count = up.written + up.extra_count + p.length
        /\ w.extra_count = 0 => w.touched > 0
        /\ w.touched \in Nat
    BY <1>1, <1>2, <1>6, WriteOutcome
  <1>8. w.written + w.extra_count = AnnouncedBy(p)
    BY <1>1, <1>2, <1>7 DEF CommitInv, Accounting
  <1>9. w.extra_count = 0
    <2>1. w.written % 4 = 0
      BY <1>1, <1>2, WriteOutcome DEF CommitInv, Accounting
    <2> QED BY <1>4, <1>7, <1>8, <2>1, NoRemainder
  <1>10. w.written = AnnouncedBy(p) /\ w.touched # 0
    BY <1>7, <1>8, <1>9
  <1> QED BY <1>1, <1>10 DEF ImageAfter

\* Only a completed attempt sets the flag to FINISH.
LEMMA FinishStep ==
    TypeOK /\ [Next]_vars /\ flag # "FINISH" /\ flag' = "FINISH" => Finished
  BY StepChanges DEF AttemptChanges

LEMMA CommitInvariant == ASSUME WordSized PROVE Spec => []CommitInv
  <1>1. Init => CommitInv
    BY SMT DEF Init, CommitInv, Accounting, HeaderFirst, Announced, NoUpgrade,
               Attempt
  <1>2. TypeOK /\ CommitInv /\ [Next]_vars => CommitInv'
    BY CommitInvStep
  <1> QED BY <1>1, <1>2, TypeCorrect, PTL DEF Spec

\* When every announced length is a positive number of words, an attempt that
\* reports success has left exactly the announced bytes in its slot, however the
\* server cut them into packets.
THEOREM CommittedWhole == ASSUME WordSized PROVE Spec => CommitWhole
  <1>1. TypeOK /\ CommitInv /\ [Next]_vars
          => (flag # "FINISH" /\ flag' = "FINISH" => image'[up.rom_slot] = "whole")
    <2> SUFFICES ASSUME TypeOK, CommitInv, [Next]_vars, flag # "FINISH",
                        flag' = "FINISH"
                 PROVE  image'[up.rom_slot] = "whole"
      OBVIOUS
    <2>1. image' = [image EXCEPT ![up.rom_slot] = "whole"]
      BY FinishStep, FinishedWhole
    <2> QED BY <2>1 DEF TypeOK, Upgrades
  <1> QED BY <1>1, TypeCorrect, CommitInvariant, PTL DEF Spec, CommitWhole

-----------------------------------------------------------------------------
(*********************** The client is an A/B update ***********************)

\* After a success the program only waits for its restart.
FinishRestarts == flag = "FINISH" => restarting

\* A failed end of an attempt changes neither the slots nor the selection.
LEMMA DeinitQuiet ==
    ASSUME NEW gone \in BOOLEAN, flag # "FINISH", rboot_ota_deinit(gone, flag)
    PROVE  UNCHANGED roms /\ flag' # "FINISH"
  BY DEF rboot_ota_deinit, OtaUpdate_CallBack, roms

LEMMA DisconcbQuiet ==
    ASSUME NEW c, flag # "FINISH", upgrade_disconcb(c)
    PROVE  UNCHANGED roms /\ flag' # "FINISH"
  BY DeinitQuiet DEF upgrade_disconcb, pointers

\* What a step of the running program other than a restart is to the slots:
\* nothing, a write to the attempt's slot, a success, or AT SWITCH.
SlotEffect ==
    \/ UNCHANGED <<image, roms>> /\ flag' # "FINISH"
    \/ /\ upgrade = "live" /\ UNCHANGED roms /\ flag' # "FINISH"
       /\ \E i \in {"whole", "partial"} :
             image' = [image EXCEPT ![up.rom_slot] = i]
    \/ Finished
    \/ config_cmd_switch

LEMMA ImageChange ==
    ASSUME TypeOK, NEW w, NEW len, image' = ImageAfter(up, w, len)
    PROVE  \E i \in {"whole", "partial"} : image' = [image EXCEPT ![up.rom_slot] = i]
  <1>1. up.rom_slot \in Slots /\ image \in [Slots -> {"whole", "partial"}]
    BY DEF TypeOK, Upgrades
  <1>2. CASE image' = image
    <2>1. image' = [image EXCEPT ![up.rom_slot] = image[up.rom_slot]]
      BY <1>1, <1>2
    <2> QED BY <1>1, <2>1
  <1> QED BY <1>1, <1>2 DEF ImageAfter

LEMMA RunningEffect ==
    ASSUME TypeOK, flag # "FINISH", Next
    PROVE  SlotEffect \/ ConfigLost \/ Reboot
  <1>1. ASSUME upgrade # "live", UNCHANGED <<pointers, network, image, roms>>
        PROVE  SlotEffect
    BY <1>1 DEF SlotEffect, pointers
  <1>2. ASSUME rboot_ota_deinit(FALSE, flag), UNCHANGED image PROVE SlotEffect
    BY <1>2, DeinitQuiet DEF SlotEffect
  <1>3. ASSUME NEW c, upgrade_disconcb(c), UNCHANGED image PROVE SlotEffect
    BY <1>3, DisconcbQuiet DEF SlotEffect
  <1>4. ASSUME UNCHANGED <<image, roms>>, flag' # "FINISH" PROVE SlotEffect
    BY <1>4 DEF SlotEffect
  <1>5. CASE StartNoRam \/ StartNoConn \/ StartDnsError
    BY <1>4, <1>5 DEF StartNoRam, StartNoConn, StartDnsError
  <1>6. CASE config_cmd_switch
    BY <1>6 DEF SlotEffect
  <1>7. CASE ConnectTimeout
    BY <1>1, <1>3, <1>7 DEF ConnectTimeout, Follows, connect_timeout_cb
  <1>8. CASE ReceiveTimeout
    BY <1>1, <1>2, <1>8 DEF ReceiveTimeout, Follows
  <1>9. ASSUME NEW c \in Conns, StartLookup(c) \/ StartConnect(c)
        PROVE  SlotEffect
    BY <1>4, <1>9 DEF StartLookup, StartConnect
  <1>10. ASSUME NEW c \in Conns, DnsAnswer(c) \/ LateAnswer(c) PROVE SlotEffect
    BY <1>1, <1>3, <1>4, <1>10 DEF DnsAnswer, LateAnswer, Follows, upgrade_resolved, pointers
  <1>11. ASSUME NEW c \in Conns, Connected(c) \/ LateConnected(c)
         PROVE  SlotEffect
    BY <1>1, <1>2, <1>4, <1>11
       DEF Connected, LateConnected, Follows, upgrade_connect_cb, pointers
  <1>12. ASSUME NEW c \in Conns, Reconnect(c) \/ LateReconnect(c)
         PROVE  SlotEffect
    BY <1>1, <1>3, <1>12 DEF Reconnect, LateReconnect, Follows, upgrade_recon_cb
  <1>13. ASSUME NEW c \in Conns, Disconnected(c) PROVE SlotEffect
    BY <1>3, <1>13 DEF Disconnected
  <1>14. ASSUME NEW c \in Conns, Received(c) PROVE SlotEffect
    <2>1. PICK p \in Packets, reading \in BOOLEAN :
             Follows(upgrade_recvcb(p, reading) /\ UNCHANGED abandoned)
      BY <1>14 DEF Received
    <2>2. CASE upgrade = "live" /\ upgrade_recvcb(p, reading)
      <3>1. CASE rboot_ota_deinit(FALSE, flag) /\ UNCHANGED image
        BY <1>2, <3>1
      <3>2. ASSUME NEW w, image' = ImageAfter(up, w, AnnouncedBy(p)),
                   rboot_ota_deinit(FALSE, flag) \/ GoesOn(w, p)
            PROVE  SlotEffect
        <4>1. UNCHANGED roms /\ flag' # "FINISH"
          BY <3>2, DeinitQuiet DEF GoesOn
        <4> QED BY <2>2, <3>2, <4>1, ImageChange DEF SlotEffect
      <3>3. CASE Finished
        BY <3>3 DEF SlotEffect
      <3> QED BY <2>2, <3>1, <3>2, <3>3, RecvCases DEF Finished
    <2> QED BY <1>1, <2>1, <2>2 DEF Follows
  <1> QED
    BY <1>5, <1>6, <1>7, <1>8, <1>9, <1>10, <1>11, <1>12, <1>13, <1>14 DEF Next, config_cmd_ota

\* Once the update has succeeded only a restart is left.
LEMMA FinishedWaits ==
    ASSUME TypeOK, FinishRestarts, flag = "FINISH", Next
    PROVE  ConfigLost \/ Reboot
  <1>1. ~Alive
    BY DEF FinishRestarts, Alive
  <1> QED
    BY <1>1 DEF Next, config_cmd_ota, StartNoRam, StartNoConn, StartDnsError, MayStart,
        config_cmd_switch, ConnectTimeout, ReceiveTimeout, StartLookup,
        StartConnect, DnsAnswer, Connected, Reconnect, Disconnected, Received,
        LateAnswer, LateConnected, LateReconnect

LEMMA FinishRestartsStep ==
    TypeOK /\ FinishRestarts /\ [Next]_vars => FinishRestarts'
  <1> SUFFICES ASSUME TypeOK, FinishRestarts, [Next]_vars, flag' = "FINISH"
               PROVE  restarting'
    BY DEF FinishRestarts
  <1>1. CASE UNCHANGED vars
    BY <1>1 DEF vars, pointers, roms, FinishRestarts
  <1>2. CASE flag = "FINISH" /\ Next
    BY <1>2, FinishedWaits DEF ConfigLost, Reboot
  <1>3. CASE flag # "FINISH" /\ Next
    BY <1>3, FinishStep DEF Finished, rboot_ota_deinit, OtaUpdate_CallBack
  <1> QED BY <1>1, <1>2, <1>3

\* Every step of the client is a step of the A/B update, or none.
LEMMA AbStep ==
    ASSUME WordSized
    PROVE  TypeOK /\ SlotSafety /\ CommitInv /\ FinishRestarts /\ [Next]_vars
             => [Ab!Next]_(Ab!abVars)
  <1> SUFFICES ASSUME TypeOK, SlotSafety, CommitInv, FinishRestarts, [Next]_vars
               PROVE  Ab!Next \/ UNCHANGED Ab!abVars
    OBVIOUS
  <1>1. up.rom_slot \in Slots /\ current_rom \in Slots /\ running \in Slots
    BY DEF TypeOK, Upgrades
  <1>2. CASE UNCHANGED vars
    BY <1>2 DEF vars, pointers, roms, Ab!abVars
  <1>3. CASE Reboot
    <2>1. PICK s \in Slots : /\ image[s] = "whole"
                             /\ image[current_rom] = "whole" => s = current_rom
                             /\ current_rom' = s /\ running' = s
      BY <1>3 DEF Reboot
    <2>2. UNCHANGED image /\ (flag = "FINISH")' = FALSE
      BY <1>3 DEF Reboot
    <2>3. Ab!Boot(s)
      BY <2>1, <2>2 DEF Ab!Boot
    <2> QED BY <2>3 DEF Ab!Next
  <1>5. CASE ConfigLost
    <2>1. UNCHANGED <<image, running, flag>> /\ current_rom' = 0
      BY <1>5 DEF ConfigLost, pointers
    <2>2. (flag = "FINISH")' = (flag = "FINISH")
      BY <2>1
    <2>3. Ab!Switch(0)
      BY <2>1, <2>2 DEF Ab!Switch
    <2> QED BY <2>3 DEF Ab!Next, Slots
  <1>4. CASE SlotEffect /\ flag # "FINISH"
    <2>1. CASE UNCHANGED <<image, roms>> /\ flag' # "FINISH"
      <3>1. UNCHANGED <<image, current_rom, running>>
        BY <2>1 DEF roms
      <3>2. (flag = "FINISH")' = (flag = "FINISH")
        BY <1>4, <2>1
      <3> QED BY <3>1, <3>2 DEF Ab!abVars
    <2>2. CASE /\ upgrade = "live" /\ UNCHANGED roms /\ flag' # "FINISH"
               /\ \E i \in {"whole", "partial"} :
                     image' = [image EXCEPT ![up.rom_slot] = i]
      <3>1. up.rom_slot # running
        BY <2>2 DEF SlotSafety
      <3>2. UNCHANGED <<current_rom, running>>
        BY <2>2 DEF roms
      <3>3. (flag = "FINISH")' = (flag = "FINISH")
        BY <1>4, <2>2
      <3>4. Ab!Overwrite(up.rom_slot)
        BY <2>2, <3>1, <3>2, <3>3 DEF Ab!Overwrite
      <3> QED BY <1>1, <3>4 DEF Ab!Next
    <2>3. CASE Finished
      <3>1. image' = [image EXCEPT ![up.rom_slot] = "whole"]
        BY <2>3, FinishedWhole
      <3>2. up.rom_slot # running
        BY <2>3 DEF Finished, SlotSafety
      <3>3. /\ current_rom' \in {current_rom, up.rom_slot}
            /\ UNCHANGED running /\ flag' = "FINISH"
        BY <2>3 DEF Finished, rboot_ota_deinit, OtaUpdate_CallBack,
                    rboot_set_current_rom
      <3>4. (flag = "FINISH")' = TRUE
        BY <3>3
      <3>5. Ab!Succeed(up.rom_slot)
        BY <3>1, <3>2, <3>3, <3>4 DEF Ab!Succeed
      <3> QED BY <1>1, <3>5 DEF Ab!Next
    <2>4. CASE config_cmd_switch
      <3>1. /\ current_rom' \in Slots /\ UNCHANGED <<image, running>>
            /\ UNCHANGED flag
        BY <1>1, <2>4 DEF config_cmd_switch, rboot_set_current_rom, pointers, Slots
      <3>2. (flag = "FINISH")' = (flag = "FINISH")
        BY <3>1
      <3>3. Ab!Switch(current_rom')
        BY <3>1, <3>2 DEF Ab!Switch
      <3> QED BY <3>1, <3>3 DEF Ab!Next
    <2> QED BY <1>4, <2>1, <2>2, <2>3, <2>4 DEF SlotEffect
  <1> QED BY <1>2, <1>3, <1>4, <1>5, RunningEffect, FinishedWaits

\* When every announced length is a positive number of words, the OTA client, the
\* SWITCH command and the boot loader together implement the A/B update: only
\* the slot that is not executing is written, and success means a whole image.
THEOREM ImplementsAbUpdate == ASSUME WordSized PROVE Spec => RefinesAbUpdate
  <1>1. Init => Ab!Init
    <2> SUFFICES ASSUME Init PROVE Ab!Init
      OBVIOUS
    <2>1. (flag = "FINISH") = FALSE
      BY DEF Init
    <2> QED BY <2>1 DEF Init, Ab!Init
  <1>2. Init => FinishRestarts
    BY DEF Init, FinishRestarts
  <1>3. Spec => []FinishRestarts
    BY <1>2, FinishRestartsStep, TypeCorrect, PTL DEF Spec
  <1> QED
    BY <1>1, <1>3, AbStep, TypeCorrect, SlotsSafe, CommitInvariant, PTL
       DEF Spec, RefinesAbUpdate, Ab!Spec

-----------------------------------------------------------------------------
(********* No null pointer is followed and no connection is leaked *********)

\* Ending the attempt in progress hands its espconn to the disconnect callback,
\* or has already freed it.
LEMMA DeinitOwnership ==
    ASSUME TypeOK, Ownership, upgrade = "live", NEW gone \in BOOLEAN, NEW fl,
           rboot_ota_deinit(gone, fl), abandoned' = {}
    PROVE  Ownership'
  <1>1. /\ upgrade' = "null" /\ timer' = "off" /\ fault' = fault
        /\ heap' = IF gone THEN heap \ {up.conn} ELSE heap
        /\ net' = [net EXCEPT ![up.conn] = IF gone THEN "none" ELSE "closing"]
    BY DEF rboot_ota_deinit, os_timer_disarm, espconn_disconnect
  <1>2. /\ up.conn \in heap /\ up.conn \in Conns /\ heap \subseteq Conns
        /\ net \in [Conns -> NetStates]
    BY DEF Ownership, TypeOK
  <1>3. \A c \in Conns : c # up.conn =>
            net'[c] = net[c] /\ net[c] \notin {"resolving", "connecting", "open"}
    BY <1>1, <1>2 DEF Ownership, CallbacksOwned
  <1>4. net'[up.conn] = IF gone THEN "none" ELSE "closing"
    BY <1>1, <1>2
  <1>5. CallbacksOwned'
    BY <1>3, <1>4 DEF CallbacksOwned
  <1>6. NoLeak'
    BY <1>1, <1>2, <1>3, <1>4 DEF Ownership, NoLeak
  <1>7. \A c \in Conns \ heap' : net'[c] = "none"
    BY <1>1, <1>2, <1>3, <1>4 DEF Ownership
  <1> QED BY <1>1, <1>5, <1>6, <1>7 DEF Ownership, NoNullUse

LEMMA DisconcbOwnership ==
    ASSUME TypeOK, Ownership, NEW c \in Conns, upgrade_disconcb(c), abandoned' = {}
    PROVE  Ownership'
  <1>1. CASE upgrade = "live" /\ up.conn = c /\ rboot_ota_deinit(TRUE, flag)
    BY <1>1, DeinitOwnership
  <1>2. CASE /\ ~ (upgrade = "live" /\ up.conn = c)
             /\ os_timer_disarm
             /\ heap' = heap \ {c}
             /\ net' = [net EXCEPT ![c] = "none"]
             /\ fault' \in IF upgrade = "freed" THEN {"none", "freed"} ELSE {"none"}
             /\ UNCHANGED <<pointers, roms>>
    <2>1. net'[c] = "none" /\ \A d \in Conns : d # c => net'[d] = net[d]
      BY <1>2 DEF TypeOK
    <2>2. CallbacksOwned'
      BY <1>2, <2>1 DEF Ownership, CallbacksOwned, pointers
    <2>3. NoLeak' /\ \A d \in Conns \ heap' : net'[d] = "none"
      BY <1>2, <2>1 DEF Ownership, NoLeak, pointers, TypeOK
    <2>4. upgrade' = "live" =>
            up'.conn \in heap' /\ net'[up'.conn] \in {"resolving", "connecting", "open"}
      BY <1>2, <2>1 DEF Ownership, pointers, TypeOK
    <2>5. NoNullUse' /\ timer' = "off"
      BY <1>2 DEF NoNullUse, os_timer_disarm
    <2> QED BY <2>2, <2>3, <2>4, <2>5 DEF Ownership
  <1> QED BY <1>1, <1>2 DEF upgrade_disconcb

\* An update may start only when no attempt is in progress.
LEMMA MayStartIdle ==
    ASSUME TypeOK, Ownership, MayStart
    PROVE  /\ upgrade # "live" /\ timer = "off"
           /\ \A c \in Conns : net[c] \notin {"resolving", "connecting", "open"}
  BY DEF MayStart, Ownership, CallbacksOwned, TypeOK

\* A step that leaves the attempt, its connection and the faults alone.
LEMMA OwnershipKept ==
    ASSUME Ownership, UNCHANGED <<pointers, heap, net, abandoned, fault>>,
           timer' = timer \/ upgrade = "live"
    PROVE  Ownership'
  BY DEF Ownership, CallbacksOwned, NoLeak, NoNullUse, pointers

\* The attempt's connection moves on to another active state.
LEMMA OwnershipProgress ==
    ASSUME TypeOK, Ownership, upgrade = "live", NEW c \in Conns,
           net[c] \in {"resolving", "connecting", "open"},
           NEW n \in {"connecting", "open"}, net' = [net EXCEPT ![c] = n],
           UNCHANGED <<pointers, heap, abandoned, fault>>
    PROVE  Ownership'
  <1>1. up.conn = c
    BY DEF Ownership, CallbacksOwned
  <1>2. net'[c] = n /\ \A d \in Conns : d # c => net'[d] = net[d]
    BY DEF TypeOK
  <1>3. CallbacksOwned' /\ NoLeak' /\ NoNullUse'
    BY <1>1, <1>2 DEF Ownership, CallbacksOwned, NoLeak, NoNullUse, pointers, TypeOK
  <1> QED BY <1>1, <1>2, <1>3 DEF Ownership, pointers, TypeOK

\* A new attempt's espconn is the only active one.
LEMMA OwnershipStart ==
    ASSUME TypeOK, Ownership, MayStart, NEW c \in Conns, c \notin heap,
           upgrade' = "live", up' = Fresh(c), flag' = "START",
           heap' = heap \cup {c},
           NEW n \in {"resolving", "connecting"}, net' = [net EXCEPT ![c] = n],
           UNCHANGED <<abandoned, fault>>
    PROVE  Ownership'
  <1>1. up'.conn = c
    BY FreshType
  <1>2. net'[c] = n /\ \A d \in Conns : d # c => net'[d] = net[d]
    BY DEF TypeOK
  <1>3. CallbacksOwned'
    BY <1>1, <1>2, MayStartIdle DEF CallbacksOwned
  <1>4. NoLeak'
    BY <1>1, <1>2, MayStartIdle DEF Ownership, NoLeak, TypeOK
  <1> QED BY <1>1, <1>2, <1>3, <1>4 DEF Ownership, NoNullUse

LEMMA OwnershipStep ==
    ASSUME LateCallbacks = FALSE
    PROVE  TypeOK /\ Ownership /\ [Next]_vars => Ownership'
  <1> SUFFICES ASSUME TypeOK, Ownership, [Next]_vars PROVE Ownership'
    OBVIOUS
  <1>1. abandoned = {}
    BY DEF Ownership
  <1>2. \A c \in Conns : net[c] \in {"resolving", "connecting", "open"}
                            => upgrade = "live" /\ up.conn = c
    BY DEF Ownership, CallbacksOwned
  <1>3. timer # "off" => upgrade = "live"
    BY DEF Ownership
  <1>4. upgrade = "live" => up.conn \in Conns
    BY DEF TypeOK
  <1>5. CASE StartNoRam \/ StartNoConn \/ StartDnsError
    <2>1. MayStart /\ UNCHANGED <<network, fault>> /\ upgrade' # "live"
      BY <1>5 DEF StartNoRam, StartNoConn, StartDnsError
    <2> QED
      BY <2>1, MayStartIdle
         DEF network, Ownership, CallbacksOwned, NoLeak, NoNullUse, TypeOK
  <1>6. CASE config_cmd_switch \/ ConfigLost
    BY <1>6, OwnershipKept DEF config_cmd_switch, ConfigLost, network
  <1>7. CASE ConnectTimeout
    <2>1. upgrade = "live" /\ connect_timeout_cb
      BY <1>3, <1>7 DEF ConnectTimeout, Follows
    <2>2. abandoned' = {}
      BY <2>1 DEF connect_timeout_cb, LeftToSdk
    <2> QED BY <1>4, <2>1, <2>2, DisconcbOwnership DEF connect_timeout_cb
  <1>8. CASE ReceiveTimeout
    BY <1>1, <1>3, <1>8, DeinitOwnership DEF ReceiveTimeout, Follows
  <1>9. CASE Reboot
    BY <1>9 DEF Reboot, Ownership, CallbacksOwned, NoLeak, NoNullUse
  <1>10. ASSUME NEW c \in Conns, StartLookup(c) PROVE Ownership'
    BY <1>10, OwnershipStart DEF StartLookup
  <1>11. ASSUME NEW c \in Conns, StartConnect(c) PROVE Ownership'
    BY <1>11, OwnershipStart DEF StartConnect
  <1>12. ASSUME NEW c \in Conns, DnsAnswer(c) PROVE Ownership'
    <2>1. /\ upgrade = "live" /\ net[c] = "resolving"
          /\ \E found \in BOOLEAN : upgrade_resolved(c, found)
      BY <1>2, <1>12 DEF DnsAnswer, Follows
    <2>2. CASE upgrade_disconcb(up.conn) /\ UNCHANGED <<abandoned, image>>
      BY <1>1, <1>4, <2>1, <2>2, DisconcbOwnership
    <2>3. CASE /\ net' = espconn_connect(c)
               /\ UNCHANGED <<pointers, heap, abandoned, image, roms, fault>>
      <3>1. net' = [net EXCEPT ![c] = "connecting"]
        BY <2>1, <2>3 DEF espconn_connect, TypeOK
      <3> QED BY <2>1, <2>3, <3>1, OwnershipProgress
    <2> QED BY <2>1, <2>2, <2>3 DEF upgrade_resolved
  <1>13. ASSUME NEW c \in Conns, Connected(c) PROVE Ownership'
    <2>1. /\ upgrade = "live" /\ net[c] = "connecting"
          /\ upgrade_connect_cb([net EXCEPT ![c] = "open"])
      BY <1>2, <1>13 DEF Connected, Follows
    <2>2. CASE rboot_ota_deinit(FALSE, flag) /\ UNCHANGED <<abandoned, image>>
      BY <1>1, <2>1, <2>2, DeinitOwnership
    <2>3. CASE /\ net' = [net EXCEPT ![c] = "open"]
               /\ UNCHANGED <<pointers, heap, abandoned, image, roms, fault>>
      BY <2>1, <2>3, OwnershipProgress
    <2> QED BY <2>1, <2>2, <2>3 DEF upgrade_connect_cb
  <1>14. ASSUME NEW c \in Conns, Reconnect(c) PROVE Ownership'
    <2>1. upgrade = "live" /\ upgrade_recon_cb(c)
      BY <1>2, <1>14 DEF Reconnect, Follows
    <2>2. abandoned' = {}
      BY <1>1, <2>1 DEF upgrade_recon_cb, LeftToSdk
    <2> QED BY <1>4, <2>1, <2>2, DisconcbOwnership DEF upgrade_recon_cb
  <1>15. ASSUME NEW c \in Conns, Disconnected(c) PROVE Ownership'
    BY <1>1, <1>15, DisconcbOwnership DEF Disconnected
  <1>16. ASSUME NEW c \in Conns, Received(c) PROVE Ownership'
    <2>1. upgrade = "live" /\ \E p \in Packets, reading \in BOOLEAN :
             upgrade_recvcb(p, reading) /\ UNCHANGED abandoned
      BY <1>1, <1>2, <1>16 DEF Received, Follows
    <2>2. PICK p \in Packets, reading \in BOOLEAN :
             upgrade_recvcb(p, reading) /\ UNCHANGED abandoned
      BY <2>1
    <2>3. ASSUME NEW fl, rboot_ota_deinit(FALSE, fl) PROVE Ownership'
      BY <1>1, <2>1, <2>2, <2>3, DeinitOwnership
    <2>4. ASSUME NEW w, GoesOn(w, p) PROVE Ownership'
      <3>1. up'.conn = up.conn
        BY <2>4 DEF GoesOn, TypeOK, Upgrades
      <3> QED
        BY <1>1, <2>1, <2>2, <2>4, <3>1
           DEF GoesOn, Ownership, CallbacksOwned, NoLeak, NoNullUse
    <2> QED BY <2>2, <2>3, <2>4, RecvCases
  <1>17. ASSUME NEW c \in Conns, LateAnswer(c) \/ LateConnected(c) \/ LateReconnect(c)
         PROVE  Ownership'
    BY <1>1, <1>17 DEF LateAnswer, LateConnected, LateReconnect
  <1>18. CASE UNCHANGED vars
    BY <1>18, OwnershipKept DEF vars, network
  <1> QED
    BY <1>5, <1>6, <1>7, <1>8, <1>9, <1>10, <1>11, <1>12, <1>13, <1>14, <1>15,
       <1>16, <1>17, <1>18 DEF Next, config_cmd_ota

\* As long as the SDK does not call back for a connection that was given up, no
\* callback or timer finds `upgrade` null and no espconn is leaked: the handlers
\* may follow the pointer without testing it.
THEOREM PointersOwned ==
    ASSUME LateCallbacks = FALSE PROVE Spec => []Ownership
  <1>1. Init => Ownership
    BY DEF Init, Ownership, CallbacksOwned, NoLeak, NoNullUse
  <1>2. TypeOK /\ Ownership /\ [Next]_vars => Ownership'
    BY OwnershipStep
  <1> QED BY <1>1, <1>2, TypeCorrect, PTL DEF Spec

\* The two statements of Ownership a reader asks for first.
THEOREM NullNeverFollowed ==
    ASSUME LateCallbacks = FALSE PROVE Spec => [](NoNullUse /\ NoLeak)
  <1>1. Ownership => NoNullUse /\ NoLeak
    BY DEF Ownership
  <1> QED BY <1>1, PointersOwned, PTL

-----------------------------------------------------------------------------
(*************************** The flag is released **************************)

LEMMA DeinitFlag ==
    ASSUME NEW gone, NEW fl, rboot_ota_deinit(gone, fl)
    PROVE  FlagReleased'
  BY DEF rboot_ota_deinit, FlagReleased

LEMMA DisconcbFlag ==
    ASSUME FlagReleased, NEW c, upgrade_disconcb(c)
    PROVE  FlagReleased'
  BY DeinitFlag DEF upgrade_disconcb, pointers, FlagReleased

LEMMA FlagStep == FlagReleased /\ [Next]_vars => FlagReleased'
  <1> SUFFICES ASSUME FlagReleased, [Next]_vars PROVE FlagReleased'
    OBVIOUS
  <1>1. ASSUME UNCHANGED pointers PROVE FlagReleased'
    BY <1>1 DEF pointers, FlagReleased
  <1>2. CASE config_cmd_ota
    <2>1. CASE StartNoRam \/ StartNoConn \/ StartDnsError
      BY <2>1 DEF StartNoRam, StartNoConn, StartDnsError, MayStart, FlagReleased
    <2>2. ASSUME NEW c \in Conns, StartLookup(c) \/ StartConnect(c)
          PROVE  FlagReleased'
      BY <2>2 DEF StartLookup, StartConnect, FlagReleased
    <2> QED BY <1>2, <2>1, <2>2 DEF config_cmd_ota
  <1>3. CASE config_cmd_switch \/ ConfigLost
    BY <1>1, <1>3 DEF config_cmd_switch, ConfigLost
  <1>4. CASE ConnectTimeout
    BY <1>1, <1>4, DisconcbFlag DEF ConnectTimeout, Follows, connect_timeout_cb
  <1>5. CASE ReceiveTimeout
    BY <1>1, <1>5, DeinitFlag DEF ReceiveTimeout, Follows
  <1>6. CASE Reboot
    BY <1>6 DEF Reboot, FlagReleased
  <1>7. ASSUME NEW c \in Conns, DnsAnswer(c) \/ LateAnswer(c) PROVE FlagReleased'
    <2>1. PICK found \in BOOLEAN, d \in {c, up.conn} : Follows(upgrade_resolved(d, found))
      BY <1>7 DEF DnsAnswer, LateAnswer
    <2> QED BY <1>1, <2>1, DisconcbFlag DEF Follows, upgrade_resolved
  <1>8. ASSUME NEW established, upgrade_connect_cb(established)
        PROVE  FlagReleased'
    BY <1>1, <1>8, DeinitFlag DEF upgrade_connect_cb
  <1>9. ASSUME NEW c \in Conns, Connected(c) \/ LateConnected(c)
        PROVE  FlagReleased'
    BY <1>1, <1>8, <1>9 DEF Connected, LateConnected, Follows
  <1>10. ASSUME NEW c \in Conns, Reconnect(c) \/ LateReconnect(c) \/ Disconnected(c)
         PROVE  FlagReleased'
    BY <1>1, <1>10, DisconcbFlag
       DEF Reconnect, LateReconnect, Disconnected, Follows, upgrade_recon_cb
  <1>11. ASSUME NEW c \in Conns, Received(c) PROVE FlagReleased'
    <2>1. PICK p \in Packets, reading \in BOOLEAN :
             Follows(upgrade_recvcb(p, reading) /\ UNCHANGED abandoned)
      BY <1>11 DEF Received
    <2>2. CASE upgrade_recvcb(p, reading)
      <3>1. ASSUME NEW w, GoesOn(w, p) PROVE FlagReleased'
        BY <3>1 DEF GoesOn, FlagReleased
      <3> QED BY <2>2, <3>1, RecvCases, DeinitFlag
    <2> QED BY <1>1, <2>1, <2>2 DEF Follows
  <1>12. CASE UNCHANGED vars
    BY <1>1, <1>12 DEF vars
  <1> QED
    BY <1>2, <1>3, <1>4, <1>5, <1>6, <1>7, <1>9, <1>10, <1>11, <1>12 DEF Next

\* However an attempt ends (rboot_ota_deinit, the paths of rboot_ota_start), also with
\* late callbacks, the next one is not refused, except after a failed lookup.
THEOREM FlagIsReleased == Spec => []FlagReleased
  <1>1. Init => FlagReleased
    BY DEF Init, FlagReleased
  <1> QED BY <1>1, FlagStep, PTL DEF Spec

=============================================================================
