------------------------------ MODULE FlashMap ------------------------------
(***************************************************************************)
(* Who writes where in the flash chip.  Five writers share it and nothing  *)
(* but constants keeps them apart: the boot loader, the boot configuration *)
(* (rboot-api.c), the update that streams an image into a ROM slot without *)
(* a check that it fits (rboot-api.c:137), the settings (flash_param.c),   *)
(* whose sector lies between the start of ROM 0 and the end of its         *)
(* partition, and the areas of the SDK (main.c).                           *)
(*                                                                         *)
(* The unit is the sector.  After every flash operation the SDK enables    *)
(* the cache again through Cache_Read_Enable_New (rboot-bigflash.c), which *)
(* must map the megabyte of the ROM that executes, also when another one   *)
(* has been selected meanwhile.                                            *)
(***************************************************************************)
EXTENDS Naturals

CONSTANTS
    Sectors,  \* the sectors looked at, numbered from the start of the chip
    Images,   \* ROM images a server may offer
    Size,     \* how many sectors each of them has
    Cuts      \* sectors of a stream after which a write may end

VARIABLES
    flash,        \* what each sector holds
    current_rom,  \* the ROM the boot configuration selects
    running,      \* the ROM that executes, or did until power went
    mmap,         \* <<rBoot_mmap_1, rBoot_mmap_2>>, or Unset
    up,           \* the update in progress, or NoUpdate
    pc,           \* "off", "boot", "up", a step of saving settings, "restart"
    why,          \* what is being saved, or what asked for the restart
    reach         \* history, for the properties: how far into the chip, in sectors from
                  \* the start of a slot, its images and streams have ever come

vars == <<flash, current_rom, running, mmap, up, pc, why, reach>>

Slots == {0, 1}

-----------------------------------------------------------------------------
(******************************* The map ***********************************)

flashsize == 1024                     \* FLASH_SIZE_32M_MAP_1024_1024: 4 MB
Megabyte == 256

BOOT_CONFIG_SECTOR == 1
FLASH_PARAM_SECTOR == 129             \* 0x81

\* default_config: where the two ROMs start.
roms_eighth ==                                                    \* mutant
    [s \in Slots |-> (s * (flashsize \div 8)) + BOOT_CONFIG_SECTOR + 1]
roms == [s \in Slots |-> (s * (flashsize \div 2)) + BOOT_CONFIG_SECTOR + 1]

\* The partitions that are the SDK's: RF calibration, PHY data, parameters.
SdkSectors == {251, 508} \cup 1021..1023

\* The settings and the SDK do not ask whose sector theirs is.
Shared == {FLASH_PARAM_SECTOR} \cup SdkSectors

ASSUME FlashAssumption ==
    /\ Sectors \subseteq 0..(flashsize - 1) /\ Cuts \subseteq Nat
    /\ {FLASH_PARAM_SECTOR, 1021} \subseteq Sectors
    /\ Size \in [Images -> Nat \ {0}]
    /\ Images \cap {"erased", "partial", "settings", "cut", "sdk", "other"} = {}

\* rom0.ld links the code of either slot for the second sector of the window.
\* It leaves 0xF0000 bytes for it.
Linked == 2
LinkedLength == 240

\* The sectors a stream of n sectors into slot s covers.
Stream_early(s, n) == {x \in Sectors : roms[s] <= x + 1 /\ x + 1 < roms[s] + n}  \* mutant
Stream(s, n) == {x \in Sectors : roms[s] <= x /\ x < roms[s] + n}

\* The slot holds an image whose checksum the boot loader accepts.
Holds(s, i) == \A x \in Stream(s, Size[i]) : flash[x] = i
Whole(s) == \E i \in Images : Holds(s, i)

NoUpdate == [on |-> FALSE, slot |-> 0, img |-> "other", done |-> 0]
Unset == <<255, 255>>

Contents == Images \cup {"erased", "partial", "settings", "cut", "sdk", "other"}

TypeOK ==
    /\ flash \in [Sectors -> Contents]
    /\ current_rom \in Slots /\ running \in Slots
    /\ mmap \in (Nat \X Nat)
    /\ up \in [on: {TRUE}, slot: Slots, img: Images, done: 0..flashsize]
                \cup {NoUpdate}
    /\ pc \in {"off", "boot", "up", "erase", "write", "restart"}
    /\ why \in {"none", "init", "baud", "port", "switch", "ota"}
    /\ reach \in [Slots -> Nat]

-----------------------------------------------------------------------------
(*************************** Mapping the code ******************************)

\* The window is computed from the configuration once, when the device starts.
Window(s) == LET val == roms[s] \div Megabyte IN <<val % 2, val \div 2>>

Cache_Read_Enable_New_always == mmap' = Window(current_rom')      \* mutant
Cache_Read_Enable_New ==
    mmap' = IF mmap = Unset THEN Window(current_rom') ELSE mmap

-----------------------------------------------------------------------------
(**************************** Start and settings ***************************)

\* rBoot starts the selected ROM if its checksum is right, else the other one, and
\* stores what it started.
Boot(s) ==
    /\ pc = "off" /\ pc' = "boot" /\ why' = "none"
    /\ Whole(s) /\ (Whole(current_rom) => s = current_rom)
    /\ current_rom' = s /\ running' = s
    /\ mmap' = Unset
    /\ UNCHANGED <<flash, up, reach>>

\* user_init: settings whose magic and version are there are kept, also when their
\* write was cut short after that; anything else, the code of an image included, is
\* replaced.
user_init ==
    /\ pc = "boot"
    /\ \/ /\ flash[FLASH_PARAM_SECTOR] \in {"settings", "cut"}
          /\ pc' = "up" /\ UNCHANGED why
       \/ /\ flash[FLASH_PARAM_SECTOR] # "settings"
          /\ pc' = "erase" /\ why' = "init"
    /\ UNCHANGED <<flash, current_rom, running, up, reach>>
    /\ Cache_Read_Enable_New

\* AT BAUD and AT PORT save the settings; AT PORT then restarts the device.
Save(cmd) ==
    /\ pc = "up" /\ pc' = "erase" /\ why' = cmd
    /\ UNCHANGED <<flash, current_rom, running, mmap, up, reach>>

\* flash_param_write erases and writes the sector.
Erase ==
    /\ pc = "erase" /\ pc' = "write"
    /\ flash' = [flash EXCEPT ![FLASH_PARAM_SECTOR] = "erased"]
    /\ UNCHANGED <<current_rom, running, up, why, reach>>
    /\ Cache_Read_Enable_New

Write ==
    /\ pc = "write"
    /\ \E stored \in {"settings", "cut"} :
          flash' = [flash EXCEPT ![FLASH_PARAM_SECTOR] = stored]
    /\ IF why = "port" THEN pc' = "restart" /\ UNCHANGED why
       ELSE pc' = "up" /\ why' = "none"
    /\ UNCHANGED <<current_rom, running, up, reach>>
    /\ Cache_Read_Enable_New

\* The SDK writes its calibration and parameters when it likes.
SdkSave(x) ==
    /\ pc \in {"boot", "up", "restart"} /\ x \in SdkSectors \cap Sectors
    /\ flash' = [flash EXCEPT ![x] = "sdk"]
    /\ UNCHANGED <<current_rom, running, up, pc, why, reach>>
    /\ Cache_Read_Enable_New

-----------------------------------------------------------------------------
(***************************** ROMs and updates ****************************)

\* AT SWITCH.  Saving the selection may fail.
config_cmd_switch ==
    /\ pc = "up" /\ pc' = "restart" /\ why' = "switch"
    /\ current_rom' \in {current_rom, 1 - current_rom}
    /\ UNCHANGED <<flash, running, up, reach>>
    /\ Cache_Read_Enable_New

\* AT OTA: the slot that is not selected, from its first sector on.
rboot_ota_start_selected(i) ==                                    \* mutant
    /\ pc = "up" /\ ~up.on
    /\ up' = [on |-> TRUE, slot |-> current_rom, img |-> i, done |-> 0]
    /\ UNCHANGED <<flash, current_rom, running, mmap, pc, why, reach>>

rboot_ota_start(i) ==
    /\ pc = "up" /\ ~up.on
    /\ up' = [on |-> TRUE, slot |-> 1 - current_rom, img |-> i, done |-> 0]
    /\ UNCHANGED <<flash, current_rom, running, mmap, pc, why, reach>>

\* The first n sectors of the stream hold its image.
Streamed(u, n) ==
    [x \in Sectors |-> IF x \in Stream(u.slot, n) \ Stream(u.slot, u.done)
                       THEN u.img ELSE flash[x]]

\* The sector after those that are complete has been erased and begun.
Begun(u) ==
    [x \in Sectors |-> IF x \in Stream(u.slot, u.done + 1) \ Stream(u.slot, u.done)
                       THEN "partial" ELSE flash[x]]

Reaches(n) ==
    reach' = [reach EXCEPT ![up.slot] = IF n > @ THEN n ELSE @]

\* upgrade_recvcb: stores what arrived.  Once that is exactly the image, the update has
\* succeeded: the new ROM is selected, unless that fails, and the device restarts.
\* Nothing compares the stream with the slot or with what it announced before it is
\* stored, so it goes on over whatever lies behind; only the end of the chip, where the
\* SDK refuses to write, stops it.
upgrade_recvcb(n) ==
    /\ pc = "up" /\ up.on
    /\ up.done < n /\ roms[up.slot] + n <= flashsize
    /\ flash' = Streamed(up, n)
    /\ \/ /\ n # Size[up.img] /\ up' = [up EXCEPT !.done = n]
          /\ UNCHANGED <<current_rom, pc, why>>
       \/ /\ n = Size[up.img] /\ up' = NoUpdate
          /\ current_rom' \in {current_rom, up.slot}
          /\ pc' = "restart" /\ why' = "ota"
    /\ UNCHANGED running
    /\ Reaches(n)
    /\ Cache_Read_Enable_New

\* What arrived ends inside a sector.
upgrade_recvcb_part ==
    /\ pc = "up" /\ up.on /\ roms[up.slot] + up.done < flashsize
    /\ flash' = Begun(up) /\ Reaches(up.done + 1)
    /\ UNCHANGED <<current_rom, running, up, pc, why>>
    /\ Cache_Read_Enable_New

\* A timeout, a failing write, the end of the connection.
rboot_ota_deinit ==
    /\ pc = "up" /\ up.on
    /\ up' = NoUpdate
    /\ UNCHANGED <<flash, current_rom, running, mmap, pc, why, reach>>

-----------------------------------------------------------------------------
(******************************* Restarts **********************************)

\* The power is cut while the configuration is written: rBoot makes the default one.
ConfigLost ==
    /\ pc = "restart" /\ why \in {"switch", "ota"}
    /\ current_rom' = 0
    /\ UNCHANGED <<flash, running, mmap, up, pc, why, reach>>

\* A restart that was asked for, or the loss of power at any point.
PowerCut ==
    /\ pc # "off" /\ pc' = "off"
    /\ up' = NoUpdate
    /\ UNCHANGED <<flash, current_rom, running, mmap, why, reach>>

-----------------------------------------------------------------------------

\* A board whose ROM 0 was flashed, with or without settings and a second ROM.
Init ==
    /\ \E i \in Images, j \in Images \cup {"erased"}, f \in {"settings", "erased"} :
          /\ flash = [x \in Sectors |->
                IF x \in Stream(0, Size[i]) THEN i
                ELSE IF j # "erased" /\ x \in Stream(1, Size[j]) THEN j
                ELSE IF x = FLASH_PARAM_SECTOR THEN f ELSE "other"]
          /\ reach = [s \in Slots |-> IF s = 0 THEN Size[i]
                                     ELSE IF j = "erased" THEN 0 ELSE Size[j]]
    /\ current_rom = 0 /\ running = 0
    /\ mmap = Unset /\ up = NoUpdate
    /\ pc = "off" /\ why = "none"

Next ==
    \/ \E s \in Slots : Boot(s)
    \/ user_init \/ Erase \/ Write
    \/ \E cmd \in {"baud", "port"} : Save(cmd)
    \/ \E x \in SdkSectors : SdkSave(x)
    \/ config_cmd_switch
    \/ \E i \in Images : rboot_ota_start(i)
    \/ \E n \in Cuts : upgrade_recvcb(n)
    \/ upgrade_recvcb_part \/ rboot_ota_deinit
    \/ ConfigLost \/ PowerCut

Spec == Init /\ [][Next]_vars

-----------------------------------------------------------------------------
(******************************** Properties *******************************)

\* The sector behind what a slot has to itself: the settings for ROM 0, the parameters
\* of the SDK for ROM 1.  The partitions of main.c end elsewhere.
AreaEnd == [s \in Slots |-> IF s = 0 THEN FLASH_PARAM_SECTOR ELSE 1021]

\* No image and no stream has come that far yet.  The code does not see to it; the
\* 504 KB the Makefile names as the largest ROM do, the 960 KB of rom0.ld and of the
\* partitions do not.
Apart == \A s \in Slots : roms[s] + reach[s] <= AreaEnd[s]

\* What happens to the ROM that executes, or did before power went, while other things
\* are written.  Its sectors stay those of the image the boot loader accepted, but for
\* the sectors the settings and the SDK own inside a ROM (a ROM 0 of more than 127
\* sectors is damaged by the first save) and those an update of ROM 0 ran into.  As
\* long as no image came that far, the boot loader would accept it again.
RomIntact ==
    /\ \E i \in Images : \A x \in Stream(running, Size[i]) :
          \/ flash[x] = i
          \/ x \in Shared
          \/ x \in Stream(1 - running, reach[1 - running])
    /\ Apart => Whole(running)

\* A sector changes only at the hand of its owner, or of an update that ran over it:
\* the settings while they are saved, a sector of the SDK by the SDK, and by an update
\* what lies behind the start of the slot that does not execute, and only once the
\* stream has gone over everything in between.  So the boot loader and its
\* configuration never change here, no update of ROM 1 harms ROM 0, and one of ROM 0
\* that comes to the settings or to ROM 1 has put its image over all that lies before.
WritersApart ==
    [][\A x \in Sectors : flash'[x] # flash[x] =>
          \/ x = FLASH_PARAM_SECTOR /\ pc \in {"erase", "write"}
          \/ x \in SdkSectors /\ flash'[x] = "sdk"
          \/ /\ up.on /\ up.slot # running /\ roms[up.slot] <= x
             /\ \A y \in Sectors \ Shared :
                   roms[up.slot] <= y /\ y < x => flash'[y] = up.img]_vars

\* The window shows the megabyte of the ROM that executes, with its code where the
\* linker put it, whatever ROM has been selected for the next start.
CodeMapped ==
    pc \notin {"off", "boot"} =>
        LET val == (2 * mmap[2]) + mmap[1] IN
        \A x \in Stream(running, LinkedLength) :
            x - (val * Megabyte) >= Linked
            /\ x - (val * Megabyte) < Megabyte
            /\ x - roms[running] = x - (val * Megabyte) - Linked

\* The flash as a whole keeps the promise of an A/B update, step by step, until an
\* image or a stream comes to the area of another: from then on a save of the settings
\* may damage the ROM that executes, or an update that succeeded.
Ab == INSTANCE AbUpdate WITH
          image <- [s \in Slots |-> IF Whole(s) THEN "whole" ELSE "partial"],
          selected <- current_rom, reported <- why = "ota"
RefinesAbUpdate == Ab!Init /\ [][Apart' => [Ab!Next]_(Ab!abVars)]_vars

\* Why: what an update writes is the slot that does not execute, because until a
\* restart is requested the ROM that executes is the one that is selected.
SlotsApart ==
    /\ RomIntact
    /\ up.on => pc # "off" /\ up.slot # running
    /\ pc \notin {"off", "restart"} => current_rom = running
    /\ mmap # Unset /\ pc # "off" => mmap = Window(running)
    /\ pc \notin {"off", "boot"} => mmap # Unset
    /\ pc \notin {"off", "restart"} => why \notin {"switch", "ota"}

\* Why an image that lies within its area is one that was streamed there.
Provenance ==
    \A x \in Sectors : flash[x] \in Images => \E s \in Slots : x \in Stream(s, reach[s])

\* Why an update that succeeds leaves a whole image: only the settings and the SDK touch
\* what it stored.
StreamStored ==
    up.on => \A x \in Stream(up.slot, up.done) \ Shared : flash[x] = up.img
=============================================================================
