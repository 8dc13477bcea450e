----------------------------- MODULE BootConfig -----------------------------
(***************************************************************************)
(* The sector that tells the boot loader which ROM to start (rboot-api.c). *)
(* rboot_set_current_rom rewrites it as a whole: it reads the sector, puts *)
(* the new configuration in front, erases and writes.  Both callers, AT    *)
(* SWITCH and the callback of an update, restart the device next.  Power   *)
(* may go at any moment and a write may stop half-way.                     *)
(*                                                                         *)
(* The sector is four parts, written in this order: the first word with    *)
(* current_rom, the count and addresses of the ROMs, the checksum, and     *)
(* the rest, which belongs to the application.                             *)
(*                                                                         *)
(* A few names begin with Boot, so that a module can extend this one and   *)
(* RbootWrite, the other half of rboot-api.c.                              *)
(***************************************************************************)
EXTENDS Naturals

CONSTANTS
    Counts,    \* numbers of ROMs a board can have been set up for
    UserData,  \* what the application may have stored in the rest
    Unwritten  \* what an erased part reads as

ASSUME BootAssumption ==
    /\ Counts \subseteq {1, 2} /\ 2 \in Counts
    /\ Unwritten \in UserData
    /\ Unwritten \notin {0, 1, 2}
    /\ Unwritten \notin {0, 1, Unwritten} \X {1, 2, Unwritten}

VARIABLES
    sector,   \* BOOT_CONFIG_SECTOR
    conf,     \* the rboot_config being saved
    buffer,   \* the copy of the sector in RAM, or Blank
    pc,       \* "off", "running", a step of rboot_set_config, or "done"
    running,  \* the ROM the boot loader started
    result,   \* what rboot_set_current_rom returned
    hurt,     \* a write has ever been cut short
    user      \* the application's data since the configuration was last sound

bootVars == <<sector, conf, buffer, pc, running, result, hurt, user>>

Roms == {0, 1}

Blank == [current_rom |-> Unwritten, count |-> Unwritten,
          chksum |-> Unwritten, rest |-> Unwritten]

\* The checksum of a configuration tells any two of them apart.
chksum_stale(c) == c.chksum                                       \* mutant
chksum(c) == <<c.current_rom, c.count>>

Config(rom, count) ==
    [current_rom |-> rom, count |-> count, chksum |-> <<rom, count>>]

Sound(s) == s.chksum = <<s.current_rom, s.count>>

\* A sector that holds configuration c and data d.
With(c, d) == [current_rom |-> c.current_rom, count |-> c.count,
               chksum |-> c.chksum, rest |-> d]

BootTypeOK ==
    /\ {sector, buffer} \subseteq
          [current_rom: Roms \cup {Unwritten}, count: Counts \cup {Unwritten},
           chksum: (Roms \X Counts) \cup {Unwritten}, rest: UserData]
    /\ conf \in [current_rom: Roms, count: Counts, chksum: Roms \X Counts]
    /\ pc \in {"off", "running", "read", "erase", "write", "done"}
    /\ buffer # Blank <=> pc \in {"erase", "write"}
    /\ running \in Roms
    /\ result \in BOOLEAN /\ hurt \in BOOLEAN
    /\ user \in UserData

-----------------------------------------------------------------------------

\* rBoot starts the selected ROM.  A configuration that is not there or corrupt it
\* replaces by the default one (rboot.h); what it does with the rest is not known.
default_config_second == Config(1, 2)                             \* mutant
default_config == Config(0, 2)

Start ==
    /\ pc = "off" /\ pc' = "running"
    /\ \/ Sound(sector) /\ running' = sector.current_rom /\ UNCHANGED <<sector, user>>
       \/ /\ ~Sound(sector)
          /\ running' = default_config.current_rom
          /\ user' \in {sector.rest, Unwritten}
          /\ sector' = With(default_config, user')
    /\ UNCHANGED <<conf, buffer, result, hurt>>

\* rboot_set_current_rom: refuses a ROM there is not, and takes the other fields of
\* the configuration as they are stored.
rboot_set_current_rom(rom) ==
    \/ rom >= sector.count /\ result' = FALSE /\ pc' = "done" /\ UNCHANGED conf
    \/ /\ rom < sector.count
       /\ conf' = [current_rom |-> rom, count |-> sector.count, chksum |-> sector.chksum]
       /\ pc' = "read" /\ UNCHANGED result

\* AT SWITCH selects the ROM that is not selected, an update the one that does not
\* run; nothing comes between start and either of them that could tell these apart.
Other(rom) == 1 - rom

config_cmd_switch ==
    /\ pc = "running" /\ rboot_set_current_rom(Other(sector.current_rom))
    /\ UNCHANGED <<sector, buffer, running, hurt, user>>

\* rboot_set_config: makes the checksum and the copy to be written, or finds no RAM
\* for it.
Copied_conf_only(s, c) == With(c, Unwritten)                      \* mutant
Copied(s, c) == With(c, s.rest)

ReadSector ==
    /\ pc = "read"
    /\ \/ /\ conf' = [conf EXCEPT !.chksum = chksum(conf)]
          /\ buffer' = Copied(sector, conf')
          /\ pc' = "erase" /\ UNCHANGED result
       \/ result' = FALSE /\ pc' = "done" /\ UNCHANGED <<conf, buffer>>
    /\ UNCHANGED <<sector, running, hurt, user>>

EraseSector ==
    /\ pc = "erase" /\ pc' = "write"
    /\ sector' = Blank
    /\ UNCHANGED <<conf, buffer, running, result, hurt, user>>

\* What a write of b to the erased sector has stored after n of its four parts.
Parts == 4
Stored(b, n) == [current_rom |-> IF n > 0 THEN b.current_rom ELSE Unwritten,
                 count       |-> IF n > 1 THEN b.count ELSE Unwritten,
                 chksum      |-> IF n > 2 THEN b.chksum ELSE Unwritten,
                 rest        |-> IF n > 3 THEN b.rest ELSE Unwritten]

\* The result of spi_flash_write is not looked at.
WriteSector(n) ==
    /\ pc = "write" /\ pc' = "done"
    /\ sector' = Stored(buffer, n)
    /\ hurt' = (hurt \/ n < Parts)
    /\ buffer' = Blank /\ result' = TRUE
    /\ UNCHANGED <<conf, running, user>>

Off == pc' = "off" /\ buffer' = Blank /\ result' = FALSE

\* Both callers restart the device, whatever the result.
system_restart ==
    /\ pc = "done" /\ Off
    /\ UNCHANGED <<sector, conf, running, hurt, user>>

\* Power goes, or the watchdog restarts the device.
PowerCut ==
    /\ pc # "off" /\ Off
    /\ \/ /\ pc = "write" /\ hurt' = TRUE
          /\ \E n \in 0 .. Parts : sector' = Stored(buffer, n)
       \/ pc # "write" /\ UNCHANGED <<sector, hurt>>
    /\ UNCHANGED <<conf, running, user>>

-----------------------------------------------------------------------------

\* A board that was set up, or one whose sector was never written.
BootInit ==
    /\ user \in UserData
    /\ sector \in {Blank} \cup {With(Config(0, n), user) : n \in Counts}
    /\ sector = Blank => user = Unwritten
    /\ conf = default_config
    /\ buffer = Blank /\ pc = "off" /\ running = 0
    /\ result = FALSE /\ hurt = FALSE

BootNext ==
    \/ Start \/ config_cmd_switch \/ ReadSector \/ EraseSector
    \/ \E n \in 0 .. Parts : WriteSector(n)
    \/ system_restart \/ PowerCut

BootSpec == BootInit /\ [][BootNext]_bootVars

-----------------------------------------------------------------------------
(******************************** Properties *******************************)

\* The ROM that would be started if power went now.
Boots == IF Sound(sector) THEN sector.current_rom ELSE 0

\* A power cut or a failing write can change the selection to the default and to
\* nothing else that was not asked for; only rboot_set_config changes it.
SelectionChanges ==
    [][Boots' # Boots => /\ pc \in {"erase", "write"}
                         /\ Boots' \in {conf.current_rom, 0}]_bootVars

\* A ROM the board was not set up for is never selected.
RomExists == Sound(sector) => sector.current_rom < sector.count

\* "maintaining the contents of the rest of the sector": saving loses nothing of the
\* application's, unless a write was cut short.
RestMaintained == pc \notin {"off", "write"} /\ ~hurt => sector.rest = user

\* A refused or failed selection leaves the configuration; one that succeeded is in
\* the sector, checksum and all, unless a write was cut short.
SelectionTakes ==
    pc = "done" /\ ~hurt =>
        /\ Sound(sector)
        /\ sector.current_rom = IF result THEN conf.current_rom ELSE running
=============================================================================
