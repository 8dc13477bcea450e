# Verification of the rBoot / NonOS SDK firmware

The firmware in `src/` turns an ESP8266 into a Wi-Fi access point with an AT command
server on TCP port 21. The commands drive an over-the-air (OTA) update into the other
of two ROM slots, the selection of the slot the rBoot boot loader starts, the board's
settings, the UART, a few GPIO pins and the radio. This directory holds TLA+ models of
the parts that carry state and order, the TLC configurations that check them, and
TLAPS proofs about all of them.

- [Inventory of the system](#inventory)
- [Modules and how they correspond to the code](#modules)
- [Runs: what is checked, bounds, fairness](#runs)
- [Proofs](#proofs)
- [Disagreements between the code and what it says](#disagreements)
- [What is not modelled](#not-modelled)
- [Plan](#plan)

Everything runs on one core. The program has no threads: the SDK calls *handlers*
(network callbacks, timers, the command parser) one at a time and never preempts one
with another; only the UART receive interrupt does that. So a handler is one action,
unless power can fail between its flash operations, and what is hard is the *order* in
which the SDK calls the handlers, what it calls them with, and where power goes.

## Inventory

### OTA client — `rboot-ota.c`, started by `AT OTA` (`config.c:540`)

*State*: the static pointer `upgrade` to a malloc'ed status (slot, connection, total and
announced length, writer status), one timer `ota_timer`, the SDK's upgrade flag, the
espconn structures it allocates, the ROM slots and the boot configuration.

*Operations*: `rboot_ota_start`; callbacks for the DNS answer, connect, receive,
disconnect and reset; two timeouts (`connect_timeout_cb`, and `rboot_ota_deinit` itself
for a missing reply); `rboot_ota_deinit`, which ends an attempt and calls
`OtaUpdate_CallBack` (select the new ROM, restart).

*Interactions*: the flash writer for each packet, the boot configuration on success, the
AT server for replies, `AT SWITCH` for the same configuration.

*Hard*: `espconn_disconnect` is asynchronous, so the disconnect callback of an attempt
arrives after the attempt is over and possibly in the middle of the next one; handlers
follow `upgrade`, not the espconn they are given; every failing step of
`rboot_ota_start` frees something else; packets cut words and the header anywhere; power
goes at any point of a download.

*Correct if*: the executing ROM is never written; success means a whole image; every
callback belongs to the attempt in progress; nothing is leaked or followed through null;
every attempt ends.

### Flash writer — `rboot-api.c:82-157`

*State*: next address, last erased sector, up to three bytes that do not fill a word.
*Operations*: init, write, end. *Hard*: sector boundaries, calls shorter than a word,
failing writes, starting over. *Correct if*: the flash holds the stream in order, no cell
is programmed twice without an erase, no other sector is touched.

### Boot configuration — `rboot-api.c:33-79`, `rboot.h`

*State*: one flash sector: selected ROM, count and addresses, checksum, application data.
*Operations*: get, set (read, erase, write), select a ROM. *Hard*: power between erase
and write; no RAM for the copy; ignored results. *Correct if*: the selection becomes the
one asked for or the default and nothing else, and the rest of the sector survives.

### AT server — `server.c`

*State*: a pool of `MAX_CONN` (1) slots, each with the connection, a transmit buffer, its
length and `readytosend`. *Operations*: connect, receive, sent, disconnect and reset
callbacks; formatted and plain output. *Hard*: only one `espconn_sent` may be outstanding,
output produced meanwhile is buffered in a bounded array; a slot is used again by the
next client; connections end in three different ways. *Correct if*: the output reaches
its own client in order; a send starts only after the previous one was acknowledged;
buffered output gets sent; slots come back.

### AT parser and dispatch — `config.c:20-81, 637-721`

*State*: none between lines; one received segment is one line. *Operations*: tokenise,
find the first command that starts with the given word, run it, free the arguments.
*Hard*: lines that arrive in pieces, abbreviations, argument memory that outlives or does
not outlive its command, a table whose order decides between names that begin alike.
*Correct if*: a whole line runs the command it names, once and with its arguments; a piece
of one runs nothing another line said; nothing runs from the middle of a line but where the
test for `AT` can be misled; a parse frees what it allocated.

### Settings — `flash_param.c`, `AT BAUD`, `AT FLASH`, `AT PORT`

*State*: a RAM copy, flash sector 0x81, the switch `doflash`, the UART's clock divider
and framing register. *Operations*: load and repair at start-up, save with read-back,
the three commands. *Hard*: copy, sector and registers are changed by different commands
and come back in different ways after a restart; saving is erase and write in place.
*Correct if*: what is reported is in force, restarts change nothing, what was saved and
answered with OK is stored, the serial number from production is kept.

### Wi-Fi mode — `config.c:216-395`, `main.c:96-100`

*State*: the mode in flash and the current mode, station and AP configuration, the reset
timer. *Operations*: `AT MODE`, `STA`, `AP`, `RESET`, `RESTORE`, the timer callback, start-up.
*Hard*: the timer fires in whatever mode the later commands left; start-up forces AP mode;
each command reads and writes configurations as a whole; a restart comes some time after it
was asked for. *Correct if*: one client at most; the board is a station only because it was
told to be, of the network it was told; it is then looked after by the timer; the access
point is what the last `AT AP` made it.

### UART line and alarm — `uart.c`, `io.c:156-219`

*State*: the UART interrupt enable, the INTCOM and TX-enable pins of a shared line, a
62 ms timer. *Operations*: the timer sends the alarm byte and sleeps; the receive
interrupt releases the line and arms the timer. *Hard*: the only true preemption in the
program; an interrupt that disables itself and posts to a task nobody registered.
*Correct if*: the board signals with its transmitter on, and an alarm is sent.

### GPIO driver and pin commands — `gpio16.c`, `io.c:14-154`

*State*: mode, level and interrupt type of each pin. *Operations*: mode, write, read,
pulse, and the commands `GPIO2/15/16`, `MAPA`, `RESETDSP`. *Hard*: GPIO16 lives in other
registers; commands wait in a loop for the ARM processor to release a pin.

### Flash map and start-up — `main.c`, `rboot-bigflash.c`, `rboot.h`

*State*: which megabyte is mapped for execution; constants: partition table, ROM addresses,
the settings sector. *Operations*: `Cache_Read_Enable_New` after every flash operation, and
every writer of the flash. *Hard*: nothing checks that an image fits its slot; the settings lie
inside the partition of ROM 0; the mapping is computed once, the selection changes later.
*Correct if*: each sector is written by its owner only, the executing ROM stays whole and
mapped: as long as images and streams stay in their areas, for nothing in the code makes them.

### No behaviour of their own

`INFO`, `HEAP`, `CPU`, `CHIPID`, `FLASHID`, `FLASHSIZE`, `ROM`, `VERSION` and `RFPOWER`
print what the SDK reports or set one register. `Makefile`, `rom0.ld`, `uart_register.h`,
the binaries and the two readmes are build files, addresses, images and documentation.

## Modules

| Module | Models | Uses | Proved in |
| --- | --- | --- | --- |
| `AbUpdate` | abstract: an update of one of two slots | | |
| `WriteOutcomes` | what one call of the flash writer does to its counters | | |
| `RbootOta` | the OTA client, `AT OTA`, `AT SWITCH`, rBoot's choice | `WriteOutcomes`, `AbUpdate` | `RbootOta_proofs` |
| `RbootWrite` | the flash writer byte by byte | `WriteOutcomes` | `RbootApi_proofs` |
| `BootConfig` | the boot configuration sector step by step | | `RbootApi_proofs` |
| `FlashMap` | every writer of the flash chip, sector by sector | `AbUpdate` | `FlashMap_proofs` |
| `AtServer` | the TCP server | | `AtServer_proofs` |
| `AtDispatch` | from segments to commands | | `AtDispatch_proofs` |
| `Settings` | settings, their sector, the UART registers | | `Settings_proofs` |
| `WifiMode` | Wi-Fi mode, access point, station, reset timer | | `WifiMode_proofs` |
| `Gpio` | the GPIO driver, as functions | | |
| `UartLine` | pins, alarm timer, receive interrupt, pin commands | `Gpio` | `UartLine_proofs` |
| `MC…` | instances of these for TLC | | |

### How they fit together

`RbootOta` needs the flash writer and the boot configuration, at a coarser grain. The
writer's outcomes are in `WriteOutcomes`; `RbootWrite`, which has every byte and sector,
is checked and proved to produce no others (`CountersAgree`). The configuration is one variable
there, `current_rom`, that `rboot_set_current_rom` may or may not change and that a power
cut may reset (`ConfigLost`); `BootConfig`, which has every flash operation, is checked to
change the selection in no other way (`SelectionChanges`), and proved too. The shared interface between
components is thereby checked on both sides.

`FlashMap` composes the components that share the flash chip, at the grain of sectors:
updates, the selection, the settings, the SDK and the mapping. Both it and `RbootOta`
implement `AbUpdate`: `RbootOta` with every callback of the client but two slots as its whole
flash, `FlashMap` with the client reduced to a stream that may end anywhere but all that
could lie in that stream's way.

`AtServer` hands a received segment to the parser and takes the output of commands;
`AtDispatch` has what happens in between. `UartLine` watches the contact only in SOFTAP_MODE
and leaves open when that is; `WifiMode` says it (`StationAsAsked`).

### RbootOta

`up` is the `upgrade_status` structure (`rom_slot`, `conn`, `total_len`, `content_len`, the
writer's `written` and `extra_count`); `upgrade` says whether the static pointer is null,
live, or still points to a freed structure. `net[c]` is what the SDK is doing with the
espconn at address `c`: it decides which callbacks can come. `heap` is what has been
allocated, `abandoned` the addresses freed while the SDK still worked on them, with what it
was doing there.
`image[s]` is "whole" or "partial". `fault` records that a handler followed a null or freed
pointer; the model stops there, since the C program's behaviour is undefined.

Each callback is an action named after what the SDK reports (`DnsAnswer`, `Connected`,
`Received`, `Reconnect`, `Disconnected`, the two timeouts); the handlers bear the names of
the C functions and are shared the way the C functions are: `upgrade_recon_cb` and
`connect_timeout_cb` call `upgrade_disconcb`, which calls `rboot_ota_deinit`, which calls
`OtaUpdate_CallBack`. The four ways out of `rboot_ota_start` before a connection exists are
actions of their own, because each leaves the pointer and the flag differently. The HTTP
reply is a valid or an invalid header, an announced length, and body bytes.

With `LateCallbacks = TRUE` the SDK may call back for a connection that was given up: one
whose espconn `connect_timeout_cb` or the reset of another connection (`upgrade_recon_cb`)
freed, whatever the SDK was doing there (looking up, connecting, receiving), and a reset of one
that is being closed. The SDK documents none of this; both settings are checked, and each
property is claimed only where it holds. Left out is the disconnect callback of a connection
given up while open, which frees the espconn a second time.

### RbootWrite, WriteOutcomes

The stream's i-th byte is the number i, so each cell of the flash tells which byte it
holds, whether it is erased, and whether it was programmed twice. Address arithmetic is
unsigned (`AddrSpace`). A failing SPI write programs any prefix.

### BootConfig

One action per flash operation of `rboot_set_config`, with a power cut between any two and
a write that stops after any part (selected ROM, count and addresses, checksum, rest). rBoot
is external: it accepts a configuration with a right checksum and otherwise writes the
default one (`rboot.h:60-64, 147-153`). The checksum is a pair, i.e. taken to detect the
partial writes that can occur. Both callers select the ROM that does not run.

### AtServer

A slot has its connection, the list of pieces of output in its buffer, the length it
counts, and `readytosend`. `net[c]` is "open", "closed" (the disconnect callback is to
come) or "none"; `inflight[c]` was given to `espconn_sent`, `received[c]` has arrived.
`espconn_sent` is taken to copy what it is given: the code empties the buffer at once and
writes into it while the first output is still in flight (`server.c:37-38`). If the SDK keeps
the pointer instead, the client gets whatever was written there last.
Pieces are numbered in the order they were written, 0 is one that was cut off. Command
handlers are left open: a handler writes any number of pieces and returns. `Flush` is
`espbuffsent`/`espbuffsentprintf`'s common tail. Past the end of a buffer the model stops
(`InBounds`). `damage[c]` records failed sends and cut pieces for the properties.

### Settings

`flash_param` is the RAM copy, `flash` sector 0x81; both are records of the words of
`flash_param_t` (magic and version together). `pc` and `cmd` walk through
`flash_param_set` (erase, write, read back), with power cuts anywhere and writes that stop
after any word. `uart` holds the clock divider, `UART_CLK_FREQ` divided by the rate
(`Divider`; 0 for an erased word, which reads as 0xFFFFFFFF), and UART_CONF0, whose framing is
packed and unpacked by the macros of `uart.h`, bit for bit. AT BAUD with FLASH=0 and AT PORT
with the port there is already answer OK and save nothing. Arguments the commands refuse change
nothing and are not enumerated. An erase always succeeds. Four variables are history for the
properties: `hurt` (a write was ever cut short), `unsaved` (AT BAUD ran with FLASH=0 since the
last save or start), `told` (AT BAUD has set the UART since the start) and `ack` (what was last
saved and answered with OK).

### UartLine, Gpio

A handler of the task is a sequence of steps, `todo`, made of the calls it makes
(`set_gpio_mode`, `gpio_write`, waiting for a pin, arming a timer, ...). `Step` performs the
first one; `uart0_rx_intr_handler`, which nothing preempts, may come between any two.
Start-up is such a sequence too, so that the interrupt can come before `uart_init` has set
its pins. `Gpio` gives what the driver does to a pin, including what is easily overlooked: a
write makes the chip drive the pin, output mode alone does not, and GPIO16 is the other way
round and pulses only upward. `outside` are the levels that contacts, the ARM processor and a
cable give the pins the chip does not drive; they change at any moment. `crossed` is history: since
the transmitter was last enabled the interrupt came just before the step that raises INTCOM, and took
the level a cable gave it for the board's (`Crossing`). `rxfifo` says
whether something was received: no code ever reads the receive FIFO, so that once set it
stays set until the next start, and the first byte also disables the interrupt until a flash
write or `AT AP` enables it. The full and the time-out interrupt are one (their branches are
the same); an overflow is never handled, because the full interrupt is served first.

### FlashMap

`flash` says of each sector what it holds: an image, a piece of one, settings, SDK data. The
addresses are the build's: ROMs from sectors 2 and 514 (`rboot.h:147-153` with the flash size
of `main.c:21`), settings in sector 129, the SDK's areas in the sectors of `p_table`. An
update is a stream from the first sector of a slot on, which grows by any of `Cuts` and may
end inside a sector (`upgrade_recvcb_part`). It may be shorter or longer than its image, its
slot and the partition: `rboot-api.c:137` has the check that would stop it commented out, so it
goes on over the settings, the SDK's areas and, from ROM 0, into ROM 1. Only the end of the chip
stops it, where `spi_flash_write` fails. `reach` is history: how far from the start of each slot any
image or stream has come; `Apart` says with it that none has left its area yet.

`mmap` is the pair `Cache_Read_Enable_New` keeps; every action with a flash operation ends with that
function. Saving settings is erase and write with power cuts anywhere; settings whose write was cut
short are "cut", which the start may take for good ones, as `Settings` shows; anything else in their
sector, the code of an image included, is replaced. `Boot` is rBoot: the selected ROM if its image is
whole, else the other one, and none if neither is.

### WifiMode

`mode` is in force, `saved` in the SDK's flash, as are `stconf` and `apconf`. `Reached` is the
guard of every command: commands come over TCP, so somebody must have joined the board or
the board a network. `SetMode` is external: a mode without its access point drops clients. A
restart that was asked for is a state of its own (`pc = "restart"`), in which handlers still run.
`AT MODE` takes its argument modulo 256 (`uint8_t`). `asked` is history: the network
of the last `AT STA` since the start.

### AtDispatch

Lines are sequences of words, and words sequences of fragments, so that TCP can cut a line
between words, inside a word and inside CR LF; `Deliver(n)` is a segment of any length.
`config_commands` is the table in the code's order, and `Dispatch` its first entry that begins
with the given word. One of the pieces a word can be made of is `MidAT`, the AT that words like DATA
or CHAT have in them: the server sees the same two bytes, so `serverRecvCb` takes a segment that
was cut before it for a line, too. The fragment behind an AT stands for the one byte the parser skips
(it starts at `&lbuf[3]`), so no word holds ATAT. `ran` records of each parse whether it
began inside a line. `Words` scans a text fragment by fragment,
and `Spelled` is a line written out word by word; both are recursive functions, so that they can be
proved about. Any allocation of a parse may fail; those that are followed unchecked end
in an exception (`up`). `remains` is what a previous line left in memory: for a segment that is
just `AT` the parser reads behind its copy.

## Runs

Every property is paired in `PROJECT.json` with a mutant of the code's definitions that
violates it. Mutants are the definitions marked `\* mutant`; nothing else uses them.

| Run | Shows |
| --- | --- |
| `ota_safety` | Without late callbacks: the attempt in progress owns the one connection that can call back and the timer, null is never followed, no espconn is lost (all in `Ownership`), received = programmed + waiting (`Accounting`), the flag ends with the attempt (`FlagReleased`), and every attempt ends (`EveryAttemptEnds`). |
| `ota_commit` | With late callbacks, power cuts and AT SWITCH: the executing ROM stays whole (`RunningImageWhole`), success means a whole image (`CommitWhole`), and the client implements `AbUpdate` (`RefinesAbUpdate`). |
| `write_stream` | The writer stores the stream in order however it is cut, never programs a cell that is not erased, also when it starts over after a failure, and moves its counters as `RbootOta` assumes. |
| `boot_cuts` | The selection changes only inside `rboot_set_config` and only to the ROM asked for or the default; what succeeded is stored with a right checksum; the application's data survives. |
| `flash_map` | On the chip's real numbers, with images and streams of any length: who changes which sector (`WritersApart`), what of the executing ROM can be damaged, and by whom (`RomIntact`), that it stays mapped (`CodeMapped`), and that the flash as a whole implements `AbUpdate` until an image or stream leaves its area. |
| `server_output` | Output in order, complete unless a send failed or a piece was cut, and never another client's; one send at a time; buffered output goes out; slots of clients that closed come back. |
| `dispatch` | Lines that arrive whole run once, in order, as the command they name; whatever TCP makes of them, what runs is the beginning of one of them, or what follows an AT inside one of its words; a parse leaks nothing. |
| `settings_cuts` | The reported baud rate is in force, as nearly as the divider can give it, unless a cut erased it, and the reported framing from the first AT BAUD on; restarts keep settings; what was saved and answered with OK stays stored until the next save; no command or restart clears the serial number; AT BAUD changes only what it was asked to. |
| `wifi_modes` | At most one client; a station only of the network AT STA named, and then with its timer armed; the access point changes by AT AP and AT RESTORE only, to what they name. |
| `line_pins` | The board signals on INTCOM with its transmitter on, but where the interrupt crosses the raising of INTCOM while a cable holds it; the alarm byte is muted only by an earlier reception; the ARM's pin is released however a command ends; the timer that watches the contact is disarmed only on the way to sleep; a contact that stays closed raises the alarm. |
| `ota_untimed`, `server_overflow` | one disagreement each, [below](#disagreements). |

### Bounds and why they are enough

- *OTA*: three espconn addresses (two where there are late callbacks): one for the attempt
  in progress, the others for attempts that are being closed, which is what the asynchronous
  disconnect needs; more closing connections behave alike, as the handlers only compare
  an address with `up.conn`. Packets of 0, 3 and 5 bytes and lengths 4, 6, 8 and 12 split
  words, complete an image with one, two or three packets, overrun it, and announce nothing
  (0). `MaxTotal` = 13 is beyond the largest length.
- *Writer*: sectors of eight bytes are two words: calls of 1, 3 and 8 bytes end at, before
  and after a boundary and inside a word; ten bytes per session cross a boundary. Sessions
  are unlimited: each starts over the remains of the last.
- *Boot configuration*: boards set up for one and for two ROMs (`count` guards the
  selection), three values of the application's data. No bound on the number of restarts.
- *Server*: the build's one slot and one client, two addresses so that a client can be
  followed by another one on the same or another address. `MaxTx` 6 with pieces of 1 and 3
  bytes: a buffer fills after two pieces. `MaxPieces` = 4 bounds the output of a connection:
  one piece in flight, two that fill the buffer, one more that does not fit.
- *Settings*: two baud rates, the default and the highest AT BAUD takes (a divider of 16), two
  ports, five argument lists that have every length from none to three, every parity and every
  number of stop bits. Any number of commands, saves and restarts.
- *Flash map*: the sectors looked at are those where an area begins or ends, with their
  neighbours (`Boundaries`); nothing happens to one inside an area that does not happen to one
  of these, as streams are contiguous. An image of 126 sectors, the limit the `Makefile` names, and one
  of 240, the length of a partition and of `irom0_0_seg`; streams (`Cuts`) that end with these, just
  over the settings (128 from ROM 0 on), in the SDK's sectors (508 from ROM 1 on) and in ROM 1 (513 from
  ROM 0 on). The proofs are for every set of sectors, images and streams.
- *Wi-Fi*: two names and two passwords, one network that accepts one pair; nine argument
  lists for AT AP with every number of arguments, each argument at and beyond its
  limit; modes 0 to 4 and one that wraps (258). Clients are bounded by the access point
  itself (4).
- *Dispatch*: eight lines (`SomeLines`): none, commands whose names begin other names, an
  unknown one, as many words as the parser takes or one more (`MAX_ARGS` = 3 here, 65 in
  the code), and two with an AT inside a word, in its middle and at its end. Two lines a connection
  (`MaxLines`): a line cut by the segment before it, or run together with the one after; any number of
  connections and restarts.
- *Line*: everything is finite without bounds. GPIO2 stands for the pins of the chip proper
  (GPIO15 is handled by the same code), GPIO16 for the one with other registers.

### Fairness

Only `FairSpec` of `RbootOta`, `AtServer` and `UartLine` state fairness, weak unless noted.

- A timer that stays armed expires (`ConnectTimeout`, `ReceiveTimeout`): the SDK's software
  timers run from the main loop.
- The SDK answers each DNS lookup (`DnsAnswer`: it gives up by itself), completes a
  disconnect it was asked for, and performs a restart that was requested.
- A command handler returns (`Done`).
- What was acknowledged and what was closed is reported even while packets keep arriving
  (strong fairness of `Sent` and `serverDisconCb`, which are disabled while a handler runs):
  these are events in the SDK's queue, served in order.
- The task runs the handler it is in (`Step`), and a timer that has expired is served even
  while commands keep arriving (strong fairness of `PulseTimer`): also an event in the queue.

Nothing is assumed of the server at the other end, of clients, or of power.

`EveryAttemptEnds` is claimed for behaviours in which no attempt starts while an earlier
connection is still closing; `ota_untimed` shows why: the late disconnect callback disarms
the new attempt's timer. `OutputGoesOut` excludes connections with a failed send, and
`SlotRecovered` is about clients that closed, not those that ended in a TCP error.
`AlarmRaised` excludes an ARM that stays busy, for which `AT MAPA` waits without end, and
modes other than SOFTAP, in which the code does not look at the contact.

Only `flash_map` disables the deadlock check: a board on which no ROM is whole any more, as an update
of ROM 0 into ROM 1 can leave it, does not start again. In every other model something can always
happen (a restart, an end of power).

## Proofs

Eight modules hold theorems about the specifications, for *every* value of the constants that the
named assumptions of the modules allow. The runs evaluate those assumptions. Every invariant and
action property that a passing run checks is the statement of a theorem. `RbootApi_proofs` is about both
halves of `rboot-api.c` and extends `RbootWrite` and `BootConfig`; for its sake the latter's
specification is called `BootSpec`.

| Module | Theorems | Assumes besides |
| --- | --- | --- |
| `RbootOta_proofs` | `TypeCorrect`, `SlotsSafe`, `RunningImageIsWhole`, `BytesAccounted`, `FlagIsReleased` | |
| | `CommittedWhole`, `ImplementsAbUpdate` | `WordSized`: announced lengths are positive multiples of four |
| | `PointersOwned`, `NullNeverFollowed` | `~LateCallbacks` |
| `RbootApi_proofs` | `TypeCorrect`, `PrefixStored`, `NothingMixed`, `WholeWhenEnded` | |
| | `CountersAlwaysAgree` | `RomStarts`: a session begins at the start of a sector, and not of the first |
| | `BootTypeCorrect`, `SelectedRomExists`, `RestIsMaintained`, `SelectionIsTaken`, `SelectionOnlyAsAsked` | |
| `FlashMap_proofs` | `TypeCorrect`, `SlotsStayApart`, `RomStaysIntact`, `CodeStaysMapped`, `WritersStayApart`, `ImplementsAbUpdate` | |
| `AtServer_proofs` | `TypeCorrect`, `SendsOneAtATime` | |
| | `OutputInOrder` | `MaxConn = 1`, as in the build |
| `AtDispatch_proofs` | `NothingEverLeaks`, `AlwaysOwnLine`, `AlwaysWholeLines` | |
| `Settings_proofs` | `TypeCorrect`, `BaudIsReported`, `SettingsSurvive`, `OkIsStored`, `SerialIsKept`, `FramingIsKept` | |
| `WifiMode_proofs` | `TypeCorrect`, `OneClientOnly`, `StationIsAsked`, `StationIsWatched`, `ApIsKept` | |
| `UartLine_proofs` | `TypeCorrect`, `LineSignalled`, `AlarmHeard`, `ArmNotDriven`, `TimerKept` | |

**RbootOta, slots.** `RunningImageWhole` is not inductive: a write must know that its slot is
not the one that executes. `SlotSafety` adds that an attempt's `rom_slot` differs from
`running`, and, because the slot is computed from `current_rom`, that `current_rom = running`
until a restart is requested. That last part is why `AT SWITCH` during an update is harmless: it
changes `current_rom`, but requests a restart, after which no handler is assumed to run.

**RbootOta, accounting and commit.** `Accounting` is inductive by the arithmetic of
`WriteOutcomes`, proved as lemmas about `Words` and `Rest` so that no later step reasons
about `%`. For `CommitWhole` the invariant `CommitInv` adds that nothing was received
before the header (`HeaderFirst`), which needs positive lengths, and that the length waited
for is an announced one (`Announced`), so that its remainder is zero.

**RbootOta, ownership.** That a callback finds `upgrade` live, that nothing is leaked and that
null is not followed are not inductive one by one: they need that the SDK works on no other
connection, which needs that everything else allocated is closing and that the timer is armed
only for the attempt. `Ownership` is their conjunction with these facts. Each shared handler has
a lemma, and each action one case. `FlagReleased` holds also with late callbacks, since it only
relates the flag to the pointer, which the same two functions clear.

**RbootWrite.** `Inv` says of a session in progress (`Streaming`) that the bytes before
`start_addr` are the beginning of the stream, the bytes that wait the next ones, and that what
lies ahead in the sectors already erased is still erased (`Clean`). The last part is what makes
the next call safe whether or not it erases; it needs that the sector of an address is
monotone in it (`SectorOrder`) and that the address of the last byte does not wrap, except for an
empty write at address 0 (`LastSector`). That `RbootOta` may use `WriteOutcomes` instead
(`CountersAgree`) needs more than `Inv`: a call that completes no word must leave the flash alone.
The code computes the sector of the byte *before* `start_addr` then, and erases up to it. That
does nothing if that sector counts as erased, which `Ahead` says of the one before the session,
and which holds because sessions begin with a sector (`RomStarts`; `rboot.h:150-151` gives the two
addresses). From the middle of a sector such a call would erase the sector, from address 0, where
the subtraction wraps, every sector.

**BootConfig.** `Known` says what the sector, the configuration being saved and the copy about
to be written hold at each step of a save, in particular that the sector is erased exactly
between erase and write. That a sector with a right checksum is whole (`SoundIsWhole`) carries
the cases of short writes.

**FlashMap.** Nothing is assumed about the length of images and streams. The inductive invariant
`SlotsApart` joins to `RomIntact` that an update never targets the executing slot, that selection
and execution agree until a restart is requested, and that the window is the executing ROM's. While a
ROM executes, a stream into the other slot may come over it only from ROM 0 to ROM 1, and then `reach`
has recorded it. That the executing ROM is whole as long as nothing left its area needs to know where an
image in a sector came from (`Provenance`): a ROM the boot loader accepts lies in its area then, because a
longer one would have left an image in the sector behind it (`WholeFits`). For the refinement
`StreamStored` adds that what an update stored is still there when it succeeds.

*`Apart` is a condition in the properties, not something the code enforces.* The `Makefile`
(line 90) names 516096 bytes, 126 sectors, as the largest image, and with that limit it always holds.
The linker script (`rom0.ld:8`) and the partition table (`main.c:36`) allow 0xF0000 bytes, 240
sectors, and the update client any length. Then the first save of settings damages a ROM 0 that
executes, and an update of ROM 0 overwrites settings or worse; `RomIntact` and `WritersApart` say
how far that goes.

**AtServer.** `readytosend` belongs to a slot, output in flight to a connection: `Waits` says
that the slot a connection is found by is not ready while that connection has output in flight.
For `StreamInOrder`, `Client` says that received, in flight and buffered pieces together are
the output so far (`Told`). It needs one slot: with more, a slot left behind by a TCP error is
found before the one the same connection gets later.

**AtDispatch.** The three theorems rest on one invariant (`IInv`), about lines of any number of words of
any length, any `MAX_ARGS` and `MaxLines`. Its proof has three parts. *Text*: the beginning of a
spelled line, cut anywhere, has the words of the line as far as they are whole, and perhaps a
beginning of the next one, as its words (`Spelling`, `Scanned`, `Parsed`); so what the parser makes
of a segment is the line's own beginning (`Own`). What it makes of one that begins inside a line is
by definition what `InsideOf` says; the proof is that it is a part of that line, up to its end or the
cut (`FoundInside`). *Stream*: `Placed` gives each line its place among
the fragments sent, and says that `net` is what remains of them; a segment that begins with the AT of a line
therefore is the beginning of the line that is due, up to its end or to the cut, since the parser stops at
the CR in between (`PlacedSent`, `PlacedDelivered`). *Notes*: what ran so far belongs to lines in
order (`Owned`), and is exactly theirs while segments are whole lines (`Complete`). For
the table, that a name spelled out is found and not hidden by an earlier entry that begins with it is
`NoneHidden`; `AllFreed` compares the two counts of words that config_parse and
config_parse_args_free use. `Words` and `Spelled` compute by recursion over data of any length. Library
theorems of induction take an operator and cannot be used, so the module has induction for a *set*
of numbers, from the well-foundedness of `<` (`Least`, `Induction`), and proves with it that both functions
are what their definitions say (`WordsIs`, `SpelledIs`).

**Settings.** `Kept` says how the copy in RAM, the sector, the registers and what was last
answered belong together at each step of `flash_param_set`. That a rate of at most
`UART_CLK_FREQ` / 16 gets the largest divider that does not fall below it, and an erased one 0, is arithmetic on `Divider`;
`FramingIsKept` is arithmetic on the fields of UART_CONF0 (`RoundTrip`).

**WifiMode.** `Kept` adds to the three invariants that the stored limit is one client whenever
handlers run, and that nobody has joined before the start is over.

**UartLine.** What makes it hard is that the interrupt may come between any two steps.
`Handler` says which handler `todo` is the rest of (`Rest`): the start, the alarm, a command
that uses the ARM's pin, or another one; that a command never looks like the alarm before its
last step is a lemma (`AlarmApart`). `Line` then says for each point of the alarm what the
interrupt may have left of the two pins of the line: before the step that raises INTCOM
(`BeforeRaise`) the transmitter is on exactly unless the interrupt crossed that step (`crossed`),
and while the timer is armed INTCOM is held only between that step and the one that disarms it
(`HeldByAlarm`).

**Refinement.** In both `ImplementsAbUpdate` initial states map to initial states, and every
step is shown to be a step of `AbUpdate` (begin, store, succeed, switch, start, lose the selection) or a
stutter.

Only model-checked: liveness (`EveryAttemptEnds`, `OutputGoesOut`, `SlotRecovered`,
`AlarmRaised`), which like `ENABLED` is out of the proof system's reach. No module declares a
`RECURSIVE` operator.

## Disagreements

Two are runs that TLC ends with a counterexample, listed under "findings" with the
quoted text:

1. `ota_untimed` — the disconnect callback of an earlier attempt disarms the timer of the
   one in progress, which may then wait for ever.
2. `server_overflow` — `espbuffsentprintf` keeps the result of `vsnprintf` in an unsigned
   variable; output that does not fit is counted as if it did, and the length passes the end
   of the buffer.

Seen in the models, where no run of its own is spent on it:

- A failed DNS lookup in `rboot_ota_start` frees everything but leaves the upgrade flag at
  START: later `AT OTA` commands are refused until a restart (`FlagReleased` has the exception).
- The slot of a connection that ended in a TCP error is never freed; with one slot no client is
  served until a restart (`SlotRecovered` is about clients that closed).
- The saved framing is not applied at start-up, and AT BAUD reports it (`BaudReported` says when the
  two agree).
- AT BAUD answers OK with FLASH=0, too, when it saves nothing (`config.c:163-164`; `OkMeansStored`
  says what an OK to a save is worth).
- "If it fails, it ensures that the module is in STA+AP mode so the user has a chance to
  recover" (`config.c:238-240`, also `config.c:32`): `resetTimerCb` only ever turns the access
  point off. After AT STA of a network that does not accept the board nobody can reach it until
  power is cut (`WifiMode`: `Reached` stays false).
- A line that arrives in two segments runs as an abbreviation of itself (`AT SWI` runs SWITCH),
  and of two lines in one segment only the first runs. `WholeLinesRun` claims nothing then;
  `RunsOwnLine` says what remains true.
- A line that is cut just before an AT inside a word runs from there on: `AT AP CHAT INFO` cut after
  `CH` runs AP with what it had, and then INFO (`InsideOf` in `RunsOwnLine`).
- A segment that is just `AT` is parsed from the byte behind its copy, and may run what an
  earlier line left there (`replay`).
- With more than 127 sectors an image in ROM 0 and the settings overwrite each other, and a longer
  stream goes on over whatever lies behind (see `Apart`).
- AT AP with a password and no authmode keeps the authmode OPEN of an earlier AT AP without a
  password: the access point has a password and does not ask for it.
- The client never calls `rboot_write_end`: the last one to three bytes of an image whose
  length is not a multiple of four are not written, and success is reported (`WordSized`
  excludes such lengths from `CommitWhole`).
- "INTCOM em alta - comando foi enviado" (`uart.c:275`): INTCOM is also high while the alarm
  byte is still waiting. If something had been received before, the interrupt turns the
  transmitter off and the byte is not heard (`MutedByReception` has the exception). With a
  cable on INTCOM it can also leave INTCOM raised with the transmitter off (`TxWhileHolding` names
  the one place).
- Nothing reads the receive FIFO, and `uart_rx_intr_enable` is never called.
- A failed start leaves `upgrade` pointing to the freed structure, which the disconnect
  callback of an earlier attempt reads (`StartNoConn`, `StartDnsError`, `fault`).
- With late callbacks a connection that was given up can call a handler that follows a null
  `upgrade`; `Ownership` holds only without them.
- "Content-Length: 0" ends an update as a success with nothing written (`WordSized` excludes
  it).
- `rboot_write_end` leaves `extra_count` set, so that the status still reports outstanding
  bytes, and pads with a copy of them.
- After one failed `espconn_sent` a connection never sends again (`OutputGoesOut` has the
  exception).
- `rboot_set_config` returns true whatever the flash operations returned (`SelectionTakes`
  holds only as long as no write was cut short).
- A settings sector whose write was cut after the first words passes the test of magic and
  version; the device then runs with erased fields, with a UART divider of 0 among them (`BaudReported`).

## Not modelled

- *Text*: HTTP header parsing and formatting of replies. The models distinguish only what the
  control flow does. `AtDispatch` cuts words into fragments, not into characters.
- *The SDK, the flash chip and rBoot*: modelled from how the code uses them, and marked
  external in the map. Wear, bit errors and failing erases are left out.
- *The bytes of the heap*: `setOtaHostIp` stores a pointer to an argument that is freed when
  the command returns (`rboot-ota.c:199`), in every order of events. `AtDispatch` has that the
  argument is freed; what the request then contains depends on the allocator.
- *Handlers after `system_restart`*: `WifiMode` lets them run until the restart comes, the
  models of the update and of the settings assume that none does. Should one run, an `AT OTA`
  right after an `AT SWITCH` would aim at the slot that executes.
- *RTC functions of rBoot*: not compiled in.
- *GPIO interrupts* (`intr_callback` does nothing), and the functions of `uart.c` that nothing
  calls: `uart0_sendStr`, `uart0_send`, `uart_init_2`, the `UART_Set...` family.
- *`reassTimerCb`* (`config.c`), which is never scheduled.
- *The first start of a board*, on which `flash_param_init` writes the settings and thereby
  enables the UART interrupt before `uart_init` has installed its handler.
- *Information commands*: they print what the SDK reports or set one register; LOGALARM and
  DEEP hand over to the SDK. There is no state to relate to anything.
- *Build files, linker scripts, binaries*: no behaviour; the numbers they fix are in `FlashMap`.

## Plan

What is left, in this order:

1. Handlers between a requested restart and the restart itself in `RbootOta` and `FlashMap`,
   with the properties that then still hold.
2. `AtServer` for pools of more than one slot with the TCP error path repaired: what `Client`
   becomes then.
