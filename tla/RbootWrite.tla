----------------------------- MODULE RbootWrite -----------------------------
(***************************************************************************)
(* The flash writer of rboot-api.c, byte by byte, on a flash of sectors.   *)
(* A session is rboot_write_init, any number of rboot_write_flash calls    *)
(* and rboot_write_end; it writes a stream whose i-th byte is the number   *)
(* i, so that every cell of the flash tells which byte it holds.           *)
(***************************************************************************)
EXTENDS Integers, Sequences, WriteOutcomes

CONSTANTS
    SectorSize,   \* bytes that are erased together, a multiple of four
    Sectors,      \* sectors of the flash
    AddrSpace,    \* addresses are computed modulo this (2^32 in the code)
    Starts,       \* addresses rboot_write_init is given
    ChunkLens,    \* bytes handed to one rboot_write_flash call
    MaxFed        \* bound: bytes handed over in one session

ASSUME WriterAssumption ==
    /\ SectorSize \in Nat \ {0} /\ SectorSize % 4 = 0
    /\ Sectors \in Nat \ {0}
    /\ MaxFed \in Nat
    /\ AddrSpace \in Nat /\ AddrSpace >= Sectors * SectorSize + MaxFed + 4
    /\ Starts \subseteq 0 .. (Sectors * SectorSize - 1)
    /\ ChunkLens \subseteq Nat \ {0}

VARIABLES
    flash,               \* what each cell holds
    start_addr,          \* where the next word goes
    last_sector_erased,  \* sectors up to this one have been erased
    extra_bytes,         \* bytes that do not fill a word yet (extra_count of them)
    base,                \* the address the session was started with
    fed,                 \* bytes handed over in this session
    phase                \* "idle", "writing", "failed", "ended"

status == <<start_addr, last_sector_erased, extra_bytes>>
vars   == <<flash, status, base, fed, phase>>

Addrs  == 0 .. (Sectors * SectorSize - 1)
Sector(a) == a \div SectorSize

\* Contents of a cell that are not a byte of the stream.
Erased == 0
Old    == -1    \* what was there before
Pad    == -2    \* the 0xff rboot_write_end fills up with
Mixed  == -3    \* programmed twice without an erase in between

Cells == Mixed .. MaxFed

TypeOK ==
    /\ flash \in [Addrs -> Cells]
    /\ start_addr \in 0 .. Sectors * SectorSize
    /\ last_sector_erased \in -1 .. AddrSpace
    /\ extra_bytes \in Seq(Pad .. MaxFed) /\ Len(extra_bytes) <= 3
    /\ base \in Starts \cup {0}
    /\ fed \in 0..MaxFed
    /\ phase \in {"idle", "writing", "failed", "ended"}

-----------------------------------------------------------------------------

\* rboot_write_init.
first_erased_too_late(addr) == Sector(addr)                    \* mutant
first_erased(addr) == Sector(addr) - 1

rboot_write_init(addr) ==
    /\ start_addr' = addr
    /\ last_sector_erased' = first_erased(addr)
    /\ extra_bytes' = <<>>
    /\ base' = addr
    /\ fed' = 0
    /\ phase' = "writing"
    /\ UNCHANGED flash

\* The last sector a write of len bytes reaches; the subtraction is unsigned.
lastsect(len) == Sector((start_addr + len - 1 + AddrSpace) % AddrSpace)

\* Joins the bytes left over from the last call with the new ones.
joined_new_first(data) == data \o extra_bytes                  \* mutant
joined_forgotten(data) == data                                 \* mutant
joined(data) == extra_bytes \o data

erased_to(len) ==
    IF lastsect(len) > last_sector_erased THEN lastsect(len) ELSE last_sector_erased

\* The flash with the needed sectors erased and n bytes of buffer programmed.
Programmed(buffer, len, n) ==
    [a \in Addrs |->
        LET now == IF Sector(a) \in last_sector_erased + 1 .. erased_to(len)
                   THEN Erased ELSE flash[a]
        IN IF a \in start_addr .. start_addr + n - 1
           THEN IF now = Erased THEN buffer[a - start_addr + 1] ELSE Mixed
           ELSE now]

\* rboot_write_flash with at least one byte.  There may be no RAM for the buffer;
\* the SDK's write fails when it leaves the flash, and may fail after any byte.
rboot_write_flash(data, ret) ==
    \/ /\ ret = "no_ram"
       /\ UNCHANGED <<flash, status>>
    \/ \E len \in {Words(Len(joined(data)))} :
          /\ extra_bytes' = SubSeq(joined(data), len + 1, Len(joined(data)))
          /\ last_sector_erased' = erased_to(len)
          /\ \/ /\ ret = "ok"
                /\ start_addr + len <= Sectors * SectorSize
                /\ flash' = Programmed(joined(data), len, len)
                /\ start_addr' = start_addr + len
             \/ /\ ret = "spi_error"
                /\ \E n \in 0..len : flash' = Programmed(joined(data), len, n)
                /\ UNCHANGED start_addr

Returns == {"ok", "no_ram", "spi_error"}

\* The caller hands over the next bytes of the stream and gives up on an error,
\* as the OTA client does.
Write(n, ret) ==
    /\ phase = "writing" /\ fed + n <= MaxFed
    /\ rboot_write_flash([i \in 1..n |-> fed + i], ret)
    /\ fed' = fed + n
    /\ phase' = IF ret = "ok" THEN "writing" ELSE "failed"
    /\ UNCHANGED base

\* rboot_write_end hands the left-over bytes, padded to a word, to the writer
\* again, which still holds them.
padded == [i \in 1..4 |-> IF i <= Len(extra_bytes) THEN extra_bytes[i] ELSE Pad]

rboot_write_end_skipped(ret) ==                                \* mutant
    /\ phase = "writing" /\ ret = "ok" /\ phase' = "ended"
    /\ UNCHANGED <<flash, status, base, fed>>

rboot_write_end(ret) ==
    /\ phase = "writing"
    /\ IF extra_bytes = <<>>
       THEN ret = "ok" /\ UNCHANGED <<flash, status>>
       ELSE rboot_write_flash(padded, ret)
    /\ phase' = IF ret = "ok" THEN "ended" ELSE "failed"
    /\ UNCHANGED <<base, fed>>

-----------------------------------------------------------------------------

Init ==
    /\ flash = [a \in Addrs |-> Old]
    /\ start_addr = 0 /\ last_sector_erased = -1 /\ extra_bytes = <<>>
    /\ base = 0 /\ fed = 0 /\ phase = "idle"

Next ==
    \/ \E addr \in Starts : rboot_write_init(addr)
    \/ \E n \in ChunkLens, ret \in Returns : Write(n, ret)
    \/ \E ret \in Returns : rboot_write_end(ret)

Spec == Init /\ [][Next]_vars

-----------------------------------------------------------------------------
(******************************** Properties *******************************)

Written == start_addr - base

\* However the stream was cut into calls, what has been written so far is its
\* beginning, in order, and the bytes kept in extra_bytes are the ones that follow.
StoredPrefix ==
    phase = "writing" =>
        /\ \A i \in 1..Written : flash[base + i - 1] = i
        /\ extra_bytes = [i \in 1..(fed - Written) |-> Written + i]

\* No cell is programmed twice without an erase in between, also when a failed
\* session is started again over its own remains.
NeverMixed == \A a \in Addrs : flash[a] # Mixed

\* After rboot_write_end reports success every byte handed over is in the flash.
WholeAfterEnd == phase = "ended" => \A i \in 1..fed : flash[base + i - 1] = i

\* The counters move as the OTA client's model assumes.
CountersAgree ==
    [][\A n \in ChunkLens, ret \in Returns : Write(n, ret) =>
          \E w \in WriteOutcomes([written |-> Written,
                                  extra_count |-> Len(extra_bytes)], n) :
             /\ w.ret = ret
             /\ w.written = start_addr' - base
             /\ w.extra_count = Len(extra_bytes')
             /\ w.touched = 0 => flash' = flash]_vars
=============================================================================
