--------------------------- MODULE WriteOutcomes ---------------------------
(***************************************************************************)
(* What one call of rboot_write_flash (rboot-api.c) does to its counters.  *)
(* RbootOta uses these outcomes; RbootWrite models the writer byte by byte *)
(* and is checked to produce no others.                                    *)
(***************************************************************************)
EXTENDS Naturals

\* The part of n bytes that fills whole words, the only part that is programmed.
Words_rounded_up(n) == n + 3 - ((n + 3) % 4)      \* mutant
Words(n) == n - (n % 4)

\* The bytes that wait for the next call.
Rest(n) == n % 4

\* Every outcome of handing len bytes to the writer: bytes are programmed in
\* words of four, the remainder waits in extra_bytes.  Without a buffer the
\* status is untouched; when programming fails the remainder has already been
\* replaced and the sectors under `touched` bytes are already erased.
WriteOutcomes(u, len) ==
    LET have  == u.extra_count + len
        words == Words(have)
    IN IF len = 0
       THEN {[ret |-> "ok", written |-> u.written,
              extra_count |-> u.extra_count, touched |-> 0]}
       ELSE {[ret |-> "ok", written |-> u.written + words,
              extra_count |-> Rest(have), touched |-> words],
             [ret |-> "no_ram", written |-> u.written,
              extra_count |-> u.extra_count, touched |-> 0],
             [ret |-> "spi_error", written |-> u.written,
              extra_count |-> Rest(have), touched |-> words]}
=============================================================================
