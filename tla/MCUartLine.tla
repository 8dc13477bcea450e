----------------------------- MODULE MCUartLine -----------------------------
(***************************************************************************)
(* The line, the contacts and the ARM's pin, with GPIO2 for the pins of    *)
(* the chip proper and GPIO16 for the one of the RTC.                      *)
(***************************************************************************)
EXTENDS UartLine

TwoCommandPins == {"GPIO2", "GPIO16"}
=============================================================================
