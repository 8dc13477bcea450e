----------------------------- MODULE MCSettings -----------------------------
(***************************************************************************)
(* The default baud rate and the highest AT BAUD accepts, two ports, and   *)
(* framings that use every parity, every number of stop bits and every     *)
(* number of missing arguments.                                            *)
(***************************************************************************)
EXTENDS Settings

TwoBauds == {115200, 5000000}
TwoPorts == {21, 23}

SomeFramings == {<<>>, <<2>>, <<3, 2>>, <<3, 1, 2>>, <<2, 0, 3>>}
=============================================================================
