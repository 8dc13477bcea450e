----------------------------- MODULE MCAtServer -----------------------------
(***************************************************************************)
(* The build's pool of one slot for one client, two addresses so that a    *)
(* client can follow on another, and a transmit buffer that two pieces of  *)
(* output fill.                                                            *)
(***************************************************************************)
EXTENDS AtServer

CONSTANTS c1, c2

TwoConns == {c1, c2}
TwoLens  == {1, 3}
=============================================================================
