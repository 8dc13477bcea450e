---------------------------- MODULE MCFlashMap ------------------------------
(***************************************************************************)
(* The chip's real numbers, at the sectors where one area ends and another *)
(* begins; an image of 126 sectors, the limit the Makefile names, and one  *)
(* of 240, as long as a partition of main.c; streams that end with these,  *)
(* and that go just over the settings (128 from ROM 0 on), into the SDK's  *)
(* sectors (508 from ROM 1 on) and into ROM 1 (513 from ROM 0 on).         *)
(***************************************************************************)
EXTENDS FlashMap

CONSTANTS small, full

Boundaries == {1, 2, 127, 129, 241, 251, 513, 514, 639, 753, 1021}

TwoImages == {small, full}
SizeOf == [i \in TwoImages |-> IF i = small THEN 126 ELSE 240]
SomeCuts == {126, 128, 240, 508, 513}
=============================================================================
