---------------------------- MODULE MCBootConfig ----------------------------
(***************************************************************************)
(* Boards set up for one ROM and for two, with and without data of the     *)
(* application in the sector of the boot configuration.                    *)
(***************************************************************************)
EXTENDS BootConfig

CONSTANTS d1, d2

OneOrTwo == {1, 2}
SomeData == {d1, d2, Unwritten}
=============================================================================
