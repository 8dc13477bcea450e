---------------------------- MODULE MCRbootWrite ----------------------------
(***************************************************************************)
(* A flash of four sectors of eight bytes; a session covers up to ten      *)
(* bytes from a sector boundary, so that it crosses one, ends inside a     *)
(* word, and is started over after a failure.                              *)
(***************************************************************************)
EXTENDS RbootWrite

FromSecondSector == {8}
Chunks           == {1, 3, 8}
=============================================================================
