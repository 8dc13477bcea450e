----------------------------- MODULE MCRbootOta -----------------------------
(***************************************************************************)
(* Small instances of RbootOta for TLC.  The lengths are chosen so that a  *)
(* word can be split between packets, an image can be complete after one   *)
(* or two packets, and a server can send more than it announced.           *)
(***************************************************************************)
EXTENDS RbootOta

CONSTANTS c1, c2, c3

TwoConns   == {c1, c2}
ThreeConns == {c1, c2, c3}

\* Body bytes per packet; a header can arrive without any.
SomeChunks == {0, 3, 5}

\* Announced lengths that are whole words, and ones that are not.
WordLens == {4, 8, 12}
AnyLens  == {0, 4, 6, 8}
=============================================================================
