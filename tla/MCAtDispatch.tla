--------------------------- MODULE MCAtDispatch -----------------------------
(***************************************************************************)
(* Lines with no word, with a command whose name begins another's, with a  *)
(* command that is a table's entry only as an abbreviation, with an        *)
(* unknown one, with as many words as the parser takes or one more, and    *)
(* with an AT inside a word: in its middle (DATA) and at its end (CHAT),   *)
(* before a word that is a command.                                        *)
(***************************************************************************)
EXTENDS AtDispatch

SomeLines ==
    { <<>>,
      << <<"F", "LASH">>, <<"1">> >>,
      << <<"R", "ES", "ET", "DSP">> >>,
      << <<"S", "WITCH">> >>,
      << <<"O", "TA">>, <<"host", "name">>, <<"80">> >>,
      << <<"AP">>, <<"CH", MidAT>>, <<"I", "NFO">>, <<"4">> >>,
      << <<"S", "TA">>, <<"D", MidAT, "A">>, <<"password">> >>,
      << <<"X">> >> }
=============================================================================
