---------------------------- MODULE MCWifiMode ------------------------------
(***************************************************************************)
(* Two names and two passwords, of which one network accepts one pair; AT  *)
(* AP with every number of arguments, at and beyond the limits of each.    *)
(***************************************************************************)
EXTENDS WifiMode

Names == {"home", "field"}
Words == {"right", "wrong"}
Around == {<<"home", "right">>}

SomeApArgs ==
    {<<"home">>, <<"home", "right">>, <<"field", "wrong", 4>>, <<"home", "right", 5>>,
     <<"field", "right", 1, 1>>, <<"home", "wrong", 1, 2>>,
     <<"home", "right", 4, 0, 13>>, <<"field", "wrong", 1, 1, 14>>,
     <<"home", "right", 4, 0, 1, 0>>}

SomeModeArgs == {0, 1, 2, 3, 4, 258}
=============================================================================
