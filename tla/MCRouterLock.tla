---------------------------- MODULE MCRouterLock ----------------------------
(***************************************************************************)
(* Instances of RouterLock for TLC.  A number of a command is its time in  *)
(* steps of 30 seconds; four bytes are the limit of an output.             *)
(***************************************************************************)
EXTENDS RouterLock

CONSTANTS a1, a2, w1, w2, w3, w4

MCTexts == {<<"use", a1>>, <<"use", a2>>, <<"status">>, <<"cmd">>,
            <<"cmd", "sleep">>, <<"cmd", "reboot">>,
            <<"cmd", "timeout", "90", "sleep">>, <<"cmd", "timeout", "x", "sleep">>,
            <<"cmd", "timeout", "90">>}

MCSeconds == [n \in {"90"} |-> 3]

MCOutputs == {<<1, 1>>, <<2, 2, 1>>, <<3, 3>>}
=============================================================================
