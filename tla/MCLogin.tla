------------------------------ MODULE MCLogin ------------------------------
(***************************************************************************)
(* Instances of Login, and of the store, for TLC.                          *)
(***************************************************************************)
EXTENDS Login

CONSTANTS m1, m2, m3, m4, bot1, configured, builtin
=============================================================================
