---------------------------- MODULE MCSendPath ----------------------------
(***************************************************************************)
(* Instances of SendPath for TLC.                                          *)
(***************************************************************************)
EXTENDS SendPath

CONSTANTS loop, processor, u1, u2

\* 1, 2, 4 and 8 s, in units of 8 s.
BackoffDelays == <<0, 0, 1, 1>>
=============================================================================
