------------------------------ MODULE MCTempDb ------------------------------
(***************************************************************************)
(* M8TempDb on a small shadow instance for TLC.  What is checked includes  *)
(* liveness, so that there is no symmetry to use.                          *)
(***************************************************************************)
EXTENDS M8TempDb
=============================================================================
