----------------------------- MODULE MCRestarts -----------------------------
(***************************************************************************)
(* Instances of Restarts for TLC.                                          *)
(***************************************************************************)
EXTENDS Restarts, MCVanzelf
=============================================================================
