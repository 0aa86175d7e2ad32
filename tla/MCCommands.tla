----------------------------- MODULE MCCommands -----------------------------
(***************************************************************************)
(* Instances of Commands for TLC: the calls of MCRecovery.                 *)
(***************************************************************************)
EXTENDS Commands, MCRecovery
=============================================================================
