---------------------------- MODULE MCTokenRecovery ----------------------------
(* Instances of TokenRecovery for TLC: see the cfg files for the bounds.     *)
EXTENDS TokenRecovery
=============================================================================
