---------------------------- MODULE MCProgressStore ----------------------------
(* Instances of ProgressStore for TLC: see the cfg files for the bounds.     *)
EXTENDS ProgressStore
=============================================================================
