-------------------------- MODULE MCTokenContinuation --------------------------
(* Instances of TokenContinuation for TLC: see the cfg files for the bounds. *)
EXTENDS TokenContinuation
=============================================================================
