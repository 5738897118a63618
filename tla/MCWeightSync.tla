---------------------------- MODULE MCWeightSync ----------------------------
(***************************************************************************)
(* Model values for WeightSync: ra and rb are the replicas of the job, rn a *)
(* replacement the Supervisor may spawn, rs a replica added for scale-out,  *)
(* and actors the training-side worker group.                               *)
(***************************************************************************)
EXTENDS WeightSync

CONSTANTS ra, rb, rn, rs, actors

JustA      == {ra}
Pair       == {ra, rb}
SpareScale == {ra, rn, rs}
JustS      == {rs}
PairScale  == {ra, rs}
=============================================================================
