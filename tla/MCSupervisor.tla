----------------------------- MODULE MCSupervisor -----------------------------
(***************************************************************************)
(* Model values for Supervisor: ra and rb are the first replicas, rn a      *)
(* replacement.                                                             *)
(***************************************************************************)
EXTENDS Supervisor

CONSTANTS ra, rb, rn

AB    == {ra, rb}
AN    == {ra, rn}
ABN   == {ra, rb, rn}
=============================================================================
