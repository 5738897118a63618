--------------------------- MODULE MCRequestRouting ---------------------------
(***************************************************************************)
(* Model values for RequestRouting: x is the first server, z a replacement; *)
(* p and q are conversations.                                               *)
(***************************************************************************)
EXTENDS RequestRouting

CONSTANTS x, z, p, q

JustX    == {x}
XZ       == {x, z}
JustP    == {p}
PQ       == {p, q}
=============================================================================
