------------------------- MODULE MCValidationResume -------------------------
(***************************************************************************)
(* A dataset of three chunks for ValidationResume: prompt a is in two       *)
(* chunks, prompt d twice in one.                                           *)
(***************************************************************************)
EXTENDS ValidationResume

CONSTANTS a, b, c, d

ThreeChunks == <<<<a, b>>, <<c, a>>, <<d, d>>>>
=============================================================================
