--------------------------- MODULE MCKernelRollout ---------------------------
(***************************************************************************)
(* KernelRollout on the instance of the configuration.                      *)
(***************************************************************************)
EXTENDS KernelRollout
=============================================================================
