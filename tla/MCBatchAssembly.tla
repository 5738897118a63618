--------------------------- MODULE MCBatchAssembly ---------------------------
(***************************************************************************)
(* BatchAssembly with a few kinds of rows and configurations of the filter. *)
(***************************************************************************)
EXTENDS BatchAssembly

\* Short and long successes, a long failure, a short one that a gate rejects.
RowKinds ==
  << [reward |-> 1, length |-> 1, stable |-> TRUE],
     [reward |-> 1, length |-> 2, stable |-> TRUE],
     [reward |-> 0, length |-> 2, stable |-> TRUE],
     [reward |-> 0, length |-> 1, stable |-> FALSE] >>

\* Groups of four rows for a target of three: the rows of a group are cut.
Oversampling ==
  [strategy |-> "efficiency", groupSize |-> 3, minSize |-> 2, groups |-> 1,
   twoGates |-> TRUE, lowVariance |-> TRUE, removeClip |-> TRUE,
   maxLength |-> 2, minShort |-> 0, threshold |-> 0]

\* As many rows as the target: groups are rejected whole or by their successes.
NoOversampling ==
  [Oversampling EXCEPT !.groupSize = 4, !.minSize = 3, !.groups = 0,
                       !.minShort = 2, !.threshold = 1, !.lowVariance = FALSE]

FilterConfigs ==
  {Oversampling, NoOversampling,
   [Oversampling EXCEPT !.strategy = "efficiency_stochastic", !.twoGates = FALSE],
   [Oversampling EXCEPT !.strategy = "uniform", !.removeClip = FALSE]}
=============================================================================
