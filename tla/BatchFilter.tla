----------------------------- MODULE BatchFilter -----------------------------
(***************************************************************************)
(* The batch filter of drkernel, PPOBatchFilter: which rows of a batch one  *)
(* call may select.  A choice that the code draws at random, or leaves to   *)
(* the order in which a sort returns equal keys, is a set of outcomes.      *)
(*                                                                          *)
(* A batch is a function from row numbers to rows.  A row has a uid, a      *)
(* reward, the length of its response, and whether the two precision gates  *)
(* accept it; log probabilities enter only through that.  Rewards are       *)
(* integers, so a group whose standard deviation is under 1e-3 is one whose *)
(* rewards are equal.                                                       *)
(*                                                                          *)
(* c is a PPOFilterConfig.  "None" is 0 for groups and maxLength, 0 for     *)
(* minShort, and a number under all rewards for threshold.                  *)
(***************************************************************************)
EXTENDS Integers, FiniteSets

FilterConfig(c) ==
  /\ c.strategy \in {"uniform", "efficiency", "efficiency_stochastic"}
  /\ c.groupSize \in Nat \ {0}        \* target_group_size
  /\ c.minSize \in Nat                \* min_group_size
  /\ c.minSize > c.groupSize \div 2
  /\ c.groups \in Nat                 \* target_num_groups
  /\ {c.twoGates, c.lowVariance, c.removeClip} \subseteq BOOLEAN
  /\ {c.maxLength, c.minShort} \subseteq Nat
  /\ c.threshold \in Int              \* reward_threshold

Uids(rows)     == {rows[i].uid : i \in DOMAIN rows}
Group(rows, u) == {i \in DOMAIN rows : rows[i].uid = u}
Subsets(S, k)  == {s \in SUBSET S : Cardinality(s) = k}

-----------------------------------------------------------------------------
(***************************************************************************)
(* Rows and groups that remain.                                             *)
(***************************************************************************)

Oversampled(c, rows) ==
  \E u \in Uids(rows) : Cardinality(Group(rows, u)) > c.groupSize

\* Stages 0 and 2: the gates are asked only when there are rows to spare.  The
\* groups that they leave too small fall to Selectable.
Valid(c, rows) ==
  LET rewarded == {i \in DOMAIN rows : rows[i].reward >= c.threshold}
  IN  IF c.twoGates /\ Oversampled(c, rows) THEN {i \in rewarded : rows[i].stable}
      ELSE rewarded

\* Stage 1, on the rows of the group before anything was filtered.
LowVariance(c, rows, u) ==
  /\ c.lowVariance
  /\ Cardinality(Group(rows, u)) > 1
  /\ \A i, j \in Group(rows, u) : rows[i].reward = rows[j].reward

OverLong(c, rows, u) ==
  LET short == {i \in Group(rows, u) : rows[i].length < c.maxLength}
  IN  /\ c.removeClip /\ c.maxLength > 0
      /\ short = {} \/ Cardinality(short) < c.minShort

Remaining(c, rows, u) == Group(rows, u) \cap Valid(c, rows)

Selectable(c, rows) ==
  {u \in Uids(rows) :
     /\ ~LowVariance(c, rows, u)
     /\ ~OverLong(c, rows, u)
     /\ Cardinality(Remaining(c, rows, u)) >= c.minSize}

\* Groups of exactly groupSize rows come first.  A larger group counts as
\* incomplete, although rows would be selected from it.
ChosenGroups(c, rows) ==
  LET all  == Selectable(c, rows)
      full == {u \in all : Cardinality(Remaining(c, rows, u)) = c.groupSize}
  IN  IF c.groups = 0 \/ Cardinality(all) <= c.groups THEN {all}
      ELSE IF Cardinality(full) >= c.groups THEN Subsets(full, c.groups)
      ELSE {full \cup s : s \in Subsets(all \ full, c.groups - Cardinality(full))}

-----------------------------------------------------------------------------
(***************************************************************************)
(* Rows of a group that has more than groupSize of them.                    *)
(***************************************************************************)

\* How many of T rows are positive, out of p positive and n negative ones:
\* round(T * p / (p + n)), with one row kept for the minority.  Python rounds
\* a tie to even, but the quotient is a float, so a tie may go either way.
PositiveCounts(T, p, n) ==
  IF p = 0 THEN {0}
  ELSE IF n = 0 THEN {T}
  ELSE {IF T = 1 THEN 0 ELSE IF k = 0 THEN 1 ELSE IF k = T THEN T - 1 ELSE k :
          k \in {k \in 0..T : /\ 2 * (T * p) - 2 * (k * (p + n)) <= p + n
                              /\ 2 * (k * (p + n)) - 2 * (T * p) <= p + n}}

\* reward / length of row i is above that of row j.
MoreEfficient(rows, i, j) ==
  rows[i].reward * rows[j].length > rows[j].reward * rows[i].length

Positive(rows, g) == {i \in g : rows[i].reward > 0}
Negative(rows, g) == {i \in g : rows[i].reward <= 0}

\* s are k of S, or all of them if there are fewer: the positive rows of highest
\* efficiency, the shortest negative ones; any, when rows are drawn with weights.
Picked(c, rows, S, k, s) ==
  /\ Cardinality(s) = IF Cardinality(S) <= k THEN Cardinality(S) ELSE k
  /\ c.strategy = "efficiency" =>
       \A i \in s, j \in S \ s :
         /\ rows[i].reward > 0 => ~MoreEfficient(rows, j, i)
         /\ rows[i].reward <= 0 => rows[i].length <= rows[j].length

SelectSamples(c, rows, g) ==
  IF c.strategy = "uniform" THEN Subsets(g, c.groupSize)
  ELSE LET pos    == Positive(rows, g)
           neg    == Negative(rows, g)
           counts == PositiveCounts(c.groupSize, Cardinality(pos), Cardinality(neg))
       IN  {s \in SUBSET g :
              \E k \in counts :
                /\ Picked(c, rows, pos, k, s \cap pos)
                /\ Picked(c, rows, neg, c.groupSize - k, s \cap neg)}

Selections(c, rows, u) ==
  LET g == Remaining(c, rows, u)
  IN  IF Cardinality(g) > c.groupSize THEN SelectSamples(c, rows, g) ELSE {g}

-----------------------------------------------------------------------------

\* The sets of rows that filter_batch may return: of each chosen group the rows
\* of one of its selections.
FilterOutcomes(c, rows) ==
  UNION {LET of == [u \in G |-> Selections(c, rows, u)]
             choices == {f \in [G -> UNION {of[u] : u \in G}] :
                           \A u \in G : f[u] \in of[u]}
         IN  {UNION {f[u] : u \in G} : f \in choices} :
         G \in ChosenGroups(c, rows)}

\* filter_dataproto and the trainer: an empty selection leaves the batch as it is.
FilterBatch(c, rows) == {IF S = {} THEN DOMAIN rows ELSE S : S \in FilterOutcomes(c, rows)}

\* Output guarantees of the filter: at most groups groups, each of at least
\* minSize rows (of groupSize, should minSize be above it) and at most groupSize.
Guaranteed(c, rows, S) ==
  LET uids == {u \in Uids(rows) : S \cap Group(rows, u) # {}}
  IN  /\ c.groups > 0 => Cardinality(uids) <= c.groups
      /\ \A u \in uids :
           LET size == Cardinality(S \cap Group(rows, u))
           IN  /\ size <= c.groupSize
               /\ size >= c.minSize \/ size = c.groupSize
=============================================================================
