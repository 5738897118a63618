------------------------- MODULE MCDynamicSampling -------------------------
(***************************************************************************)
(* DynamicSampling on the instance of the configuration.                    *)
(***************************************************************************)
EXTENDS DynamicSampling

\* What the rows retained are: those SelectSeq selects.
ASSUME RetainedIsSelected ==
  \A n \in 0..4 : \A s \in [1..n -> 1..3], S \in SUBSET (1..3) :
    Retained(s, {i \in 1..n : s[i] \in S}) = SelectSeq(s, LAMBDA x : x \in S)
=============================================================================
