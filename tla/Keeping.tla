------------------------------- MODULE Keeping -------------------------------
(***************************************************************************)
(* The loop that keeps some rows of a batch, in their order:                *)
(*                                                                          *)
(*   kept = []                                                              *)
(*   for idx, row in enumerate(batch):                                      *)
(*       if ...: kept.append(idx)                                           *)
(*   batch = batch[kept]                                                    *)
(*                                                                          *)
(* It is defined by the ranks of the positions, and not with SelectSeq, of  *)
(* which the proof system has no definition.                                *)
(***************************************************************************)
EXTENDS Integers, FiniteSets

\* Which of the positions I is the n-th, n counted from 1.
Rank(I, i)     == Cardinality({j \in I : j <= i})
Position(I, n) == CHOOSE i \in I : Rank(I, i) = n

\* The elements of s at the positions I.
Retained(s, I) == [n \in 1..Cardinality(I) |-> s[Position(I, n)]]
=============================================================================
