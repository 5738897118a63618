------------------------ MODULE DynamicSampling_proofs ------------------------
(***************************************************************************)
(* Theorems about DynamicSampling, for batches of any size, any number of  *)
(* rollouts, steps, epochs and restarts, and any rewards and scores.       *)
(*                                                                         *)
(* The difficulty is in the rows: a generation batch is ordered by the     *)
(* predictor's snake, loses the prompts whose rewards agree, joins what was*)
(* collected before and is cut.  The proof shows that the rows are whole   *)
(* groups of rollout.n rows at each of these points.                       *)
(*                                                                         *)
(* After them come the theorems about ValidationResume, whose rows are kept*)
(* and repeated by the same operators.                                     *)
(***************************************************************************)
EXTENDS DynamicSampling, ValidationResume, FiniteSetTheorems, FunctionTheorems, SequenceTheorems, TLAPS
-----------------------------------------------------------------------------
(***************************************************************************)
(* Finite sets, and the positions that a loop keeps.                       *)
(***************************************************************************)

\* Induction on the numbers of a set.
LEMMA SetInduction ==
  ASSUME NEW S, 0 \in S, \A n \in Nat : n \in S => n + 1 \in S
  PROVE  Nat \subseteq S
<1> SUFFICES ASSUME NEW n \in Nat, n \notin S PROVE FALSE
  OBVIOUS
<1> DEFINE T == {k \in 0 .. n : k \notin S}
           f == [k \in T |-> k - 1]
<1>1. IsFiniteSet(T)
  <2>1. IsFiniteSet(0 .. n)
    BY 0 \in Int, n \in Int, FS_Interval
  <2> QED BY <2>1, FS_Subset
<1>2. n \in T
  OBVIOUS
<1>3. \A k \in T : k - 1 \in T \ {n}
  <2> TAKE k \in T
  <2>1. k # 0
    OBVIOUS
  <2>2. k - 1 \in Nat /\ (k - 1) + 1 = k
    BY <2>1
  <2> QED BY <2>2
<1>4. f \in Injection(T, T \ {n})
  <2>1. f \in [T -> T \ {n}]
    BY <1>3
  <2> QED BY <2>1 DEF Injection, IsInjective
<1>5. Cardinality(T \ {n}) = Cardinality(T) - 1 /\ IsFiniteSet(T \ {n}) /\ Cardinality(T) \in Nat
  BY <1>1, <1>2, FS_RemoveElement, FS_CardinalityType
<1> HIDE DEF T, f
<1>6. Cardinality(T) <= Cardinality(T \ {n})
  BY <1>1, <1>4, <1>5, FS_Injection
<1> QED BY <1>5, <1>6


\* Strict inclusion of finite sets shows in their numbers of elements.
LEMMA FewerElements ==
  ASSUME NEW S, NEW T, IsFiniteSet(T), S \subseteq T, S # T
  PROVE  Cardinality(S) < Cardinality(T)
<1>1. /\ IsFiniteSet(S) /\ Cardinality(S) \in Nat /\ Cardinality(T) \in Nat
      /\ Cardinality(S) <= Cardinality(T) /\ (Cardinality(S) = Cardinality(T) => S = T)
  BY FS_Subset, FS_CardinalityType
<1> QED BY <1>1

\* An injection into as many values as its domain has elements takes them all.
LEMMA AllTaken ==
  ASSUME NEW S, IsFiniteSet(S), NEW f \in [S -> 1..Cardinality(S)],
         \A x, y \in S : f[x] = f[y] => x = y
  PROVE  \A n \in 1..Cardinality(S) : \E x \in S : f[x] = n
<1> DEFINE I == {f[x] : x \in S}
<1>1. Cardinality(S) \in Nat
  BY FS_CardinalityType
<1>2. IsFiniteSet(1..Cardinality(S)) /\ Cardinality(1..Cardinality(S)) = Cardinality(S)
  BY <1>1, FS_Interval
<1>3. I \subseteq 1..Cardinality(S)
  OBVIOUS
<1>4. f \in Bijection(S, I)
  <2>1. f \in [S -> I]
    OBVIOUS
  <2>2. f \in Injection(S, I)
    BY <2>1 DEF Injection, IsInjective
  <2>3. f \in Surjection(S, I)
    BY <2>1 DEF Surjection
  <2> QED BY <2>2, <2>3 DEF Bijection
<1> HIDE DEF I
<1>5. IsFiniteSet(I) /\ Cardinality(I) = Cardinality(S)
  <2>1. IsFiniteSet(I)
    BY <1>2, <1>3, FS_Subset
  <2> QED BY <1>4, <2>1, FS_Bijection DEF ExistsBijection
<1>6. I = 1..Cardinality(S)
  BY <1>2, <1>3, <1>5, FS_Subset
<1> QED BY <1>6 DEF I

\* Each element of S is in its set U[x]; of two sets one is part of the other,
\* without the other's element.
Nested(U, S) ==
  /\ \A x \in S : x \in U[x]
  /\ \A x, y \in S : x # y => \/ U[x] \subseteq U[y] /\ y \notin U[x]
                              \/ U[y] \subseteq U[x] /\ x \notin U[y]

\* Their sizes number the elements of S.
Numbers(U, S) ==
  /\ \A x \in S : Cardinality(U[x]) \in 1..Cardinality(S)
  /\ \A x, y \in S : Cardinality(U[x]) = Cardinality(U[y]) => x = y
  /\ \A n \in 1..Cardinality(S) : \E x \in S : Cardinality(U[x]) = n

\* Sets that grow along a linear order number its elements.
LEMMA Numbered ==
  ASSUME NEW S, IsFiniteSet(S), NEW U \in [S -> SUBSET S], Nested(U, S)
  PROVE  Numbers(U, S)
<1>a. /\ \A x \in S : x \in U[x]
      /\ \A x, y \in S : x # y => \/ U[x] \subseteq U[y] /\ y \notin U[x]
                                  \/ U[y] \subseteq U[x] /\ x \notin U[y]
  BY DEF Nested
<1>1. \A x \in S : IsFiniteSet(U[x]) /\ Cardinality(U[x]) \in Nat /\ U[x] # {} /\ Cardinality(U[x]) # 0
                   /\ Cardinality(U[x]) <= Cardinality(S) /\ Cardinality(S) \in Nat
  BY <1>a, FS_Subset, FS_CardinalityType, FS_EmptySet
<1>2. ASSUME NEW x \in S PROVE Cardinality(U[x]) \in 1..Cardinality(S)
  BY <1>1
<1>3. ASSUME NEW x \in S, NEW y \in S, x # y PROVE Cardinality(U[x]) # Cardinality(U[y])
  <2>1. CASE U[x] \subseteq U[y] /\ y \notin U[x]
    <3>1. U[x] # U[y]
      BY <2>1, <1>a
    <3>2. Cardinality(U[x]) < Cardinality(U[y])
      BY <2>1, <3>1, <1>1, FewerElements
    <3> QED BY <3>2, <1>1
  <2>2. CASE U[y] \subseteq U[x] /\ x \notin U[y]
    <3>1. U[x] # U[y]
      BY <2>2, <1>a
    <3>2. Cardinality(U[y]) < Cardinality(U[x])
      BY <2>2, <3>1, <1>1, FewerElements
    <3> QED BY <3>2, <1>1
  <2> QED BY <2>1, <2>2, <1>3, <1>a
<1> DEFINE f == [x \in S |-> Cardinality(U[x])]
<1>4. f \in [S -> 1..Cardinality(S)] /\ (\A x, y \in S : f[x] = f[y] => x = y)
  BY <1>2, <1>3
<1>5. \A n \in 1..Cardinality(S) : \E x \in S : f[x] = n
  <2> HIDE DEF f
  <2> QED BY <1>4, AllTaken
<1> QED BY <1>2, <1>3, <1>5 DEF Numbers

\* The ranks number the positions.
LEMMA RanksNumber ==
  ASSUME NEW I, I \subseteq Int, IsFiniteSet(I)
  PROVE  /\ \A i \in I : Rank(I, i) \in 1..Cardinality(I)
         /\ \A i, j \in I : Rank(I, i) = Rank(I, j) => i = j
         /\ \A n \in 1..Cardinality(I) : Position(I, n) \in I /\ Rank(I, Position(I, n)) = n
<1> DEFINE U == [i \in I |-> {j \in I : j <= i}]
<1>1. /\ U \in [I -> SUBSET I]
      /\ \A x \in I : x \in U[x]
  OBVIOUS
<1>2. \A x, y \in I : x # y => \/ U[x] \subseteq U[y] /\ y \notin U[x]
                               \/ U[y] \subseteq U[x] /\ x \notin U[y]
  <2> SUFFICES ASSUME NEW x \in I, NEW y \in I, x # y
               PROVE  \/ U[x] \subseteq U[y] /\ y \notin U[x]
                      \/ U[y] \subseteq U[x] /\ x \notin U[y]
    OBVIOUS
  <2>1. x \in Int /\ y \in Int /\ (\A j \in I : j \in Int)
    OBVIOUS
  <2>a. U[x] = {j \in I : j <= x} /\ U[y] = {j \in I : j <= y}
    OBVIOUS
  <2> HIDE DEF U
  <2>2. CASE x < y
    <3>1. \A j \in I : j <= x => j <= y
      BY <2>1, <2>2
    <3>2. ~(y <= x)
      BY <2>1, <2>2
    <3> QED BY <2>a, <3>1, <3>2
  <2>3. CASE y < x
    <3>1. \A j \in I : j <= y => j <= x
      BY <2>1, <2>3
    <3>2. ~(x <= y)
      BY <2>1, <2>3
    <3> QED BY <2>a, <3>1, <3>2
  <2> QED BY <2>1, <2>2, <2>3
<1>3. \A i \in I : Rank(I, i) = Cardinality(U[i])
  BY DEF Rank
<1> HIDE DEF U
<1>4. /\ \A i \in I : Rank(I, i) \in 1..Cardinality(I)
      /\ \A i, j \in I : Rank(I, i) = Rank(I, j) => i = j
      /\ \A n \in 1..Cardinality(I) : \E i \in I : Rank(I, i) = n
  <2>a. Nested(U, I)
    BY <1>1, <1>2 DEF Nested
  <2>b. Numbers(U, I)
    BY <1>1, <2>a, Numbered
  <2>1. /\ \A x \in I : Cardinality(U[x]) \in 1..Cardinality(I)
        /\ \A x, y \in I : Cardinality(U[x]) = Cardinality(U[y]) => x = y
        /\ \A n \in 1..Cardinality(I) : \E x \in I : Cardinality(U[x]) = n
    BY <2>b DEF Numbers
  <2>2. \A x \in I : Rank(I, x) \in 1..Cardinality(I)
    BY <1>3, <2>1
  <2>3. ASSUME NEW x \in I, NEW y \in I, Rank(I, x) = Rank(I, y) PROVE x = y
    <3>1. Cardinality(U[x]) = Cardinality(U[y])
      BY <1>3, <2>3
    <3> QED BY <2>1, <3>1
  <2>4. ASSUME NEW n \in 1..Cardinality(I) PROVE \E x \in I : Rank(I, x) = n
    <3>1. PICK x \in I : Cardinality(U[x]) = n
      BY <2>1
    <3> QED BY <1>3, <3>1
  <2> QED BY <2>2, <2>3, <2>4
<1> QED BY <1>4 DEF Position

\* What is picked of a sequence.
LEMMA RetainedIs ==
  ASSUME NEW X, NEW s \in Seq(X), NEW I, I \subseteq DOMAIN s
  PROVE  /\ Retained(s, I) \in Seq(X)
         /\ Len(Retained(s, I)) = Cardinality(I)
         /\ \A i \in I : Retained(s, I)[Rank(I, i)] = s[i]
         /\ \A n \in 1..Cardinality(I) : Retained(s, I)[n] = s[Position(I, n)]
         /\ IsFiniteSet(I)
<1>1. /\ Len(s) \in Nat /\ DOMAIN s = 1..Len(s) /\ \A i \in 1..Len(s) : s[i] \in X
  BY ElementOfSeq, LenProperties
<1>2. IsFiniteSet(I) /\ I \subseteq Int
  <2>1. IsFiniteSet(1..Len(s))
    BY <1>1, FS_Interval
  <2> QED BY <1>1, <2>1, FS_Subset
<1>3. /\ \A i \in I : Rank(I, i) \in 1..Cardinality(I)
      /\ \A i, j \in I : Rank(I, i) = Rank(I, j) => i = j
      /\ \A n \in 1..Cardinality(I) : Position(I, n) \in I /\ Rank(I, Position(I, n)) = n
  BY <1>2, RanksNumber
<1>4. Cardinality(I) \in Nat
  BY <1>2, FS_CardinalityType
<1>5. \A n \in 1..Cardinality(I) : s[Position(I, n)] \in X
  BY <1>1, <1>3
<1>6. /\ Retained(s, I) = [n \in 1..Cardinality(I) |-> s[Position(I, n)]]
  BY DEF Retained
<1>7. Retained(s, I) \in Seq(X) /\ Len(Retained(s, I)) = Cardinality(I)
  BY <1>4, <1>5, <1>6, IsASeq
<1>8. \A i \in I : Retained(s, I)[Rank(I, i)] = s[i]
  <2> TAKE i \in I
  <2>1. Position(I, Rank(I, i)) = i
    BY <1>3
  <2> QED BY <1>3, <1>6, <2>1
<1> QED BY <1>2, <1>6, <1>7, <1>8
-----------------------------------------------------------------------------
(***************************************************************************)
(* Groups: N rows of a uid, one group after the other.                     *)
(***************************************************************************)

\* Multiplication by a positive number reflects the order.
LEMMA Cancel ==
  ASSUME NEW a \in Nat, NEW b \in Nat, NEW t \in Nat \ {0}, a * t < b * t
  PROVE  a < b
<1>1. CASE b <= a
  <2>1. PICK d \in Nat : a = b + d
    BY <1>1
  <2>2. a * t = b * t + d * t /\ d * t \in Nat
    BY <2>1
  <2> QED BY <2>2
<1> QED BY <1>1

\* Quotient and remainder by rollout.n.
LEMMA DivMod ==
  ASSUME NEW x \in Nat, NEW n \in Nat \ {0}
  PROVE  /\ x \div n \in Nat /\ x % n \in 0..(n - 1)
         /\ x = (x \div n) * n + (x % n)
OBVIOUS

\* Which group a row is in.
LEMMA GroupOf ==
  ASSUME NEW n \in Nat \ {0}, NEW q \in Nat, NEW r \in 1..n
  PROVE  /\ q * n + r \in Nat
         /\ (q * n + r - 1) \div n = q
<1> DEFINE x == q * n + r - 1
           d == x \div n
<1>1. q * n \in Nat /\ x \in Nat
  OBVIOUS
<1>2. d \in Nat /\ x % n \in 0..(n - 1) /\ x = d * n + (x % n)
  BY <1>1, DivMod
<1> HIDE DEF d
<1>3. d * n \in Nat /\ (q + 1) * n = q * n + n /\ (d + 1) * n = d * n + n
  BY <1>2
<1>4. d * n < (q + 1) * n
  BY <1>1, <1>2, <1>3
<1>5. q * n < (d + 1) * n
  BY <1>1, <1>2, <1>3
<1>6. d < q + 1 /\ q < d + 1
  BY <1>2, <1>4, <1>5, Cancel
<1>7. d = q
  BY <1>2, <1>6
<1> QED BY <1>1, <1>7 DEF d

\* Every row is in a group, at a place of it.
LEMMA RowSplits ==
  ASSUME NEW n \in Nat \ {0}, NEW c \in Nat, NEW x \in 1..(c * n)
  PROVE  \E k \in 1..c, r \in 1..n : x = (k - 1) * n + r
<1>1. x - 1 \in Nat /\ c * n \in Nat
  OBVIOUS
<1> DEFINE q == (x - 1) \div n
           m == (x - 1) % n
<1>2. q \in Nat /\ m \in 0..(n - 1) /\ x - 1 = q * n + m
  BY <1>1, DivMod
<1> HIDE DEF q, m
<1>3. q * n \in Nat /\ q * n < c * n
  BY <1>1, <1>2
<1>4. q < c
  BY <1>2, <1>3, Cancel
<1>5. q + 1 \in 1..c /\ m + 1 \in 1..n /\ x = ((q + 1) - 1) * n + (m + 1)
  BY <1>2, <1>4
<1> QED BY <1>5

\* A row of a group is a row of the sequence of groups.
LEMMA RowInside ==
  ASSUME NEW n \in Nat \ {0}, NEW c \in Nat, NEW k \in 1..c, NEW r \in 1..n
  PROVE  (k - 1) * n + r \in 1..(c * n) /\ (k - 1) * n \in Nat
<1>1. PICK d \in Nat : c = k + d
  <2> WITNESS c - k \in Nat
  <2> QED OBVIOUS
<1>2. c * n = (k - 1) * n + n + d * n /\ (k - 1) * n \in Nat /\ d * n \in Nat
  BY <1>1
<1> QED BY <1>2

\* The rows s are groups of n in turn, one for each element of V.
GroupedBy(s, V, n) ==
  /\ Len(s) = Len(V) * n
  /\ \A k \in 1..Len(V), r \in 1..n : s[(k - 1) * n + r].uid = V[k]

Distinct(V) == \A i, j \in 1..Len(V) : V[i] = V[j] => i = j

\* Each uid then is on n rows.
LEMMA GroupsWhole ==
  ASSUME NEW X, NEW s \in Seq(X), NEW Y, NEW V \in Seq(Y), NEW n \in Nat \ {0},
         GroupedBy(s, V, n), Distinct(V), NEW i \in DOMAIN s
  PROVE  Cardinality({j \in DOMAIN s : s[j].uid = s[i].uid}) = n
<1>0. Len(V) \in Nat /\ DOMAIN s = 1..(Len(V) * n)
  BY LenProperties DEF GroupedBy
<1>1. PICK k \in 1..Len(V), r \in 1..n : i = (k - 1) * n + r
  <2>1. PICK c \in Nat : c = Len(V)
    BY <1>0
  <2>2. i \in 1..(c * n)
    BY <1>0, <2>1
  <2>3. \E k \in 1..c, r \in 1..n : i = (k - 1) * n + r
    BY <2>2, RowSplits
  <2> QED BY <2>1, <2>3
<1>2. s[i].uid = V[k]
  BY <1>1 DEF GroupedBy
<1> DEFINE S == {j \in DOMAIN s : s[j].uid = s[i].uid}
           a == (k - 1) * n
           T == (a + 1)..(a + n)
<1>3. a \in Nat
  BY <1>0, RowInside
<1>4. ASSUME NEW j \in T PROVE j \in S
  <2>1. j - a \in 1..n /\ j = a + (j - a)
    BY <1>3
  <2>2. a + (j - a) \in 1..(Len(V) * n)
    BY <2>1, <1>0, RowInside
  <2>3. s[a + (j - a)].uid = V[k]
    BY <2>1 DEF GroupedBy
  <2> QED BY <1>0, <1>2, <2>1, <2>2, <2>3
<1>5. ASSUME NEW j \in S PROVE j \in T
  <2>1. PICK k2 \in 1..Len(V), r2 \in 1..n : j = (k2 - 1) * n + r2
    <3>1. PICK c \in Nat : c = Len(V)
      BY <1>0
    <3>2. j \in 1..(c * n)
      BY <1>0, <3>1
    <3>3. \E k2 \in 1..c, r2 \in 1..n : j = (k2 - 1) * n + r2
      BY <3>2, RowSplits
    <3> QED BY <3>1, <3>3
  <2>2. s[j].uid = V[k2]
    BY <2>1 DEF GroupedBy
  <2>3. k2 = k
    BY <1>2, <2>2 DEF Distinct
  <2>4. j = a + r2
    BY <2>1, <2>3
  <2> QED BY <2>4, <1>3
<1>6. S = T
  BY <1>4, <1>5
<1>7. Cardinality(T) = n
  <2> HIDE DEF a
  <2>1. a + 1 \in Int /\ a + n \in Int
    BY <1>3
  <2>2. Cardinality((a + 1)..(a + n)) = IF a + 1 > a + n THEN 0 ELSE (a + n) - (a + 1) + 1
    BY <2>1, FS_Interval
  <2> QED BY <2>2, <1>3
<1> QED BY <1>6, <1>7

\* Groups that follow groups.
LEMMA GroupsJoin ==
  ASSUME NEW X, NEW s \in Seq(X), NEW t \in Seq(X), NEW Y, NEW V \in Seq(Y), NEW W \in Seq(Y),
         NEW n \in Nat \ {0}, GroupedBy(s, V, n), GroupedBy(t, W, n)
  PROVE  GroupedBy(s \o t, V \o W, n)
<1>0. /\ Len(V) \in Nat /\ Len(W) \in Nat /\ Len(s) = Len(V) * n /\ Len(t) = Len(W) * n
      /\ Len(V) * n \in Nat /\ Len(W) * n \in Nat
  BY LenProperties DEF GroupedBy
<1>1. /\ s \o t \in Seq(X) /\ Len(s \o t) = Len(s) + Len(t)
      /\ \A i \in 1 .. Len(s) + Len(t) : (s \o t)[i] = IF i <= Len(s) THEN s[i] ELSE t[i - Len(s)]
  BY ConcatProperties, Zenon
<1>2. /\ V \o W \in Seq(Y) /\ Len(V \o W) = Len(V) + Len(W)
      /\ \A i \in 1 .. Len(V) + Len(W) : (V \o W)[i] = IF i <= Len(V) THEN V[i] ELSE W[i - Len(V)]
  BY ConcatProperties, Zenon
<1>3. Len(s \o t) = Len(V \o W) * n
  BY <1>0, <1>1, <1>2
<1>4. ASSUME NEW k \in 1..Len(V \o W), NEW r \in 1..n
      PROVE  (s \o t)[(k - 1) * n + r].uid = (V \o W)[k]
  <2>1. CASE k \in 1..Len(V)
    <3>1. (k - 1) * n + r \in 1..(Len(V) * n)
      BY <2>1, <1>0, RowInside
    <3>2. (s \o t)[(k - 1) * n + r] = s[(k - 1) * n + r]
      BY <3>1, <1>0, <1>1
    <3>3. (V \o W)[k] = V[k]
      BY <2>1, <1>0, <1>2
    <3> QED BY <2>1, <3>2, <3>3 DEF GroupedBy
  <2>2. CASE k \in (Len(V) + 1)..(Len(V) + Len(W))
    <3>0. k - Len(V) \in 1..Len(W)
      BY <2>2, <1>0
    <3> DEFINE h == k - Len(V)
    <3>1. (h - 1) * n + r \in 1..(Len(W) * n)
      BY <3>0, <1>0, RowInside
    <3>2. (k - 1) * n + r = Len(V) * n + ((h - 1) * n + r)
      BY <1>0, <2>2
    <3>3. (s \o t)[(k - 1) * n + r] = t[(h - 1) * n + r]
      <4> DEFINE y == (h - 1) * n + r
                 x == (k - 1) * n + r
                 L == Len(V) * n
      <4>1. x = L + y /\ y \in 1..(Len(W) * n) /\ L \in Nat /\ Len(s) = L /\ Len(W) * n = Len(t) /\ Len(t) \in Nat
        BY <3>1, <3>2, <1>0
      <4> HIDE DEF x, y, L, h
      <4>2. x \in 1..(Len(s) + Len(t)) /\ ~(x <= Len(s)) /\ x - Len(s) = y
        BY <4>1
      <4>3. (s \o t)[x] = t[y]
        BY <4>2, <1>1
      <4> QED BY <4>3 DEF x, y, h
    <3>4. (V \o W)[k] = W[h]
      BY <2>2, <1>0, <1>2
    <3>5. t[(h - 1) * n + r].uid = W[h]
      BY <3>0 DEF GroupedBy
    <3> QED BY <3>3, <3>4, <3>5
  <2>3. k \in 1..Len(V) \/ k \in (Len(V) + 1)..(Len(V) + Len(W))
    <3>1. Len(V) \in Nat /\ Len(W) \in Nat /\ k \in 1..(Len(V) + Len(W))
      BY <1>0, <1>2
    <3> QED BY <3>1
  <2> QED BY <2>1, <2>2, <2>3
<1> QED BY <1>3, <1>4 DEF GroupedBy

\* The first c of the groups.
LEMMA GroupsCut ==
  ASSUME NEW X, NEW s \in Seq(X), NEW Y, NEW V \in Seq(Y), NEW n \in Nat \ {0},
         GroupedBy(s, V, n), NEW c \in 0..Len(V)
  PROVE  /\ SubSeq(s, 1, c * n) \in Seq(X)
         /\ SubSeq(V, 1, c) \in Seq(Y)
         /\ Len(SubSeq(s, 1, c * n)) = c * n
         /\ Len(SubSeq(V, 1, c)) = c
         /\ c * n <= Len(s) /\ c * n \in Nat
         /\ \A i \in 1..(c * n) : SubSeq(s, 1, c * n)[i] = s[i]
         /\ \A i \in 1..c : SubSeq(V, 1, c)[i] = V[i]
         /\ GroupedBy(SubSeq(s, 1, c * n), SubSeq(V, 1, c), n)
<1>0. /\ Len(V) \in Nat /\ Len(s) = Len(V) * n /\ c \in Nat
      /\ \A i \in 1..Len(s) : s[i] \in X
      /\ \A i \in 1..Len(V) : V[i] \in Y
  BY LenProperties, ElementOfSeq DEF GroupedBy
<1>1. c * n \in Nat /\ c * n <= Len(s)
  <2>1. PICK d \in Nat : Len(V) = c + d
    <3> WITNESS Len(V) - c \in Nat
    <3> QED BY <1>0
  <2>2. Len(V) * n = c * n + d * n /\ c * n \in Nat /\ d * n \in Nat
    BY <1>0, <2>1
  <2> QED BY <1>0, <2>2
<1>2. /\ SubSeq(s, 1, c * n) \in Seq(X)
      /\ Len(SubSeq(s, 1, c * n)) = c * n
      /\ \A i \in 1..(c * n) : SubSeq(s, 1, c * n)[i] = s[i]
  <2> DEFINE e == c * n
  <2>1. e \in Nat /\ \A i \in 1..e : s[i] \in X
    BY <1>0, <1>1
  <2> HIDE DEF e
  <2>2. /\ SubSeq(s, 1, e) \in Seq(X)
        /\ Len(SubSeq(s, 1, e)) = IF 1 <= e THEN e - 1 + 1 ELSE 0
        /\ \A i \in 1..(e - 1 + 1) : SubSeq(s, 1, e)[i] = s[1 + i - 1]
    BY <2>1, SubSeqProperties, 1 \in Int, e \in Int
  <2>3. Len(SubSeq(s, 1, e)) = e /\ \A i \in 1..e : SubSeq(s, 1, e)[i] = s[i]
    BY <2>1, <2>2
  <2> QED BY <2>2, <2>3 DEF e
<1>3. /\ SubSeq(V, 1, c) \in Seq(Y)
      /\ Len(SubSeq(V, 1, c)) = c
      /\ \A i \in 1..c : SubSeq(V, 1, c)[i] = V[i]
  <2>1. \A i \in 1..c : V[i] \in Y
    BY <1>0
  <2>2. /\ SubSeq(V, 1, c) \in Seq(Y)
        /\ Len(SubSeq(V, 1, c)) = IF 1 <= c THEN c - 1 + 1 ELSE 0
        /\ \A i \in 1..(c - 1 + 1) : SubSeq(V, 1, c)[i] = V[1 + i - 1]
    BY <2>1, SubSeqProperties, 1 \in Int, c \in Int
  <2>3. Len(SubSeq(V, 1, c)) = c /\ \A i \in 1..c : SubSeq(V, 1, c)[i] = V[i]
    BY <1>0, <2>2
  <2> QED BY <2>2, <2>3
<1>4. ASSUME NEW k \in 1..c, NEW r \in 1..n
      PROVE  SubSeq(s, 1, c * n)[(k - 1) * n + r].uid = SubSeq(V, 1, c)[k]
  <2>1. (k - 1) * n + r \in 1..(c * n)
    BY <1>0, RowInside
  <2>2. s[(k - 1) * n + r].uid = V[k]
    <3>1. k \in 1..Len(V)
      BY <1>0
    <3> QED BY <3>1 DEF GroupedBy
  <2> QED BY <2>1, <2>2, <1>2, <1>3
<1> HIDE DEF GroupedBy
<1>5. GroupedBy(SubSeq(s, 1, c * n), SubSeq(V, 1, c), n)
  BY <1>2, <1>3, <1>4 DEF GroupedBy
<1> QED BY <1>1, <1>2, <1>3, <1>5
-----------------------------------------------------------------------------
(***************************************************************************)
(* Rows that are kept or dropped by whole groups.                          *)
(***************************************************************************)

\* The ranks go on by a run of positions that are all in the set.
LEMMA RankRun ==
  ASSUME NEW I, I \subseteq Int, IsFiniteSet(I), NEW a \in Nat, NEW r \in Nat,
         \A i \in (a + 1)..(a + r) : i \in I
  PROVE  Rank(I, a + r) = Rank(I, a) + r
<1> DEFINE A == {i \in I : i <= a}
           B == (a + 1)..(a + r)
<1>1. {i \in I : i <= a + r} = A \cup B
  <2>1. ASSUME NEW i \in I PROVE i <= a + r <=> (i <= a \/ i \in B)
    BY i \in Int
  <2>2. B \subseteq I
    OBVIOUS
  <2>3. \A i \in B : i <= a + r
    OBVIOUS
  <2> QED BY <2>1, <2>2, <2>3
<1>2. A \cap B = {}
  OBVIOUS
<1>3. IsFiniteSet(A)
  BY FS_Subset
<1>4. IsFiniteSet(B) /\ Cardinality(B) = r
  <2>1. a + 1 \in Int /\ a + r \in Int
    OBVIOUS
  <2>2. IsFiniteSet((a + 1)..(a + r)) /\ Cardinality((a + 1)..(a + r)) = IF a + 1 > a + r THEN 0 ELSE (a + r) - (a + 1) + 1
    BY <2>1, FS_Interval
  <2> QED BY <2>2
<1>5. Cardinality({}) = 0
  BY FS_EmptySet
<1> HIDE DEF A, B
<1>6. Cardinality(A \cup B) = Cardinality(A) + Cardinality(B) - Cardinality(A \cap B)
  BY <1>3, <1>4, FS_Union
<1>7. Cardinality(A) \in Nat
  BY <1>3, FS_CardinalityType
<1>8. Cardinality(A \cup B) = Cardinality(A) + r
  BY <1>2, <1>4, <1>5, <1>6, <1>7
<1> QED BY <1>1, <1>8 DEF Rank, A

\* They stay where no position of the run is in the set.
LEMMA RankPause ==
  ASSUME NEW I, I \subseteq Int, NEW a \in Nat, NEW r \in Nat,
         \A i \in (a + 1)..(a + r) : i \notin I
  PROVE  Rank(I, a + r) = Rank(I, a)
<1>1. ASSUME NEW i \in I PROVE i <= a + r <=> i <= a
  <2>1. i \in Int /\ i \notin (a + 1)..(a + r)
    OBVIOUS
  <2> QED BY <2>1
<1>2. {i \in I : i <= a + r} = {i \in I : i <= a}
  BY <1>1
<1> QED BY <1>2 DEF Rank

\* Rows that are kept or dropped by whole groups are whole groups.
LEMMA GroupsRetained ==
  ASSUME NEW X, NEW s \in Seq(X), NEW Y, NEW V \in Seq(Y), NEW n \in Nat \ {0},
         GroupedBy(s, V, n), NEW K, K \subseteq DOMAIN V, NEW I, I \subseteq DOMAIN s,
         \A k \in 1..Len(V), r \in 1..n : (k - 1) * n + r \in I <=> k \in K
  PROVE  GroupedBy(Retained(s, I), Retained(V, K), n)
<1>0. /\ Len(V) \in Nat /\ DOMAIN V = 1..Len(V) /\ DOMAIN s = 1..Len(s) /\ Len(s) = Len(V) * n
  BY LenProperties DEF GroupedBy
<1>1. /\ Retained(s, I) \in Seq(X) /\ Len(Retained(s, I)) = Cardinality(I)
      /\ \A i \in I : Retained(s, I)[Rank(I, i)] = s[i]
      /\ IsFiniteSet(I)
  BY RetainedIs
<1>2. /\ Retained(V, K) \in Seq(Y) /\ Len(Retained(V, K)) = Cardinality(K)
      /\ \A m \in 1..Cardinality(K) : Retained(V, K)[m] = V[Position(K, m)]
      /\ IsFiniteSet(K)
  BY RetainedIs
<1>3. /\ I \subseteq Int /\ K \subseteq Int
      /\ \A i \in I : i >= 1 /\ i <= Len(V) * n
      /\ \A k \in K : k >= 1 /\ k <= Len(V)
      /\ Len(V) * n \in Nat
  <2>1. Len(V) * n \in Nat
    BY <1>0
  <2>2. \A i \in I : i \in 1..Len(s)
    BY <1>0
  <2>3. \A k \in K : k \in 1..Len(V)
    BY <1>0
  <2> QED BY <2>1, <2>2, <2>3, <1>0
<1>4. /\ Cardinality(K) \in Nat
      /\ \A k \in Int : Rank(K, k) \in Nat
  <2>1. \A k \in Int : IsFiniteSet({j \in K : j <= k})
    BY <1>2, FS_Subset
  <2> QED BY <1>2, <2>1, FS_CardinalityType DEF Rank
<1>5. \A k \in 0..Len(V) : Rank(I, k * n) = Rank(K, k) * n
  <2> DEFINE Q == {k \in Nat : k <= Len(V) => Rank(I, k * n) = Rank(K, k) * n}
  <2>1. 0 \in Q
    <3>1. {i \in I : i <= 0} = {} /\ {i \in K : i <= 0} = {}
      BY <1>3
    <3>2. Rank(I, 0) = 0 /\ Rank(K, 0) = 0
      BY <3>1, FS_EmptySet DEF Rank
    <3> QED BY <3>2
  <2>2. ASSUME NEW k \in Nat, k \in Q PROVE k + 1 \in Q
    <3> SUFFICES ASSUME k + 1 <= Len(V) PROVE Rank(I, (k + 1) * n) = Rank(K, k + 1) * n
      OBVIOUS
    <3>1. Rank(I, k * n) = Rank(K, k) * n
      BY <2>2, <1>0
    <3> HIDE DEF Q
    <3>2. k * n \in Nat /\ (k + 1) * n = k * n + n
      OBVIOUS
    <3>3. \A i \in (k * n + 1)..(k * n + n) : i \in I <=> k + 1 \in K
      <4> TAKE i \in (k * n + 1)..(k * n + n)
      <4> DEFINE r == i - k * n
      <4>1. r \in 1..n /\ k * n + r = i
        BY <3>2
      <4>2. k + 1 \in 1..Len(V) /\ (k + 1) - 1 = k
        BY <1>0
      <4> HIDE DEF r
      <4>3. ((k + 1) - 1) * n + r \in I <=> k + 1 \in K
        BY <4>1, <4>2
      <4> QED BY <4>1, <4>2, <4>3
    <3>4. CASE k + 1 \in K
      <4>1. Rank(I, k * n + n) = Rank(I, k * n) + n
        BY <3>2, <3>3, <3>4, <1>1, <1>3, RankRun
      <4>2. Rank(K, k + 1) = Rank(K, k) + 1
        <5>1. \A i \in (k + 1)..(k + 1) : i \in K
          BY <3>4
        <5> QED BY <5>1, <1>2, <1>3, RankRun
      <4>3. Rank(K, k) \in Nat
        <5>1. k \in Int
          OBVIOUS
        <5> QED BY <5>1, <1>4, Zenon
      <4>4. (Rank(K, k) + 1) * n = Rank(K, k) * n + n
        BY <4>3
      <4> QED BY <4>1, <4>2, <4>4, <3>1, <3>2
    <3>5. CASE k + 1 \notin K
      <4>1. Rank(I, k * n + n) = Rank(I, k * n)
        BY <3>2, <3>3, <3>5, <1>3, RankPause
      <4>2. Rank(K, k + 1) = Rank(K, k)
        <5>1. \A i \in (k + 1)..(k + 1) : i \notin K
          BY <3>5
        <5> QED BY <5>1, <1>3, RankPause
      <4> QED BY <4>1, <4>2, <3>1, <3>2
    <3> QED BY <3>4, <3>5
  <2> HIDE DEF Q
  <2>3. Nat \subseteq Q
    BY <2>1, <2>2, SetInduction
  <2>4. \A k \in 0..Len(V) : k \in Nat /\ k <= Len(V)
    BY <1>0
  <2> QED BY <2>3, <2>4 DEF Q
<1>6. Cardinality(I) = Cardinality(K) * n
  <2>1. {i \in I : i <= Len(V) * n} = I /\ {k \in K : k <= Len(V)} = K
    BY <1>3
  <2>2. Rank(I, Len(V) * n) = Cardinality(I) /\ Rank(K, Len(V)) = Cardinality(K)
    BY <2>1 DEF Rank
  <2>3. Len(V) \in 0..Len(V)
    BY <1>0
  <2> QED BY <2>2, <2>3, <1>5
<1>7. ASSUME NEW m \in 1..Cardinality(K), NEW r \in 1..n
      PROVE  Retained(s, I)[(m - 1) * n + r].uid = Retained(V, K)[m]
  <2>1. PICK k : k = Position(K, m) /\ k \in K /\ Rank(K, k) = m
    BY <1>2, <1>3, RanksNumber
  <2>2. k \in 1..Len(V) /\ k - 1 \in Nat /\ k - 1 \in 0..Len(V)
    BY <2>1, <1>0
  <2>3. Rank(K, k - 1) = m - 1
    <3>1. \A i \in ((k - 1) + 1)..((k - 1) + 1) : i \in K
      BY <2>1, <2>2
    <3>2. Rank(K, (k - 1) + 1) = Rank(K, k - 1) + 1
      BY <3>1, <2>2, <1>2, <1>3, RankRun
    <3>3. (k - 1) + 1 = k /\ Rank(K, k - 1) \in Nat
      <4>1. k - 1 \in Int /\ (k - 1) + 1 = k
        BY <2>2
      <4> QED BY <4>1, <1>4, Zenon
    <3> QED BY <3>2, <3>3, <2>1
  <2>4. (k - 1) * n \in Nat /\ (k - 1) * n + r \in I
    <3>1. (k - 1) * n + r \in I <=> k \in K
      BY <2>2
    <3>2. (k - 1) * n \in Nat
      BY <2>2
    <3> QED BY <2>1, <3>1, <3>2
  <2>5. \A i \in ((k - 1) * n + 1)..((k - 1) * n + r) : i \in I
    <3> TAKE i \in ((k - 1) * n + 1)..((k - 1) * n + r)
    <3> DEFINE a == (k - 1) * n
               q == i - a
    <3>1. q \in 1..n /\ i = a + q
      BY <2>4
    <3> HIDE DEF q
    <3>2. (k - 1) * n + q \in I <=> k \in K
      BY <3>1, <2>2
    <3> QED BY <3>1, <3>2, <2>1
  <2>6. Rank(I, (k - 1) * n + r) = Rank(I, (k - 1) * n) + r
    <3> DEFINE a == (k - 1) * n
    <3> HIDE DEF a
    <3>1. a \in Nat /\ \A i \in (a + 1)..(a + r) : i \in I
      BY <2>4, <2>5 DEF a
    <3>2. r \in Nat /\ I \subseteq Int /\ IsFiniteSet(I)
      BY <1>1, <1>3
    <3>3. Rank(I, a + r) = Rank(I, a) + r
      BY <3>1, <3>2, RankRun
    <3> QED BY <3>3 DEF a
  <2>7. Rank(I, (k - 1) * n) = (m - 1) * n
    BY <2>2, <2>3, <1>5
  <2>8. Retained(s, I)[(m - 1) * n + r] = s[(k - 1) * n + r]
    BY <2>4, <2>6, <2>7, <1>1
  <2>9. s[(k - 1) * n + r].uid = V[k]
    BY <2>2 DEF GroupedBy
  <2> QED BY <2>1, <2>8, <2>9, <1>2
<1> QED BY <1>1, <1>2, <1>6, <1>7 DEF GroupedBy

\* What is kept of distinct elements are distinct elements.
LEMMA RetainedDistinct ==
  ASSUME NEW Y, NEW V \in Seq(Y), Distinct(V), NEW K, K \subseteq DOMAIN V
  PROVE  Distinct(Retained(V, K))
<1>0. Len(V) \in Nat /\ DOMAIN V = 1..Len(V)
  BY LenProperties
<1>1. /\ Retained(V, K) \in Seq(Y) /\ Len(Retained(V, K)) = Cardinality(K)
      /\ \A m \in 1..Cardinality(K) : Retained(V, K)[m] = V[Position(K, m)]
      /\ IsFiniteSet(K)
  BY RetainedIs
<1>2. \A m \in 1..Cardinality(K) : Position(K, m) \in 1..Len(V) /\ Rank(K, Position(K, m)) = m
  <2>1. K \subseteq Int
    BY <1>0
  <2> QED BY <2>1, <1>0, <1>1, RanksNumber
<1> QED BY <1>1, <1>2 DEF Distinct
-----------------------------------------------------------------------------
(***************************************************************************)
(* The rows of a generation batch.                                         *)
(***************************************************************************)

\* What the constants are.
LEMMA DapoConstants ==
  /\ GenBatch \in Nat \ {0} /\ TrainBatch \in Nat \ {0} /\ N \in Nat \ {0}
  /\ Ranks \in Nat \ {0} /\ Length \in Nat \ {0} /\ Epochs \in Nat \ {0}
  /\ TotalSteps \in Nat \ {0} /\ SaveFreq \in Nat \ {0}
  /\ TrainBatch <= GenBatch /\ Limits \subseteq Nat /\ MaxRestarts \in Nat
  /\ Loops \subseteq {"dapo", "predictor", "queue"}
BY DynamicSamplingAssumption DEF DynamicSamplingAssumption

\* The prompts get different positions in the order of the scores.
LEMMA SortedApart ==
  ASSUME NEW score \in [Prompt -> {0, 1}]
  PROVE  /\ \A p \in Prompt : SortedPos(score, p) \in Nat
         /\ \A p, q \in Prompt : SortedPos(score, p) = SortedPos(score, q) => p = q
<1> DEFINE S == Prompt
           B(p) == {q \in S : score[q] > score[p] \/ (score[q] = score[p] /\ q < p)}
<1>0. S = 1..GenBatch /\ GenBatch \in Nat /\ \A p \in S : p \in Int /\ score[p] \in Int
  BY DapoConstants DEF Prompt
<1>1. \A p \in S : SortedPos(score, p) = Cardinality(B(p))
  BY DEF SortedPos
<1>2. IsFiniteSet(S)
  BY <1>0, FS_Interval
<1>3. \A p \in S : IsFiniteSet(B(p)) /\ Cardinality(B(p)) \in Nat
  BY <1>2, FS_Subset, FS_CardinalityType
<1>4. ASSUME NEW p \in S, NEW q \in S,
             score[p] > score[q] \/ (score[p] = score[q] /\ p < q)
      PROVE  Cardinality(B(p)) # Cardinality(B(q))
  <2>1. \A x \in S : x \in B(p) => x \in B(q)
    BY <1>0, <1>4
  <2>2. p \in B(q) /\ p \notin B(p)
    BY <1>0, <1>4
  <2>3. B(p) \subseteq B(q) /\ B(p) # B(q)
    BY <2>1, <2>2
  <2> HIDE DEF B
  <2>4. Cardinality(B(p)) < Cardinality(B(q))
    BY <2>3, <1>3, FewerElements
  <2> QED BY <2>4, <1>3
<1>5. ASSUME NEW p \in S, NEW q \in S, p # q PROVE Cardinality(B(p)) # Cardinality(B(q))
  <2>1. \/ score[p] > score[q] \/ (score[p] = score[q] /\ p < q)
        \/ score[q] > score[p] \/ (score[q] = score[p] /\ q < p)
    BY <1>0, <1>5
  <2> HIDE DEF B, S
  <2> QED BY <2>1, <1>4
<1> QED BY <1>1, <1>3, <1>5

\* The places of the snake are those of a permutation.
LEMMA PlacesNumber ==
  ASSUME NEW score \in [Prompt -> {0, 1}]
  PROVE  /\ \A p \in Prompt : Place(score, p) \in Prompt
         /\ \A n \in Prompt : \E p \in Prompt : Place(score, p) = n
<1> DEFINE S == Prompt
           R(p) == RankOf(score, p)
           Z(p) == SortedPos(score, p)
           U == [p \in S |-> {q \in S : R(q) < R(p) \/ (R(q) = R(p) /\ Z(q) <= Z(p))}]
<1>0. S = 1..GenBatch /\ GenBatch \in Nat /\ IsFiniteSet(S) /\ Cardinality(S) = GenBatch
  <2>1. S = 1..GenBatch /\ GenBatch \in Nat
    BY DapoConstants DEF Prompt
  <2> QED BY <2>1, FS_Interval
<1>1. \A p \in S : Z(p) \in Nat
  BY SortedApart
<1>2. \A p \in S : R(p) \in Int
  <2> TAKE p \in S
  <2>1. Z(p) % Ranks \in Int /\ Ranks \in Int
    BY <1>1, DapoConstants
  <2> QED BY <2>1 DEF RankOf
<1>3. \A p, q \in S : Z(p) = Z(q) => p = q
  BY SortedApart
<1>4. \A p \in S : Place(score, p) = Cardinality(U[p])
  BY DEF Place
<1>5. U \in [S -> SUBSET S] /\ \A p \in S : p \in U[p]
  BY <1>1, <1>2
<1>6. ASSUME NEW p \in S, NEW q \in S, R(p) < R(q) \/ (R(p) = R(q) /\ Z(p) < Z(q))
      PROVE  U[p] \subseteq U[q] /\ q \notin U[p]
  <2>a. \A x \in S : R(x) \in Int /\ Z(x) \in Int
    BY <1>1, <1>2
  <2>b. /\ U[p] = {x \in S : R(x) < R(p) \/ (R(x) = R(p) /\ Z(x) <= Z(p))}
        /\ U[q] = {x \in S : R(x) < R(q) \/ (R(x) = R(q) /\ Z(x) <= Z(q))}
    OBVIOUS
  <2> HIDE DEF U, R, Z, S
  <2>1. \A x \in S : x \in U[p] => x \in U[q]
    BY <2>a, <2>b, <1>6
  <2>2. q \notin U[p]
    BY <2>a, <2>b, <1>6
  <2>3. U[p] \subseteq S
    BY <2>b
  <2> QED BY <2>1, <2>2, <2>3
<1>7. ASSUME NEW p \in S, NEW q \in S, p # q
      PROVE  \/ U[p] \subseteq U[q] /\ q \notin U[p]
             \/ U[q] \subseteq U[p] /\ p \notin U[q]
  <2>1. Z(p) # Z(q)
    BY <1>3, <1>7
  <2>2. \/ R(p) < R(q) \/ (R(p) = R(q) /\ Z(p) < Z(q))
        \/ R(q) < R(p) \/ (R(q) = R(p) /\ Z(q) < Z(p))
    <3>1. R(p) \in Int /\ R(q) \in Int /\ Z(p) \in Int /\ Z(q) \in Int
      BY <1>1, <1>2
    <3> HIDE DEF R, Z
    <3> QED BY <3>1, <2>1
  <2> HIDE DEF U, R, Z, S
  <2> QED BY <2>2, <1>6
<1> HIDE DEF U, R, Z, S
<1>8. /\ \A x \in S : Cardinality(U[x]) \in 1..Cardinality(S)
      /\ \A n \in 1..Cardinality(S) : \E x \in S : Cardinality(U[x]) = n
  <2>1. \A x, y \in S : x # y => \/ U[x] \subseteq U[y] /\ y \notin U[x]
                                 \/ U[y] \subseteq U[x] /\ x \notin U[y]
    BY <1>7
  <2>2. /\ \A x \in S : Cardinality(U[x]) \in 1..Cardinality(S)
        /\ \A x, y \in S : Cardinality(U[x]) = Cardinality(U[y]) => x = y
        /\ \A n \in 1..Cardinality(S) : \E x \in S : Cardinality(U[x]) = n
    <3>1. IsFiniteSet(S)
      BY <1>0
    <3>2. Nested(U, S)
      BY <1>5, <2>1 DEF Nested
    <3>3. Numbers(U, S)
      BY <3>1, <3>2, <1>5, Numbered
    <3> QED BY <3>3 DEF Numbers
  <2> QED BY <2>2
<1>9. /\ \A x \in S : Cardinality(U[x]) \in S
      /\ \A n \in S : \E x \in S : Cardinality(U[x]) = n
  BY <1>0, <1>8
<1> QED BY <1>4, <1>9 DEF S

\* The order of the prompts in a generation batch is a permutation of them.
LEMMA OrderPermutes ==
  ASSUME NEW score \in [Prompt -> {0, 1}]
  PROVE  /\ Order(score) \in [Prompt -> Prompt]
         /\ \A i, j \in Prompt : Order(score)[i] = Order(score)[j] => i = j
         /\ \A p \in Prompt : \E i \in Prompt : Order(score)[i] = p
<1>1. CASE loop # "predictor"
  <2>1. Order(score) = [i \in Prompt |-> i]
    BY <1>1 DEF Order
  <2> QED BY <2>1
<1>2. CASE loop = "predictor"
  <2> DEFINE o == Order(score)
             S == Prompt
  <2>1. o = [i \in S |-> CHOOSE p \in S : Place(score, p) = i]
    BY <1>2 DEF Order, SnakeSort
  <2>2. /\ \A p \in S : Place(score, p) \in S
        /\ \A n \in S : \E p \in S : Place(score, p) = n
    BY PlacesNumber
  <2>3. \A i \in S : o[i] \in S /\ Place(score, o[i]) = i
    BY <2>1, <2>2
  <2>4. o \in [S -> S]
    BY <2>1, <2>3
  <2>5. \A i, j \in S : o[i] = o[j] => i = j
    BY <2>3
  <2>6. IsFiniteSet(S) /\ Cardinality(S) = GenBatch /\ S = 1..GenBatch
    <3>1. S = 1..GenBatch /\ GenBatch \in Nat
      BY DapoConstants DEF Prompt
    <3> QED BY <3>1, FS_Interval
  <2> HIDE DEF o, S
  <2>7. \A n \in S : \E i \in S : o[i] = n
    <3>1. o \in [S -> 1..Cardinality(S)]
      BY <2>4, <2>6
    <3>2. \A n \in 1..Cardinality(S) : \E i \in S : o[i] = n
      BY <3>1, <2>5, <2>6, AllTaken
    <3> QED BY <3>2, <2>6
  <2> QED BY <2>4, <2>5, <2>7 DEF o, S
<1> QED BY <1>1, <1>2

\* Rows of the first d batches of the stream.
RowsUpTo(d) == [uid : (1..d) \X Prompt, answers : (1..d) \X Prompt,
                policy : Seq(SUBSET Nat)]
UidsUpTo(d) == (1..d) \X Prompt
UidsOf(b, score) == [k \in 1..GenBatch |-> <<b, Order(score)[k]>>]

\* A generation batch consists of the groups of its prompts.
LEMMA GeneratedGroups ==
  ASSUME NEW score \in [Prompt -> {0, 1}],
         NEW b \in Nat \ {0}, replicas.policy \in Seq(SUBSET Nat)
  PROVE  /\ Generated(b, score) \in Seq(RowsUpTo(b))
         /\ UidsOf(b, score) \in Seq(UidsUpTo(b))
         /\ Len(UidsOf(b, score)) = GenBatch
         /\ Distinct(UidsOf(b, score))
         /\ GroupedBy(Generated(b, score), UidsOf(b, score), N)
         /\ \A i \in DOMAIN Generated(b, score) :
              /\ Generated(b, score)[i].uid = Generated(b, score)[i].answers
              /\ Generated(b, score)[i].uid[1] = b
              /\ Generated(b, score)[i].policy = replicas.policy
         /\ Len(Generated(b, score)) = GenBatch * N
<1> DEFINE o == Order(score)
           g == Generated(b, score)
           M == GenBatch * N
           pr(i) == o[((i - 1) \div N) + 1]
<1>0. /\ GenBatch \in Nat \ {0} /\ N \in Nat \ {0} /\ Prompt = 1..GenBatch
  BY DapoConstants DEF Prompt
<1>1. M \in Nat
  BY <1>0
<1>2. /\ o \in [1..GenBatch -> 1..GenBatch]
      /\ \A i, j \in 1..GenBatch : o[i] = o[j] => i = j
  BY <1>0, OrderPermutes
<1>3. g = [i \in 1..M |-> [uid |-> <<b, pr(i)>>, answers |-> <<b, pr(i)>>, policy |-> replicas.policy]]
  BY DEF Generated, JoinOrder, PromptAt, RowOf
<1>4. ASSUME NEW k \in 1..GenBatch, NEW r \in 1..N
      PROVE  (k - 1) * N + r \in 1..M /\ pr((k - 1) * N + r) = o[k]
  <2>1. k - 1 \in Nat
    BY <1>0
  <2>2. ((k - 1) * N + r - 1) \div N = k - 1
    BY <2>1, <1>0, GroupOf
  <2>3. (k - 1) * N + r \in 1..M
    BY <1>0, RowInside
  <2> QED BY <2>2, <2>3, <1>0
<1>5. \A i \in 1..M : pr(i) \in 1..GenBatch
  <2> TAKE i \in 1..M
  <2>1. PICK k \in 1..GenBatch, r \in 1..N : i = (k - 1) * N + r
    BY <1>0, RowSplits
  <2>2. pr(i) = o[k]
    BY <2>1, <1>4
  <2> QED BY <2>2, <1>2
<1> HIDE DEF pr, M
<1>6. \A i \in 1..M : <<b, pr(i)>> \in UidsUpTo(b)
  BY <1>0, <1>5 DEF UidsUpTo
<1>7. \A i \in 1..M : [uid |-> <<b, pr(i)>>, answers |-> <<b, pr(i)>>, policy |-> replicas.policy] \in RowsUpTo(b)
  BY <1>6 DEF RowsUpTo, UidsUpTo
<1>8. g \in Seq(RowsUpTo(b)) /\ Len(g) = M /\ DOMAIN g = 1..M
  <2> HIDE DEF g
  <2> QED BY <1>1, <1>3, <1>7
<1>9. /\ UidsOf(b, score) \in Seq(UidsUpTo(b)) /\ Len(UidsOf(b, score)) = GenBatch
      /\ \A k \in 1..GenBatch : UidsOf(b, score)[k] = <<b, o[k]>>
  <2>1. UidsOf(b, score) = [k \in 1..GenBatch |-> <<b, o[k]>>]
    BY DEF UidsOf
  <2>2. \A k \in 1..GenBatch : <<b, o[k]>> \in UidsUpTo(b)
    <3>1. b \in 1..b /\ \A k \in 1..GenBatch : o[k] \in 1..GenBatch
      BY <1>2
    <3> HIDE DEF o
    <3> QED BY <3>1, <1>0 DEF UidsUpTo
  <2> HIDE DEF o
  <2> QED BY <2>1, <2>2, <1>0
<1> HIDE DEF g
<1>10. Distinct(UidsOf(b, score))
  BY <1>2, <1>9 DEF Distinct
<1>11. GroupedBy(g, UidsOf(b, score), N)
  <2>1. ASSUME NEW k \in 1..GenBatch, NEW r \in 1..N
        PROVE  g[(k - 1) * N + r].uid = UidsOf(b, score)[k]
    <3>1. (k - 1) * N + r \in 1..M /\ pr((k - 1) * N + r) = o[k]
      BY <1>4
    <3>2. g[(k - 1) * N + r].uid = <<b, pr((k - 1) * N + r)>>
      BY <3>1, <1>3
    <3> QED BY <3>1, <3>2, <1>9
  <2> QED BY <2>1, <1>8, <1>9 DEF GroupedBy, M
<1>12. \A i \in DOMAIN g : g[i].uid = g[i].answers /\ g[i].uid[1] = b /\ g[i].policy = replicas.policy
  BY <1>3, <1>8
<1> QED BY <1>8, <1>9, <1>10, <1>11, <1>12 DEF g, M
-----------------------------------------------------------------------------
(***************************************************************************)
(* The inductive invariant of the DAPO loops.                              *)
(***************************************************************************)
\* What a policy has learned: the batches of the stream, step by step.
Policies == Seq(SUBSET Nat)

\* Numbers, sets and flags.
DapoScalars ==
  /\ loop \in Loops /\ filter \in BOOLEAN /\ limit \in Limits \union {0} /\ limit \in Nat
  /\ filter \/ limit = 0
  /\ phase \in Phases
  /\ epoch \in Nat /\ prompts \in Nat /\ gens \in Nat /\ steps \in Nat
  /\ drawn \in [all : Nat, pass : 0..Length]
  /\ weights \in Policies
  /\ replicas \in [policy : Policies, awake : BOOLEAN]
  /\ queue \in [held : SUBSET (Nat \union {UpdatePart}), clear : SUBSET Nat]
  /\ saved \in [steps : Nat, drawn : [all : Nat, pass : 0..Length], weights : Policies]
  /\ starts \in 0..MaxRestarts /\ ended \in Nat

\* How far the counters get.
DapoBounds ==
  /\ limit > 0 => gens <= limit /\ (phase = "sample" => gens < limit)
  /\ phase = "decide" => gens # 0
  /\ steps <= TotalSteps + starts
  /\ phase = "down" => saved.steps + 1 <= TotalSteps + starts
  /\ phase # "down" => saved.steps <= steps
  /\ ended <= starts + 1
  /\ phase # "done" => ended <= starts

\* What the queue holds is what the step is going to clear.
DapoQueue ==
  /\ phase \in {"sample", "decide"} => queue.held \subseteq queue.clear
  /\ phase = "sample" /\ gens = 0 => queue.clear = {}
  /\ phase \in {"save", "publish"} => queue.held \subseteq queue.clear \union {UpdatePart}

\* The batches a policy learned from come before c; they are in order.
Before(w, c)  == \A i \in 1..Len(w) : \A b \in w[i] : b < c
InOrder(w)    == \A i, j \in 1..Len(w) : i < j => \A b \in w[i], c \in w[j] : b < c

\* The rows collected: joined with their own responses, of the policy that is
\* in training, from batches it has not learned from.
DapoRows ==
  /\ batch \in Seq(RowsUpTo(drawn.all))
  /\ \A i \in 1..Len(batch) : batch[i].uid = batch[i].answers
  /\ phase \in {"sample", "decide"} =>
       /\ replicas.policy = weights /\ replicas.awake
       /\ \A i \in 1..Len(batch) :
            batch[i].policy = weights /\ Before(weights, batch[i].uid[1])
  /\ phase = "save" => \A i \in 1..Len(batch) : batch[i].policy = Front(weights)

\* s is c groups of rows of the first d batches.
HasGroups(s, c, d) ==
  \E V \in Seq(UidsUpTo(d)) : Len(V) = c /\ Distinct(V) /\ GroupedBy(s, V, N)

\* The rows collected are whole groups, as many as are counted.
DapoGroups ==
  /\ phase = "sample" /\ filter => HasGroups(batch, prompts, drawn.all)
  /\ phase = "decide" => HasGroups(batch, IF filter THEN prompts ELSE GenBatch, drawn.all)
  /\ phase = "save" => \E c \in Nat : HasGroups(batch, c, drawn.all) /\ (filter => c = TrainBatch)

\* Weights, checkpoint and position in the stream.
DapoLearned ==
  /\ InOrder(weights) /\ Before(weights, drawn.all + 1)
  /\ InOrder(saved.weights) /\ Before(saved.weights, saved.drawn.all + 1)

\* Steps and updates, as long as no run has used up its epochs.
DapoCounted ==
  ended = 0 =>
    /\ saved.steps = Len(saved.weights)
    /\ phase \in {"save", "publish", "done"} => steps = Len(weights)
    /\ phase \in {"sample", "decide", "raised"} => steps = Len(weights) + 1

DapoInv == DapoScalars /\ DapoBounds /\ DapoQueue /\ DapoRows /\ DapoGroups /\ DapoLearned /\ DapoCounted

\* Rows of earlier batches are rows of the first d batches.
LEMMA RowsGrow ==
  ASSUME NEW d \in Nat, NEW e \in Nat, d <= e
  PROVE  /\ RowsUpTo(d) \subseteq RowsUpTo(e) /\ UidsUpTo(d) \subseteq UidsUpTo(e)
         /\ Seq(RowsUpTo(d)) \subseteq Seq(RowsUpTo(e))
         /\ Seq(UidsUpTo(d)) \subseteq Seq(UidsUpTo(e))
<1>1. 1..d \subseteq 1..e
  OBVIOUS
<1>2. (1..d) \X Prompt \subseteq (1..e) \X Prompt
  BY <1>1
<1>3. RowsUpTo(d) \subseteq RowsUpTo(e) /\ UidsUpTo(d) \subseteq UidsUpTo(e)
  BY <1>2 DEF RowsUpTo, UidsUpTo
<1> QED BY <1>3, SeqMonotonic

\* No groups yet.
LEMMA NoGroups ==
  ASSUME NEW d PROVE HasGroups(<<>>, 0, d)
<1>1. N \in Nat \ {0}
  BY DapoConstants
<1>2. <<>> \in Seq(UidsUpTo(d)) /\ Len(<<>>) = 0
  OBVIOUS
<1>3. 0 = 0 * N
  BY <1>1
<1>4. Distinct(<<>>)
  BY DEF Distinct
<1>5. GroupedBy(<<>>, <<>>, N)
  BY <1>2, <1>3 DEF GroupedBy
<1> QED BY <1>2, <1>4, <1>5 DEF HasGroups

\* Groups of earlier batches.
LEMMA GroupsGrow ==
  ASSUME NEW s, NEW c, NEW d \in Nat, NEW e \in Nat, d <= e, HasGroups(s, c, d)
  PROVE  HasGroups(s, c, e)
BY RowsGrow DEF HasGroups

\* The rows and the uids of a generation batch whose rewards vary.
VariedRows(b, score, varied) ==
  {i \in DOMAIN Generated(b, score) : Generated(b, score)[i].uid[2] \in varied}
VariedUids(b, score, varied) ==
  {k \in 1..GenBatch : UidsOf(b, score)[k][2] \in varied}
KeptRows(b, score, varied) == Retained(Generated(b, score), VariedRows(b, score, varied))
KeptUids(b, score, varied) == Retained(UidsOf(b, score), VariedUids(b, score, varied))

\* The prompts of a generation batch whose rewards vary keep all their rows.
LEMMA VariedGroups ==
  ASSUME DapoScalars,
         NEW score \in [Prompt -> {0, 1}], NEW varied \in SUBSET Prompt,
         NEW b \in Nat \ {0}
  PROVE  /\ Retained(Generated(b, score), VariedRows(b, score, varied))
              = KeptRows(b, score, varied)
         /\ KeptRows(b, score, varied) \in Seq(RowsUpTo(b))
         /\ \A n \in 1..Len(KeptRows(b, score, varied)) :
              \E i \in DOMAIN Generated(b, score) :
                KeptRows(b, score, varied)[n] = Generated(b, score)[i]
         /\ GroupedBy(KeptRows(b, score, varied), KeptUids(b, score, varied), N)
         /\ KeptUids(b, score, varied) \in Seq(UidsUpTo(b))
         /\ Distinct(KeptUids(b, score, varied))
         /\ Len(KeptUids(b, score, varied)) = Cardinality(varied)
         /\ \A n \in 1..Len(KeptUids(b, score, varied)) : KeptUids(b, score, varied)[n][1] = b
         /\ Cardinality(varied) \in Nat
<1> DEFINE g == Generated(b, score)
           I == {i \in DOMAIN g : g[i].uid[2] \in varied}
           V == UidsOf(b, score)
           K == {k \in 1..GenBatch : V[k][2] \in varied}
           o == Order(score)
<1>0. /\ GenBatch \in Nat \ {0} /\ N \in Nat \ {0} /\ Prompt = 1..GenBatch
  BY DapoConstants DEF Prompt
<1>1. /\ g \in Seq(RowsUpTo(b)) /\ V \in Seq(UidsUpTo(b)) /\ Len(V) = GenBatch
      /\ Distinct(V) /\ GroupedBy(g, V, N) /\ Len(g) = GenBatch * N
  <2>1. replicas.policy \in Seq(SUBSET Nat)
    BY DEF DapoScalars, Policies
  <2> QED BY <2>1, GeneratedGroups
<1>2. /\ o \in [1..GenBatch -> 1..GenBatch]
      /\ \A i, j \in 1..GenBatch : o[i] = o[j] => i = j
      /\ \A p \in 1..GenBatch : \E i \in 1..GenBatch : o[i] = p
  <2> DEFINE S == Prompt
  <2>1. /\ o \in [S -> S] /\ \A i, j \in S : o[i] = o[j] => i = j
        /\ \A p \in S : \E i \in S : o[i] = p
    BY OrderPermutes
  <2>2. S = 1..GenBatch
    BY <1>0
  <2> HIDE DEF o, S
  <2> QED BY <2>1, <2>2
<1>3. \A k \in 1..GenBatch : V[k] = <<b, o[k]>>
  BY DEF UidsOf
<1> HIDE DEF g, V, o
<1>4. DOMAIN g = 1..Len(g) /\ DOMAIN V = 1..GenBatch /\ Len(g) \in Nat
  BY <1>1, LenProperties
<1>5. I \subseteq DOMAIN g /\ K \subseteq DOMAIN V
  BY <1>4
<1>6. \A k \in 1..Len(V), r \in 1..N : (k - 1) * N + r \in I <=> k \in K
  <2> TAKE k \in 1..Len(V), r \in 1..N
  <2>1. g[(k - 1) * N + r].uid = V[k]
    BY <1>1 DEF GroupedBy
  <2>2. (k - 1) * N + r \in 1..(GenBatch * N)
    BY <1>0, <1>1, RowInside
  <2>3. (k - 1) * N + r \in DOMAIN g /\ k \in 1..GenBatch
    BY <1>1, <1>4, <2>2
  <2> QED BY <2>1, <2>3
<1>7. /\ Retained(g, I) \in Seq(RowsUpTo(b)) /\ IsFiniteSet(I)
      /\ Len(Retained(g, I)) = Cardinality(I)
      /\ \A n \in 1..Cardinality(I) : Retained(g, I)[n] = g[Position(I, n)]
  <2> HIDE DEF I
  <2> QED BY <1>1, <1>5, RetainedIs
<1>8. /\ Retained(V, K) \in Seq(UidsUpTo(b)) /\ IsFiniteSet(K)
      /\ Len(Retained(V, K)) = Cardinality(K)
      /\ \A n \in 1..Cardinality(K) : Retained(V, K)[n] = V[Position(K, n)]
  <2> HIDE DEF K
  <2> QED BY <1>1, <1>5, RetainedIs
<1>9. GroupedBy(Retained(g, I), Retained(V, K), N) /\ Distinct(Retained(V, K))
  <2> HIDE DEF I, K
  <2> QED BY <1>0, <1>1, <1>5, <1>6, GroupsRetained, RetainedDistinct
<1>10. I \subseteq Int /\ K \subseteq Int
  BY <1>4, <1>5
<1>11. /\ \A n \in 1..Cardinality(I) : Position(I, n) \in I
       /\ \A n \in 1..Cardinality(K) : Position(K, n) \in K
  <2> HIDE DEF I, K
  <2> QED BY <1>7, <1>8, <1>10, RanksNumber
<1>12. Retained(g, I) = Retained(g, I)
  <2> HIDE DEF I
  <2> QED BY <1>7, <1>10
<1>13. \A n \in 1..Len(Retained(g, I)) : \E i \in DOMAIN g : Retained(g, I)[n] = g[i]
  <2> HIDE DEF I
  <2> QED BY <1>5, <1>7, <1>11
<1>14. \A n \in 1..Len(Retained(V, K)) : Retained(V, K)[n][1] = b
  <2>1. \A k \in K : V[k][1] = b
    BY <1>3
  <2> HIDE DEF K
  <2> QED BY <2>1, <1>8, <1>11
<1>15. Cardinality(K) = Cardinality(varied) /\ Cardinality(varied) \in Nat
  <2>1. IsFiniteSet(varied)
    <3>1. IsFiniteSet(1..GenBatch)
      BY <1>0, FS_Interval
    <3> QED BY <3>1, <1>0, FS_Subset
  <2>2. \A k \in 1..GenBatch : k \in K <=> o[k] \in varied
    BY <1>3
  <2>3. varied \subseteq 1..GenBatch /\ K \subseteq 1..GenBatch
    BY <1>0
  <2> HIDE DEF K
  <2> DEFINE f == [k \in K |-> o[k]]
  <2>4. f \in [K -> varied]
    BY <2>2, <2>3
  <2>5. f \in Injection(K, varied)
    <3>1. \A i, j \in K : f[i] = f[j] => i = j
      BY <1>2, <2>3
    <3> QED BY <3>1, <2>4 DEF Injection, IsInjective
  <2>6. f \in Surjection(K, varied)
    <3>1. \A p \in varied : \E k \in K : f[k] = p
      BY <1>2, <2>2, <2>3
    <3> QED BY <3>1, <2>4 DEF Surjection
  <2>7. ExistsBijection(K, varied)
    BY <2>5, <2>6 DEF Bijection, ExistsBijection
  <2> QED BY <1>8, <2>1, <2>7, FS_Bijection, FS_CardinalityType
<1> HIDE DEF I, K
<1>16. /\ Retained(g, I) = Retained(g, I)
       /\ Retained(g, I) \in Seq(RowsUpTo(b))
       /\ \A n \in 1..Len(Retained(g, I)) : \E i \in DOMAIN g : Retained(g, I)[n] = g[i]
       /\ GroupedBy(Retained(g, I), Retained(V, K), N)
       /\ Retained(V, K) \in Seq(UidsUpTo(b))
       /\ Distinct(Retained(V, K))
       /\ Len(Retained(V, K)) = Cardinality(varied)
       /\ \A n \in 1..Len(Retained(V, K)) : Retained(V, K)[n][1] = b
       /\ Cardinality(varied) \in Nat
  BY <1>7, <1>8, <1>9, <1>12, <1>13, <1>14, <1>15
<1> QED BY <1>16 DEF g, I, V, K, KeptRows, KeptUids, VariedRows, VariedUids
\* Distinct elements that follow distinct elements from earlier batches.
LEMMA DistinctJoin ==
  ASSUME NEW d \in Nat, NEW V \in Seq(UidsUpTo(d)), NEW W \in Seq(UidsUpTo(d + 1)),
         Distinct(V), Distinct(W), \A n \in 1..Len(W) : W[n][1] = d + 1
  PROVE  /\ V \o W \in Seq(UidsUpTo(d + 1)) /\ Len(V \o W) = Len(V) + Len(W)
         /\ Distinct(V \o W)
<1> DEFINE Y == UidsUpTo(d + 1)
<1>1. V \in Seq(Y) /\ W \in Seq(Y)
  BY RowsGrow
<1>2. /\ V \o W \in Seq(Y) /\ Len(V \o W) = Len(V) + Len(W)
      /\ \A i \in 1 .. Len(V) + Len(W) : (V \o W)[i] = IF i <= Len(V) THEN V[i] ELSE W[i - Len(V)]
  <2> HIDE DEF Y
  <2> QED BY <1>1, ConcatProperties
<1>3. Len(V) \in Nat /\ Len(W) \in Nat
  BY <1>1, LenProperties
<1>4. \A i \in 1..Len(V) : V[i][1] # d + 1
  <2> TAKE i \in 1..Len(V)
  <2>1. V[i] \in UidsUpTo(d)
    BY ElementOfSeq
  <2>2. V[i][1] \in 1..d
    BY <2>1 DEF UidsUpTo
  <2> QED BY <2>2
<1>5. ASSUME NEW i \in 1..(Len(V) + Len(W)), NEW j \in 1..(Len(V) + Len(W)), (V \o W)[i] = (V \o W)[j]
      PROVE  i = j
  <2>1. CASE i <= Len(V) /\ j <= Len(V)
    <3>1. i \in 1..Len(V) /\ j \in 1..Len(V) /\ V[i] = V[j]
      BY <2>1, <1>2, <1>3, <1>5
    <3> QED BY <3>1 DEF Distinct
  <2>2. CASE ~(i <= Len(V)) /\ ~(j <= Len(V))
    <3>1. i - Len(V) \in 1..Len(W) /\ j - Len(V) \in 1..Len(W) /\ W[i - Len(V)] = W[j - Len(V)]
      BY <2>2, <1>2, <1>3, <1>5
    <3>2. i - Len(V) = j - Len(V)
      BY <3>1 DEF Distinct
    <3> QED BY <3>2, <1>3
  <2>3. CASE i <= Len(V) /\ ~(j <= Len(V))
    <3>1. i \in 1..Len(V) /\ j - Len(V) \in 1..Len(W) /\ V[i] = W[j - Len(V)]
      BY <2>3, <1>2, <1>3, <1>5
    <3> QED BY <3>1, <1>4
  <2>4. CASE ~(i <= Len(V)) /\ j <= Len(V)
    <3>1. j \in 1..Len(V) /\ i - Len(V) \in 1..Len(W) /\ V[j] = W[i - Len(V)]
      BY <2>4, <1>2, <1>3, <1>5
    <3> QED BY <3>1, <1>4
  <2> QED BY <2>1, <2>2, <2>3, <2>4
<1>6. Distinct(V \o W)
  BY <1>2, <1>5 DEF Distinct
<1> QED BY <1>2, <1>6

\* What a generation batch adds to the rows collected.
LEMMA SampleRows ==
  ASSUME DapoInv,
         NEW score \in [Prompt -> {0, 1}], NEW varied \in SUBSET Prompt,
         Sample(score, varied)
  PROVE  /\ batch' \in Seq(RowsUpTo(drawn.all + 1))
         /\ \A i \in 1..Len(batch') :
              /\ batch'[i].uid = batch'[i].answers /\ batch'[i].policy = weights
              /\ Before(weights, batch'[i].uid[1])
         /\ prompts' \in Nat
         /\ HasGroups(batch', IF filter THEN prompts' ELSE GenBatch, drawn.all + 1)
<1> DEFINE d == drawn.all
           b == drawn.all + 1
           g == Generated(b, score)
           V == UidsOf(b, score)
           t == KeptRows(b, score, varied)
           W == KeptUids(b, score, varied)
           Fit(r) == r.uid = r.answers /\ r.policy = weights /\ Before(weights, r.uid[1])
<1>0. /\ N \in Nat \ {0} /\ GenBatch \in Nat \ {0} /\ d \in Nat /\ b \in Nat \ {0} /\ b = d + 1
      /\ prompts \in Nat
  BY DapoConstants DEF DapoInv, DapoScalars
<1>1. /\ phase = "sample" /\ replicas.policy = weights /\ weights \in Policies
      /\ batch \in Seq(RowsUpTo(d))
      /\ \A i \in 1..Len(batch) : Fit(batch[i])
  BY DEF DapoInv, DapoRows, DapoScalars, Sample
<1>2. /\ g \in Seq(RowsUpTo(b)) /\ V \in Seq(UidsUpTo(b)) /\ Len(V) = GenBatch
      /\ Distinct(V) /\ GroupedBy(g, V, N)
      /\ \A i \in DOMAIN g : g[i].uid = g[i].answers /\ g[i].uid[1] = b /\ g[i].policy = weights
  <2>1. b \in Nat \ {0} /\ replicas.policy \in Seq(SUBSET Nat)
    BY <1>0, <1>1 DEF Policies
  <2> HIDE DEF b
  <2>2. /\ g \in Seq(RowsUpTo(b)) /\ V \in Seq(UidsUpTo(b)) /\ Len(V) = GenBatch
        /\ Distinct(V) /\ GroupedBy(g, V, N)
        /\ \A i \in DOMAIN g : g[i].uid = g[i].answers /\ g[i].uid[1] = b /\ g[i].policy = replicas.policy
    BY <2>1, GeneratedGroups
  <2> HIDE DEF g, V
  <2> QED BY <2>2, <1>1
<1>3. \A i \in DOMAIN g : Fit(g[i])
  <2>1. Before(weights, b)
    BY DEF DapoInv, DapoLearned
  <2> HIDE DEF g, b
  <2> QED BY <1>2, <2>1
<1>4. /\ Retained(g, VariedRows(b, score, varied)) = t /\ t \in Seq(RowsUpTo(b))
      /\ \A n \in 1..Len(t) : \E i \in DOMAIN g : t[n] = g[i]
      /\ GroupedBy(t, W, N) /\ W \in Seq(UidsUpTo(b)) /\ Distinct(W) /\ Len(W) = Cardinality(varied)
      /\ \A n \in 1..Len(W) : W[n][1] = b
      /\ Cardinality(varied) \in Nat
  <2>1. DapoScalars
    BY DEF DapoInv
  <2>2. b \in Nat \ {0}
    BY <1>0
  <2> HIDE DEF b
  <2> QED BY <2>1, <2>2, VariedGroups
<1>5. CASE filter
  <2>1. batch' = batch \o t /\ prompts' = prompts + Cardinality(varied)
    BY <1>4, <1>5 DEF Sample, VariedRows
  <2>2. PICK U \in Seq(UidsUpTo(d)) : Len(U) = prompts /\ Distinct(U) /\ GroupedBy(batch, U, N)
    BY <1>1, <1>5 DEF DapoInv, DapoGroups, HasGroups
  <2> HIDE DEF t, W, b, d, g, V
  <2>3. U \o W \in Seq(UidsUpTo(b)) /\ Len(U \o W) = Len(U) + Len(W) /\ Distinct(U \o W)
    BY <1>0, <1>4, <2>2, DistinctJoin
  <2>4. batch \in Seq(RowsUpTo(b)) /\ U \in Seq(UidsUpTo(b))
    <3>1. d \in Nat /\ b \in Nat /\ d <= b
      BY <1>0
    <3> QED BY <1>1, <2>2, <3>1, RowsGrow
  <2>5. GroupedBy(batch \o t, U \o W, N)
    BY <1>0, <1>4, <2>2, <2>4, GroupsJoin
  <2>6. HasGroups(batch', prompts', b)
    BY <1>4, <2>1, <2>2, <2>3, <2>5 DEF HasGroups
  <2>7. /\ batch \o t \in Seq(RowsUpTo(b)) /\ Len(batch \o t) = Len(batch) + Len(t)
        /\ \A i \in 1 .. Len(batch) + Len(t) : (batch \o t)[i] = IF i <= Len(batch) THEN batch[i] ELSE t[i - Len(batch)]
    BY <1>4, <2>4, ConcatProperties
  <2>8. \A n \in 1..Len(t) : Fit(t[n])
    BY <1>3, <1>4
  <2> HIDE DEF Fit
  <2>9. \A i \in 1..Len(batch \o t) : Fit((batch \o t)[i])
    <3> TAKE i \in 1..Len(batch \o t)
    <3>1. Len(batch) \in Nat /\ Len(t) \in Nat
      BY <1>4, <2>4, LenProperties
    <3>2. CASE i <= Len(batch)
      <4>1. i \in 1..Len(batch) /\ (batch \o t)[i] = batch[i]
        BY <2>7, <3>1, <3>2
      <4> QED BY <4>1, <1>1
    <3>3. CASE ~(i <= Len(batch))
      <4>1. i - Len(batch) \in 1..Len(t) /\ (batch \o t)[i] = t[i - Len(batch)]
        BY <2>7, <3>1, <3>3
      <4> QED BY <4>1, <2>8
    <3> QED BY <3>2, <3>3
  <2>10. prompts' \in Nat
    BY <1>0, <1>4, <2>1
  <2> QED BY <1>5, <2>1, <2>6, <2>7, <2>9, <2>10 DEF Fit, b, d
<1>6. CASE ~filter
  <2>1. batch' = g /\ prompts' = prompts
    BY <1>6 DEF Sample
  <2>2. HasGroups(g, GenBatch, b)
    <3> HIDE DEF g, b, V
    <3> QED BY <1>2 DEF HasGroups
  <2>3. DOMAIN g = 1..Len(g)
    <3> HIDE DEF g, b
    <3> QED BY <1>2, LenProperties
  <2> HIDE DEF g
  <2> QED BY <1>0, <1>2, <1>3, <1>6, <2>1, <2>2, <2>3
<1> QED BY <1>5, <1>6

\* What an update learns from: a prefix of the rows collected, of whole groups.
LEMMA CutRows ==
  ASSUME DapoInv, phase = "decide", ~Short
  PROVE  /\ Cut(batch) \in Seq(RowsUpTo(drawn.all))
         /\ \A i \in 1..Len(Cut(batch)) : i \in 1..Len(batch) /\ Cut(batch)[i] = batch[i]
         /\ \E c \in Nat : HasGroups(Cut(batch), c, drawn.all) /\ (filter => c = TrainBatch)
<1> DEFINE d == drawn.all
           c0 == IF filter THEN prompts ELSE GenBatch
<1>0. /\ N \in Nat \ {0} /\ GenBatch \in Nat \ {0} /\ TrainBatch \in Nat \ {0}
      /\ TrainBatch <= GenBatch /\ prompts \in Nat /\ filter \in BOOLEAN
  BY DapoConstants DEF DapoInv, DapoScalars
<1>1. batch \in Seq(RowsUpTo(d))
  BY DEF DapoInv, DapoRows
<1>2. PICK V \in Seq(UidsUpTo(d)) : Len(V) = c0 /\ Distinct(V) /\ GroupedBy(batch, V, N)
  BY DEF DapoInv, DapoGroups, HasGroups
<1>3. c0 \in Nat /\ TrainBatch <= c0
  BY <1>0 DEF Short
<1> HIDE DEF c0, d
<1>4. CASE filter \/ loop = "queue"
  <2> DEFINE e == TrainBatch * N
             s == SubSeq(batch, 1, e)
             U == SubSeq(V, 1, TrainBatch)
  <2>1. Cut(batch) = s
    BY <1>4 DEF Cut
  <2>2. TrainBatch \in 0..Len(V)
    BY <1>0, <1>2, <1>3
  <2>3. /\ s \in Seq(RowsUpTo(d)) /\ U \in Seq(UidsUpTo(d))
        /\ Len(s) = e /\ Len(U) = TrainBatch /\ e <= Len(batch) /\ e \in Nat
        /\ \A i \in 1..e : s[i] = batch[i]
        /\ \A i \in 1..TrainBatch : U[i] = V[i]
        /\ GroupedBy(s, U, N)
    BY <1>0, <1>1, <1>2, <2>2, GroupsCut
  <2> HIDE DEF s, U, e
  <2>4. Distinct(U)
    <3>1. \A i \in 1..TrainBatch : i \in 1..Len(V)
      BY <2>2, <1>0, <1>2, <1>3
    <3> QED BY <1>2, <2>3, <3>1 DEF Distinct
  <2>5. HasGroups(s, TrainBatch, d)
    BY <2>3, <2>4 DEF HasGroups
  <2>6. \A i \in 1..Len(s) : i \in 1..Len(batch) /\ s[i] = batch[i]
    <3>1. Len(batch) \in Nat
      BY <1>1, LenProperties
    <3> QED BY <2>3, <3>1
  <2> QED BY <1>0, <2>1, <2>3, <2>5, <2>6 DEF d
<1>5. CASE ~(filter \/ loop = "queue")
  <2>1. Cut(batch) = batch
    BY <1>5 DEF Cut
  <2>2. HasGroups(batch, c0, d)
    BY <1>2 DEF HasGroups
  <2> QED BY <1>1, <1>3, <1>5, <2>1, <2>2 DEF d
<1> QED BY <1>4, <1>5
-----------------------------------------------------------------------------
(***************************************************************************)
(* The initial states, and the steps: counters and queue.                  *)
(***************************************************************************)

\* The loops start in the invariant.
LEMMA DapoInit ==
  ASSUME Init PROVE DapoInv
<1> USE DapoConstants DEF Init
<1>1. /\ <<>> \in Policies /\ Len(<<>>) = 0 /\ \A d : <<>> \in Seq(RowsUpTo(d))
  BY DEF Policies
<1>2. limit \in Limits \union {0} /\ limit \in Nat /\ (filter \/ limit = 0)
  <2>1. CASE filter
    BY <2>1
  <2>2. CASE ~filter
    BY <2>2
  <2> QED BY <2>1, <2>2
<1>3. DapoScalars
  <2>1. loop \in Loops /\ filter \in BOOLEAN /\ phase \in Phases
    BY DEF Phases
  <2>2. /\ epoch \in Nat /\ prompts \in Nat /\ gens \in Nat /\ steps \in Nat
        /\ drawn \in [all : Nat, pass : 0..Length]
        /\ weights \in Policies
        /\ replicas \in [policy : Policies, awake : BOOLEAN]
    BY <1>1
  <2>3. /\ queue \in [held : SUBSET (Nat \union {UpdatePart}), clear : SUBSET Nat]
        /\ saved \in [steps : Nat, drawn : [all : Nat, pass : 0..Length], weights : Policies]
        /\ starts \in 0..MaxRestarts /\ ended \in Nat
    BY <1>1, <2>2
  <2> QED BY <1>2, <2>1, <2>2, <2>3 DEF DapoScalars
<1>4. DapoBounds
  BY <1>2 DEF DapoBounds
<1>5. DapoQueue
  BY DEF DapoQueue
<1>6. DapoRows
  BY <1>1 DEF DapoRows
<1>7. DapoGroups
  BY DEF DapoGroups
<1>8. DapoLearned
  BY <1>1 DEF DapoLearned, InOrder, Before
<1>9. DapoCounted
  BY <1>1 DEF DapoCounted
<1> QED BY <1>3, <1>4, <1>5, <1>6, <1>7, <1>8, <1>9 DEF DapoInv

\* The batches that the rows of an update come from.
LEMMA UpdateLearns ==
  ASSUME DapoInv, Update
  PROVE  \E B \in SUBSET (1..drawn.all) :
           /\ weights' = Append(weights, B)
           /\ \A b \in B : Before(weights, b)
<1> DEFINE s == Cut(batch)
           B == {s[i].uid[1] : i \in DOMAIN s}
<1>1. phase = "decide" /\ ~Short /\ batch' = s
  BY DEF Update
<1>2. weights' = Append(weights, {batch'[i].uid[1] : i \in DOMAIN batch'})
  BY DEF Update
<1>3. weights' = Append(weights, B)
  BY <1>1, <1>2
<1>4. /\ s \in Seq(RowsUpTo(drawn.all))
      /\ \A i \in 1..Len(s) : i \in 1..Len(batch) /\ s[i] = batch[i]
  BY <1>1, CutRows
<1>5. /\ \A i \in 1..Len(batch) : Before(weights, batch[i].uid[1])
  BY <1>1 DEF DapoInv, DapoRows
<1> HIDE DEF s
<1>6. DOMAIN s = 1..Len(s) /\ \A i \in 1..Len(s) : s[i] \in RowsUpTo(drawn.all)
  BY <1>4, LenProperties, ElementOfSeq
<1>7. \A i \in DOMAIN s : s[i].uid[1] \in 1..drawn.all /\ Before(weights, s[i].uid[1])
  BY <1>4, <1>5, <1>6 DEF RowsUpTo
<1>8. B \in SUBSET (1..drawn.all) /\ \A b \in B : Before(weights, b)
  BY <1>7
<1> HIDE DEF B
<1> QED BY <1>3, <1>8

\* Every step keeps numbers, sets and flags of their kinds.
LEMMA ScalarsKept ==
  ASSUME DapoInv, [Next]_vars
  PROVE  DapoScalars'
<1>0. DapoScalars
  BY DEF DapoInv
<1>1. CASE Start
  <2>1. epoch' \in Nat
    <3>1. saved.steps + 1 \in Nat /\ Length \in Nat \ {0}
      BY <1>0, DapoConstants DEF DapoScalars
    <3>2. (saved.steps + 1) \div Length \in Nat
      BY <3>1, DivMod
    <3> QED BY <1>1, <3>2 DEF Start, Epoch0
  <2>2. /\ prompts' \in Nat /\ gens' \in Nat /\ steps' \in Nat
        /\ drawn' \in [all : Nat, pass : 0..Length] /\ weights' \in Policies
        /\ replicas' \in [policy : Policies, awake : BOOLEAN]
        /\ queue' \in [held : SUBSET (Nat \union {UpdatePart}), clear : SUBSET Nat]
    BY <1>0, <1>1 DEF Start, DapoScalars
  <2>3. phase' \in Phases
    BY <1>1 DEF Start, Phases
  <2>4. UNCHANGED <<loop, filter, limit, saved, starts, ended>>
    BY <1>1 DEF Start, config, past
  <2> QED BY <1>0, <2>1, <2>2, <2>3, <2>4 DEF DapoScalars
<1>2. ASSUME NEW score \in [Prompt -> {0, 1}], NEW varied \in SUBSET Prompt,
             Sample(score, varied)
      PROVE  DapoScalars'
  <2>1. prompts' \in Nat
    BY <1>2, SampleRows
  <2>2. drawn' \in [all : Nat, pass : 0..Length] /\ gens' \in Nat
    BY <1>0, <1>2, DapoConstants DEF Sample, DapoScalars
  <2>3. queue' \in [held : SUBSET (Nat \union {UpdatePart}), clear : SUBSET Nat]
    BY <1>0, <1>2 DEF Sample, Listed, DapoScalars
  <2>4. phase' \in Phases
    BY <1>2 DEF Sample, Phases
  <2>5. UNCHANGED <<loop, filter, limit, epoch, steps, weights, replicas, saved, starts, ended>>
    BY <1>2 DEF Sample, config, past
  <2> QED BY <1>0, <2>1, <2>2, <2>3, <2>4, <2>5 DEF DapoScalars
<1>3. CASE KeepGenerating \/ GiveUp
  BY <1>0, <1>3 DEF KeepGenerating, GiveUp, config, past, DapoScalars, Phases
<1>4. CASE Update
  <2>1. PICK B \in SUBSET (1..drawn.all) : weights' = Append(weights, B)
    BY <1>4, UpdateLearns
  <2>2. weights' \in Policies
    <3>1. drawn.all \in Nat /\ weights \in Seq(SUBSET Nat)
      BY <1>0 DEF DapoScalars, Policies
    <3>2. B \in SUBSET Nat
      BY <3>1
    <3> QED BY <2>1, <3>1, <3>2, AppendProperties DEF Policies
  <2>3. replicas' \in [policy : Policies, awake : BOOLEAN]
    BY <1>0, <1>4 DEF Update, DapoScalars
  <2>4. queue' \in [held : SUBSET (Nat \union {UpdatePart}), clear : SUBSET Nat]
    BY <1>0, <1>4 DEF Update, DapoScalars
  <2>5. phase' \in Phases
    BY <1>4 DEF Update, Phases
  <2>6. UNCHANGED <<loop, filter, limit, epoch, drawn, prompts, gens, steps, saved, starts, ended>>
    BY <1>4 DEF Update, config, past
  <2> QED BY <1>0, <2>2, <2>3, <2>4, <2>5, <2>6 DEF DapoScalars
<1>5. ASSUME NEW expiring \in BOOLEAN, Save(expiring) PROVE DapoScalars'
  <2>1. saved' \in [steps : Nat, drawn : [all : Nat, pass : 0..Length], weights : Policies]
    BY <1>0, <1>5 DEF Save, Snapshot, DapoScalars
  <2>2. phase' \in Phases
    BY <1>5 DEF Save, Phases
  <2>3. UNCHANGED <<loop, filter, limit, epoch, drawn, prompts, gens, steps, weights, replicas, queue, starts, ended>>
    BY <1>5 DEF Save, config
  <2> QED BY <1>0, <2>1, <2>2, <2>3 DEF DapoScalars
<1>6. CASE EndStep
  <2>1. /\ prompts' \in Nat /\ gens' \in Nat /\ steps' \in Nat
        /\ replicas' \in [policy : Policies, awake : BOOLEAN]
        /\ queue' \in [held : SUBSET (Nat \union {UpdatePart}), clear : SUBSET Nat]
    BY <1>0, <1>6 DEF EndStep, DapoScalars
  <2>2. phase' \in Phases
    BY <1>6 DEF EndStep, Phases
  <2>3. UNCHANGED <<loop, filter, limit, epoch, drawn, weights, saved, starts, ended>>
    BY <1>6 DEF EndStep, config, past
  <2> QED BY <1>0, <2>1, <2>2, <2>3 DEF DapoScalars
<1>7. CASE NextEpoch
  <2>1. drawn' \in [all : Nat, pass : 0..Length] /\ epoch' \in Nat
    BY <1>0, <1>7, DapoConstants DEF NextEpoch, DapoScalars
  <2>2. UNCHANGED <<loop, filter, limit, phase, prompts, gens, steps, weights, replicas, queue, saved, starts, ended>>
    BY <1>7 DEF NextEpoch, config, past
  <2> QED BY <1>0, <2>1, <2>2 DEF DapoScalars
<1>8. CASE EndEpochs
  <2>1. saved' \in [steps : Nat, drawn : [all : Nat, pass : 0..Length], weights : Policies] /\ ended' \in Nat
    BY <1>0, <1>8 DEF EndEpochs, Snapshot, DapoScalars
  <2>2. phase' \in Phases
    BY <1>8 DEF EndEpochs, Phases
  <2>3. UNCHANGED <<loop, filter, limit, epoch, drawn, prompts, gens, steps, weights, replicas, queue, starts>>
    BY <1>8 DEF EndEpochs, config
  <2> QED BY <1>0, <2>1, <2>2, <2>3 DEF DapoScalars
<1>9. CASE Restart
  <2>1. starts' \in 0..MaxRestarts /\ phase' \in Phases
    BY <1>0, <1>9, DapoConstants DEF Restart, DapoScalars, Phases
  <2>3. UNCHANGED <<loop, filter, limit, epoch, drawn, prompts, gens, steps, weights, replicas, queue, saved, ended>>
    BY <1>9 DEF Restart, config
  <2> QED BY <1>0, <2>1, <2>3 DEF DapoScalars
<1>10. CASE UNCHANGED vars
  BY <1>0, <1>10 DEF vars, DapoScalars
<1> QED BY <1>1, <1>2, <1>3, <1>4, <1>5, <1>6, <1>7, <1>8, <1>9, <1>10 DEF Next

\* The bounds on the counters are kept.
LEMMA BoundsKept ==
  ASSUME DapoInv, [Next]_vars
  PROVE  DapoBounds'
<1>0. DapoScalars /\ DapoBounds
  BY DEF DapoInv
<1>a. /\ limit \in Nat /\ gens \in Nat /\ steps \in Nat /\ saved.steps \in Nat /\ starts \in Nat
      /\ ended \in Nat /\ TotalSteps \in Nat /\ MaxRestarts \in Nat
  BY <1>0, DapoConstants DEF DapoScalars
<1>1. CASE Start
  BY <1>0, <1>a, <1>1 DEF Start, config, past, DapoBounds
<1>2. ASSUME NEW score \in [Prompt -> {0, 1}], NEW varied \in SUBSET Prompt,
             Sample(score, varied)
      PROVE  DapoBounds'
  <2>1. /\ UNCHANGED <<limit, steps, saved, starts, ended>>
        /\ phase = "sample" /\ phase' = "decide" /\ gens' = gens + 1
    BY <1>2 DEF Sample, config, past
  <2> QED BY <1>0, <1>a, <2>1 DEF DapoBounds
<1>3. CASE KeepGenerating \/ GiveUp
  BY <1>0, <1>a, <1>3 DEF KeepGenerating, GiveUp, config, past, DapoBounds
<1>4. CASE Update
  BY <1>0, <1>a, <1>4 DEF Update, config, past, DapoBounds
<1>5. ASSUME NEW expiring \in BOOLEAN, Save(expiring) PROVE DapoBounds'
  <2>1. saved'.steps \in Nat /\ saved'.steps <= steps
    BY <1>0, <1>a, <1>5 DEF Save, Snapshot, DapoBounds
  <2> QED BY <1>0, <1>a, <1>5, <2>1 DEF Save, config, DapoBounds
<1>6. CASE EndStep
  BY <1>0, <1>a, <1>6 DEF EndStep, LastStep, config, past, DapoBounds
<1>7. CASE NextEpoch
  BY <1>0, <1>a, <1>7 DEF NextEpoch, config, past, DapoBounds
<1>8. CASE EndEpochs
  <2>1. saved'.steps \in Nat /\ saved'.steps <= steps
    BY <1>0, <1>a, <1>8 DEF EndEpochs, Snapshot, DapoBounds
  <2> QED BY <1>0, <1>a, <1>8, <2>1 DEF EndEpochs, config, DapoBounds
<1>9. CASE Restart
  BY <1>0, <1>a, <1>9 DEF Restart, config, DapoBounds
<1>10. CASE UNCHANGED vars
  BY <1>0, <1>10 DEF vars, DapoBounds
<1> QED BY <1>1, <1>2, <1>3, <1>4, <1>5, <1>6, <1>7, <1>8, <1>9, <1>10 DEF Next

\* The queue holds no more than is going to be cleared.
LEMMA QueueKept ==
  ASSUME DapoInv, [Next]_vars
  PROVE  DapoQueue'
<1>0. DapoScalars /\ DapoBounds /\ DapoQueue
  BY DEF DapoInv
<1>a. gens \in Nat /\ queue.clear \subseteq Nat
  BY <1>0 DEF DapoScalars
<1>1. CASE Start
  BY <1>0, <1>a, <1>1 DEF Start, DapoQueue
<1>2. ASSUME NEW score \in [Prompt -> {0, 1}], NEW varied \in SUBSET Prompt,
             Sample(score, varied)
      PROVE  DapoQueue'
  <2>1. /\ phase = "sample" /\ phase' = "decide"
        /\ queue' = IF loop = "queue"
                    THEN [held |-> queue.held \union {gens}, clear |-> queue.clear \union {gens}]
                    ELSE queue
    BY <1>2 DEF Sample, Listed
  <2>2. queue'.held \subseteq queue'.clear
    BY <1>0, <2>1 DEF DapoQueue
  <2> QED BY <2>1, <2>2 DEF DapoQueue
<1>3. CASE KeepGenerating \/ GiveUp
  BY <1>0, <1>3 DEF KeepGenerating, GiveUp, DapoQueue, DapoBounds
<1>4. CASE Update
  <2>1. /\ phase = "decide" /\ phase' = "save"
        /\ queue' = IF loop = "queue" THEN [queue EXCEPT !.held = @ \union {UpdatePart}] ELSE queue
    BY <1>4 DEF Update
  <2>2. queue'.held \subseteq queue'.clear \union {UpdatePart}
    BY <1>0, <2>1 DEF DapoQueue, DapoScalars
  <2> QED BY <2>1, <2>2 DEF DapoQueue
<1>5. ASSUME NEW expiring \in BOOLEAN, Save(expiring) PROVE DapoQueue'
  BY <1>0, <1>5 DEF Save, DapoQueue
<1>6. CASE EndStep
  <2>1. /\ phase = "publish" /\ phase' \in {"done", "sample"}
        /\ queue' = [held |-> queue.held \ (queue.clear \union {UpdatePart}), clear |-> {}]
    BY <1>6 DEF EndStep
  <2> QED BY <1>0, <2>1 DEF DapoQueue
<1>7. CASE NextEpoch \/ EndEpochs \/ Restart
  BY <1>0, <1>7 DEF NextEpoch, EndEpochs, Restart, DapoQueue
<1>10. CASE UNCHANGED vars
  BY <1>0, <1>10 DEF vars, DapoQueue
<1> QED BY <1>1, <1>2, <1>3, <1>4, <1>5, <1>6, <1>7, <1>10 DEF Next
-----------------------------------------------------------------------------
(***************************************************************************)
(* The steps: rows, weights and checkpoints.                               *)
(***************************************************************************)

\* What of the rows and groups only depends on these variables stays with them.
LEMMA RowsStay ==
  ASSUME DapoInv, UNCHANGED <<batch, weights, filter, prompts>>, DapoScalars',
         drawn.all' = drawn.all,
         phase' = phase \/ phase' \notin {"sample", "decide", "save"}
           \/ (phase = "decide" /\ phase' = "sample"),
         phase' \in {"sample", "decide"} => UNCHANGED replicas
  PROVE  DapoRows' /\ DapoGroups'
<1>1. DapoScalars /\ DapoRows /\ DapoGroups
  BY DEF DapoInv
<1>2. DapoRows'
  <2>1. batch' \in Seq(RowsUpTo(drawn'.all))
    BY <1>1 DEF DapoRows
  <2>2. \A i \in 1..Len(batch') : batch'[i].uid = batch'[i].answers
    BY <1>1 DEF DapoRows
  <2>3. phase' \in {"sample", "decide"} =>
          /\ replicas'.policy = weights' /\ replicas'.awake
          /\ \A i \in 1..Len(batch') :
               batch'[i].policy = weights' /\ Before(weights', batch'[i].uid[1])
    BY <1>1 DEF DapoRows
  <2>4. phase' = "save" => \A i \in 1..Len(batch') : batch'[i].policy = Front(weights')
    BY <1>1 DEF DapoRows
  <2> QED BY <2>1, <2>2, <2>3, <2>4 DEF DapoRows, Before
<1>3. DapoGroups'
  <2>1. phase' = "sample" /\ filter' => HasGroups(batch', prompts', drawn'.all)
    BY <1>1 DEF DapoGroups
  <2>2. phase' = "decide" => HasGroups(batch', IF filter' THEN prompts' ELSE GenBatch, drawn'.all)
    BY <1>1 DEF DapoGroups
  <2>3. phase' = "save" => \E c \in Nat : HasGroups(batch', c, drawn'.all) /\ (filter' => c = TrainBatch)
    BY <1>1 DEF DapoGroups
  <2> QED BY <2>1, <2>2, <2>3 DEF DapoGroups, HasGroups
<1> QED BY <1>2, <1>3

\* A step of the loop that begins has no rows.
LEMMA RowsCleared ==
  ASSUME batch' = <<>>, prompts' = 0,
         phase' \in {"sample", "done"},
         replicas'.policy = weights', replicas'.awake
  PROVE  DapoRows' /\ DapoGroups'
<1>1. Len(batch') = 0 /\ \A d : <<>> \in Seq(RowsUpTo(d))
  OBVIOUS
<1>2. DapoRows'
  BY <1>1 DEF DapoRows
<1>3. HasGroups(<<>>, 0, drawn'.all)
  BY NoGroups
<1>4. HasGroups(batch', prompts', drawn'.all)
  BY <1>3
<1>5. DapoGroups'
  BY <1>4 DEF DapoGroups, HasGroups
<1> QED BY <1>2, <1>5

\* Front undoes Append.
LEMMA FrontAppend ==
  ASSUME NEW w \in Policies, NEW B \in SUBSET Nat
  PROVE  /\ Front(Append(w, B)) = w
         /\ Append(w, B) \in Policies /\ Len(Append(w, B)) = Len(w) + 1
         /\ \A i \in 1..Len(w) : Append(w, B)[i] = w[i]
         /\ Append(w, B)[Len(w) + 1] = B
         /\ Len(w) \in Nat
<1> DEFINE v == Append(w, B)
           X == SUBSET Nat
<1>1. w \in Seq(X) /\ B \in X
  BY DEF Policies
<1> HIDE DEF X
<1>2. /\ v \in Seq(X) /\ Len(v) = Len(w) + 1
      /\ \A i \in 1..Len(w) : v[i] = w[i]
      /\ v[Len(w) + 1] = B /\ Len(w) \in Nat
  BY <1>1, AppendProperties, LenProperties
<1> HIDE DEF v
<1>3. Front(v) = SubSeq(v, 1, Len(v) - 1)
  BY DEF Front
<1>4. Len(v) - 1 = Len(w)
  BY <1>2
<1>5. SubSeq(v, 1, Len(w)) = w
  <2> DEFINE n == Len(w)
  <2>1. \A i \in 1..n : v[i] \in X
    BY <1>1, <1>2, ElementOfSeq
  <2>2. n \in Nat
    BY <1>2
  <2> HIDE DEF n
  <2>3. /\ SubSeq(v, 1, n) \in Seq(X)
        /\ Len(SubSeq(v, 1, n)) = IF 1 <= n THEN n - 1 + 1 ELSE 0
        /\ \A i \in 1..(n - 1 + 1) : SubSeq(v, 1, n)[i] = v[1 + i - 1]
    BY <2>1, <2>2, SubSeqProperties, 1 \in Int, n \in Int
  <2>4. Len(SubSeq(v, 1, n)) = n /\ \A i \in 1..n : SubSeq(v, 1, n)[i] = v[i]
    BY <2>2, <2>3
  <2>5. \A i \in 1..n : SubSeq(v, 1, n)[i] = w[i]
    BY <2>4, <1>2 DEF n
  <2> QED BY <2>3, <2>4, <2>5, <1>1, SeqEqual DEF n
<1> QED BY <1>2, <1>3, <1>4, <1>5 DEF v, X, Policies

\* Rows and groups are kept.
LEMMA RowsKept ==
  ASSUME DapoInv, [Next]_vars
  PROVE  DapoRows' /\ DapoGroups'
<1>0. DapoScalars /\ DapoRows /\ DapoGroups /\ DapoScalars'
  BY ScalarsKept DEF DapoInv
<1>1. CASE Start
  BY <1>1, RowsCleared DEF Start
<1>2. ASSUME NEW score \in [Prompt -> {0, 1}], NEW varied \in SUBSET Prompt,
             Sample(score, varied)
      PROVE  DapoRows' /\ DapoGroups'
  <2>1. /\ UNCHANGED <<filter, weights, replicas>> /\ phase = "sample" /\ phase' = "decide"
        /\ drawn'.all = drawn.all + 1
    BY <1>2 DEF Sample, config
  <2>2. /\ batch' \in Seq(RowsUpTo(drawn.all + 1))
        /\ \A i \in 1..Len(batch') :
             /\ batch'[i].uid = batch'[i].answers /\ batch'[i].policy = weights
             /\ Before(weights, batch'[i].uid[1])
        /\ HasGroups(batch', IF filter THEN prompts' ELSE GenBatch, drawn.all + 1)
    BY <1>2, SampleRows
  <2>3. DapoRows'
    <3>1. replicas.policy = weights /\ replicas.awake
      BY <1>0, <2>1 DEF DapoRows
    <3>2. \A i \in 1..Len(batch') : Before(weights', batch'[i].uid[1])
      BY <2>1, <2>2
    <3> QED BY <2>1, <2>2, <3>1, <3>2 DEF DapoRows, Before
  <2>4. HasGroups(batch', IF filter' THEN prompts' ELSE GenBatch, drawn'.all)
    BY <2>1, <2>2
  <2>5. DapoGroups'
    BY <2>1, <2>4 DEF DapoGroups, HasGroups
  <2> QED BY <2>3, <2>5
<1>3. CASE KeepGenerating
  BY <1>0, <1>3, RowsStay DEF KeepGenerating, config
<1>3a. CASE GiveUp
  BY <1>0, <1>3a, RowsStay DEF GiveUp, config
<1>4. CASE Update
  <2>1. /\ phase = "decide" /\ ~Short /\ batch' = Cut(batch) /\ phase' = "save"
        /\ UNCHANGED <<drawn, filter>>
    BY <1>4 DEF Update, config
  <2>2. /\ batch' \in Seq(RowsUpTo(drawn.all))
        /\ \A i \in 1..Len(batch') : i \in 1..Len(batch) /\ batch'[i] = batch[i]
        /\ \E c \in Nat : HasGroups(batch', c, drawn.all) /\ (filter => c = TrainBatch)
    BY <2>1, CutRows
  <2>3. Front(weights') = weights
    <3>1. PICK B \in SUBSET (1..drawn.all) : weights' = Append(weights, B)
      BY <1>4, UpdateLearns
    <3>2. B \in SUBSET Nat /\ weights \in Policies
      BY <1>0 DEF DapoScalars
    <3> QED BY <3>1, <3>2, FrontAppend
  <2>4. \A i \in 1..Len(batch') : batch'[i].uid = batch'[i].answers /\ batch'[i].policy = weights
    BY <1>0, <2>1, <2>2 DEF DapoRows
  <2>5. \A i \in 1..Len(batch') : batch'[i].policy = Front(weights')
    BY <2>3, <2>4
  <2>6. DapoRows'
    BY <2>1, <2>2, <2>4, <2>5 DEF DapoRows
  <2>7. \E c \in Nat : HasGroups(batch', c, drawn'.all) /\ (filter' => c = TrainBatch)
    BY <2>1, <2>2
  <2>8. DapoGroups'
    BY <2>1, <2>7 DEF DapoGroups, HasGroups
  <2> QED BY <2>6, <2>8
<1>5. ASSUME NEW expiring \in BOOLEAN, Save(expiring) PROVE DapoRows' /\ DapoGroups'
  BY <1>0, <1>5, RowsStay DEF Save, config
<1>6. CASE EndStep
  BY <1>6, RowsCleared DEF EndStep
<1>7. CASE NextEpoch
  <2>1. drawn'.all = drawn.all
    BY <1>0, <1>7 DEF NextEpoch, DapoScalars
  <2> QED BY <1>0, <1>7, <2>1, RowsStay DEF NextEpoch, config
<1>8. CASE EndEpochs
  BY <1>0, <1>8, RowsStay DEF EndEpochs, config
<1>9. CASE Restart
  BY <1>0, <1>9, RowsStay DEF Restart, config
<1>10. CASE UNCHANGED vars
  BY <1>0, <1>10, RowsStay DEF vars
<1> QED BY <1>1, <1>2, <1>3, <1>3a, <1>4, <1>5, <1>6, <1>7, <1>8, <1>9, <1>10 DEF Next

\* A later bound is a bound.
LEMMA BeforeGrows ==
  ASSUME NEW w \in Policies, NEW c \in Nat, NEW d \in Nat, c <= d, Before(w, c)
  PROVE  Before(w, d)
<1> SUFFICES ASSUME NEW i \in 1..Len(w), NEW b \in w[i] PROVE b < d
  BY DEF Before
<1>1. b \in Nat
  BY ElementOfSeq DEF Policies
<1>2. b < c
  BY DEF Before
<1> QED BY <1>1, <1>2

\* Weights, checkpoints and the position in the stream go on agreeing.
LEMMA LearnedKept ==
  ASSUME DapoInv, [Next]_vars
  PROVE  DapoLearned'
<1>0. DapoScalars /\ DapoLearned /\ DapoScalars'
  BY ScalarsKept DEF DapoInv
<1>a. weights \in Policies /\ drawn.all \in Nat
  BY <1>0 DEF DapoScalars
<1>1. CASE Start
  BY <1>0, <1>1 DEF Start, past, DapoLearned, InOrder, Before
<1>2. ASSUME NEW score \in [Prompt -> {0, 1}], NEW varied \in SUBSET Prompt,
             Sample(score, varied)
      PROVE  DapoLearned'
  <2>1. UNCHANGED <<weights, saved>> /\ drawn'.all = drawn.all + 1
    BY <1>2 DEF Sample, past
  <2>2. Before(weights, drawn.all + 1)
    BY <1>0 DEF DapoLearned
  <2>3. Before(weights, (drawn.all + 1) + 1)
    <3>1. drawn.all + 1 \in Nat /\ (drawn.all + 1) + 1 \in Nat /\ drawn.all + 1 <= (drawn.all + 1) + 1
      BY <1>a
    <3> QED BY <1>a, <2>2, <3>1, BeforeGrows
  <2> QED BY <1>0, <2>1, <2>3 DEF DapoLearned, InOrder, Before
<1>3. CASE KeepGenerating \/ GiveUp \/ EndStep \/ Restart \/ UNCHANGED vars
  <2>1. UNCHANGED <<weights, drawn, saved>>
    BY <1>3 DEF KeepGenerating, GiveUp, EndStep, Restart, vars, past
  <2> QED BY <1>0, <2>1 DEF DapoLearned, InOrder, Before
<1>4. CASE Update
  <2>1. PICK B \in SUBSET (1..drawn.all) :
          weights' = Append(weights, B) /\ \A b \in B : Before(weights, b)
    BY <1>4, UpdateLearns
  <2>2. B \in SUBSET Nat
    BY <1>a
  <2> DEFINE v == Append(weights, B)
             L == Len(weights)
  <2>3. /\ Len(v) = L + 1 /\ L \in Nat
        /\ \A i \in 1..L : v[i] = weights[i]
        /\ v[L + 1] = B
    BY <1>a, <2>2, FrontAppend
  <2> HIDE DEF v
  <2>4. UNCHANGED <<drawn, saved>>
    BY <1>4 DEF Update, past
  <2>5. Before(v, drawn.all + 1)
    <3> SUFFICES ASSUME NEW i \in 1..(L + 1), NEW b \in v[i] PROVE b < drawn.all + 1
      BY <2>3 DEF Before
    <3>1. CASE i \in 1..L
      BY <1>0, <2>3, <3>1 DEF DapoLearned, Before
    <3>2. CASE i = L + 1
      <4>1. b \in 1..drawn.all
        BY <2>3, <3>2
      <4> QED BY <4>1, <1>a
    <3> QED BY <2>3, <3>1, <3>2
  <2>6. InOrder(v)
    <3> SUFFICES ASSUME NEW i \in 1..(L + 1), NEW j \in 1..(L + 1), i < j,
                        NEW b \in v[i], NEW c \in v[j]
                 PROVE  b < c
      BY <2>3 DEF InOrder
    <3>0. i \in 1..L
      BY <2>3
    <3>1. CASE j \in 1..L
      BY <1>0, <2>3, <3>0, <3>1 DEF DapoLearned, InOrder
    <3>2. CASE j = L + 1
      <4>1. c \in B /\ b \in weights[i]
        BY <2>3, <3>0, <3>2
      <4>2. Before(weights, c)
        BY <4>1, <2>1
      <4> QED BY <4>1, <4>2, <3>0 DEF Before
    <3> QED BY <2>3, <3>1, <3>2
  <2>7. weights' = v
    BY <2>1 DEF v
  <2> QED BY <1>0, <2>4, <2>5, <2>6, <2>7 DEF DapoLearned, InOrder, Before
<1>5. ASSUME NEW expiring \in BOOLEAN, Save(expiring) PROVE DapoLearned'
  <2>1. UNCHANGED <<weights, drawn>>
    BY <1>5 DEF Save
  <2>2. saved' = saved \/ (saved'.weights = weights /\ saved'.drawn = drawn)
    BY <1>5 DEF Save, Snapshot
  <2> QED BY <1>0, <2>1, <2>2 DEF DapoLearned, InOrder, Before
<1>7. CASE NextEpoch
  <2>1. drawn'.all = drawn.all /\ UNCHANGED <<weights, saved>>
    BY <1>0, <1>7 DEF NextEpoch, past, DapoScalars
  <2> QED BY <1>0, <2>1 DEF DapoLearned, InOrder, Before
<1>8. CASE EndEpochs
  <2>1. UNCHANGED <<weights, drawn>>
    BY <1>8 DEF EndEpochs
  <2>2. saved' = saved \/ (saved'.weights = weights /\ saved'.drawn = drawn)
    BY <1>8 DEF EndEpochs, Snapshot
  <2> QED BY <1>0, <2>1, <2>2 DEF DapoLearned, InOrder, Before
<1> QED BY <1>1, <1>2, <1>3, <1>4, <1>5, <1>7, <1>8 DEF Next

\* Steps and updates go on agreeing.
LEMMA CountedKept ==
  ASSUME DapoInv, [Next]_vars
  PROVE  DapoCounted'
<1>0. DapoScalars /\ DapoCounted
  BY DEF DapoInv
<1>a. /\ steps \in Nat /\ saved.steps \in Nat /\ ended \in Nat /\ Len(weights) \in Nat
      /\ Len(saved.weights) \in Nat
  BY <1>0, LenProperties DEF DapoScalars, Policies
<1>1. CASE Start
  BY <1>0, <1>a, <1>1 DEF Start, past, DapoCounted
<1>2. ASSUME NEW score \in [Prompt -> {0, 1}], NEW varied \in SUBSET Prompt,
             Sample(score, varied)
      PROVE  DapoCounted'
  <2>1. /\ UNCHANGED <<steps, weights, saved, ended>> /\ phase = "sample" /\ phase' = "decide"
    BY <1>2 DEF Sample, past
  <2> QED BY <1>0, <2>1 DEF DapoCounted
<1>3. CASE KeepGenerating \/ GiveUp \/ NextEpoch \/ Restart \/ UNCHANGED vars
  BY <1>0, <1>3 DEF KeepGenerating, GiveUp, NextEpoch, Restart, vars,
                    past, DapoCounted
<1>4. CASE Update
  <2>1. PICK B \in SUBSET (1..drawn.all) : weights' = Append(weights, B)
    BY <1>4, UpdateLearns
  <2>2. B \in SUBSET Nat /\ weights \in Policies
    BY <1>0 DEF DapoScalars
  <2>3. Len(weights') = Len(weights) + 1
    BY <2>1, <2>2, FrontAppend
  <2>4. UNCHANGED <<steps, saved, ended>> /\ phase = "decide" /\ phase' = "save"
    BY <1>4 DEF Update, past
  <2> QED BY <1>0, <1>a, <2>3, <2>4 DEF DapoCounted
<1>5. ASSUME NEW expiring \in BOOLEAN, Save(expiring) PROVE DapoCounted'
  <2>1. UNCHANGED <<steps, weights, ended>> /\ phase = "save" /\ phase' = "publish"
    BY <1>5 DEF Save
  <2>2. saved' = saved \/ (saved'.weights = weights /\ saved'.steps = steps)
    BY <1>5 DEF Save, Snapshot
  <2> QED BY <1>0, <2>1, <2>2 DEF DapoCounted
<1>6. CASE EndStep
  BY <1>0, <1>a, <1>6 DEF EndStep, past, DapoCounted
<1>8. CASE EndEpochs
  <2>1. ended' # 0
    BY <1>a, <1>8 DEF EndEpochs
  <2> QED BY <2>1 DEF DapoCounted
<1> QED BY <1>1, <1>2, <1>3, <1>4, <1>5, <1>6, <1>8 DEF Next

\* The invariant is inductive.
LEMMA DapoNext ==
  ASSUME DapoInv, [Next]_vars
  PROVE  DapoInv'
BY ScalarsKept, BoundsKept, QueueKept, RowsKept, LearnedKept, CountedKept DEF DapoInv

\* It implies the properties.
LEMMA DapoImplies ==
  ASSUME DapoInv
  PROVE  BatchesWhole /\ CheckpointsAgree
<1>0. DapoScalars /\ DapoBounds /\ DapoQueue /\ DapoRows /\ DapoGroups /\ DapoLearned /\ DapoCounted
  BY DEF DapoInv
<1>a. /\ batch \in Seq(RowsUpTo(drawn.all)) /\ DOMAIN batch = 1..Len(batch) /\ Len(batch) \in Nat
      /\ \A i \in 1..Len(batch) : batch[i] \in RowsUpTo(drawn.all)
  BY <1>0, LenProperties, ElementOfSeq DEF DapoRows
<1>b. N \in Nat \ {0} /\ TotalSteps \in Nat /\ MaxRestarts \in Nat
  BY DapoConstants
<1>1. TypeOK
  <2>1. \A i \in DOMAIN batch :
          /\ batch[i].uid \in (1..drawn.all) \X Prompt
          /\ batch[i].answers \in (1..drawn.all) \X Prompt
    BY <1>a DEF RowsUpTo
  <2>2. steps \in 0..(TotalSteps + MaxRestarts) /\ saved.steps \in 0..(TotalSteps + MaxRestarts)
    <3>1. /\ steps \in Nat /\ saved.steps \in Nat /\ starts \in Nat /\ starts <= MaxRestarts
          /\ steps <= TotalSteps + starts
          /\ phase = "down" => saved.steps + 1 <= TotalSteps + starts
          /\ phase # "down" => saved.steps <= steps
      BY <1>0, <1>b DEF DapoScalars, DapoBounds
    <3> QED BY <3>1, <1>b
  <2>3. ended \in 0..(MaxRestarts + 1)
    BY <1>0, <1>b DEF DapoScalars, DapoBounds
  <2>4. /\ limit > 0 => gens <= limit
    BY <1>0 DEF DapoBounds
  <2>5. /\ replicas.awake \in BOOLEAN
        /\ queue.clear \subseteq Nat /\ queue.held \subseteq Nat \union {UpdatePart}
    BY <1>0 DEF DapoScalars
  <2> QED BY <1>0, <2>1, <2>2, <2>3, <2>4, <2>5 DEF TypeOK, DapoScalars
<1>2. RowsAligned
  BY <1>0, <1>a DEF DapoRows, RowsAligned
<1>3. WholeGroups
  <2> SUFFICES ASSUME phase = "save"
               PROVE  /\ \A i \in DOMAIN batch :
                           Cardinality({j \in DOMAIN batch : batch[j].uid = batch[i].uid}) = N
                      /\ filter => Len(batch) = TrainBatch * N
    BY DEF WholeGroups
  <2>1. PICK c \in Nat : HasGroups(batch, c, drawn.all) /\ (filter => c = TrainBatch)
    BY <1>0 DEF DapoGroups
  <2>2. PICK V \in Seq(UidsUpTo(drawn.all)) : Len(V) = c /\ Distinct(V) /\ GroupedBy(batch, V, N)
    BY <2>1 DEF HasGroups
  <2>3. \A i \in DOMAIN batch :
          Cardinality({j \in DOMAIN batch : batch[j].uid = batch[i].uid}) = N
    BY <1>a, <1>b, <2>2, GroupsWhole
  <2>4. filter => Len(batch) = TrainBatch * N
    BY <2>1, <2>2 DEF GroupedBy
  <2> QED BY <2>3, <2>4
<1>4. OnPolicy
  BY <1>0, <1>a DEF DapoRows, OnPolicy
<1>5. QueueDrained
  BY <1>0 DEF DapoQueue, QueueDrained
<1>6. GeneratesAwake
  BY <1>0 DEF DapoRows, GeneratesAwake
<1>7. LearnsInOrder
  <2>1. DOMAIN weights = 1..Len(weights)
    BY <1>0, LenProperties DEF DapoScalars, Policies
  <2> QED BY <1>0, <2>1 DEF DapoLearned, InOrder, LearnsInOrder
<1>8. CheckpointHoldsItsSteps
  BY <1>0 DEF DapoCounted, CheckpointHoldsItsSteps
<1> QED BY <1>1, <1>2, <1>3, <1>4, <1>5, <1>6, <1>7, <1>8 DEF BatchesWhole, CheckpointsAgree

\* Every reachable state of the loops satisfies the invariant.
LEMMA DapoAlways ==
  Spec => []DapoInv
<1>1. Init => DapoInv
  BY DapoInit
<1>2. DapoInv /\ [Next]_vars => DapoInv'
  BY DapoNext
<1> QED BY <1>1, <1>2, PTL DEF Spec

\* The batch of every update consists of whole groups, N rows for each of its
\* prompts (TrainBatch prompts when groups are filtered), each row joined with the
\* response to its own prompt and generated by the policy in training; the
\* replicas are awake when they generate, and the queue of a step holds only what
\* the step clears: for every order of the prompts, every rewards, and any
\* number of generation batches, steps, epochs and restarts.
THEOREM BatchesStayWhole ==
  Spec => []BatchesWhole
<1>1. DapoInv => BatchesWhole
  BY DapoImplies
<1> QED BY <1>1, DapoAlways, PTL

\* Weights learn from the batches of the stream in their order and from none
\* twice, across restarts, and a checkpoint holds as many updates as its number of
\* steps says, as long as no run has used up its epochs.
THEOREM CheckpointsStayTrue ==
  Spec => []CheckpointsAgree
<1>1. DapoInv => CheckpointsAgree
  BY DapoImplies
<1> QED BY <1>1, DapoAlways, PTL
-----------------------------------------------------------------------------
(***************************************************************************)
(* The validation of drkernel: ValidationResume.  It shares nothing with    *)
(* the loops above; its proofs are here for what is proved above of         *)
(* Retained, of the groups in a sequence and of the rows of a prompt.       *)
(***************************************************************************)
-----------------------------------------------------------------------------
(***************************************************************************)
(* How often a value occurs in a sequence.                                 *)
(***************************************************************************)
Places(k, s) == {i \in DOMAIN s : s[i] = k}
Times(k, s)  == Cardinality(Places(k, s))

\* It is a number, and positive for the values in the sequence.
LEMMA TimesNat ==
  ASSUME NEW X, NEW s \in Seq(X), NEW k
  PROVE  /\ IsFiniteSet(Places(k, s)) /\ Times(k, s) \in Nat
         /\ (k \in ToSet(s) <=> Times(k, s) > 0)
<1>1. Len(s) \in Nat /\ DOMAIN s = 1..Len(s)
  BY LenProperties
<1>2. IsFiniteSet(1..Len(s))
  BY <1>1, 1 \in Int, Len(s) \in Int, FS_Interval
<1>3. Places(k, s) \subseteq 1..Len(s)
  BY <1>1 DEF Places
<1>4. IsFiniteSet(Places(k, s)) /\ Times(k, s) \in Nat
  BY <1>2, <1>3, FS_Subset, FS_CardinalityType DEF Times
<1>5. Times(k, s) = 0 <=> Places(k, s) = {}
  BY <1>4, FS_EmptySet DEF Times
<1>6. k \in ToSet(s) <=> Places(k, s) # {}
  BY DEF ToSet, Places
<1> QED BY <1>4, <1>5, <1>6

\* Nothing occurs in the empty sequence, one element in that of one.
LEMMA TimesOne ==
  ASSUME NEW k, NEW x
  PROVE  /\ Times(k, <<>>) = 0
         /\ Times(k, <<x>>) = IF x = k THEN 1 ELSE 0
<1>1. Places(k, <<>>) = {}
  BY DEF Places
<1>2. Places(k, <<x>>) = IF x = k THEN {1} ELSE {}
  BY DEF Places
<1>3. Cardinality({1}) = 1 /\ Cardinality({}) = 0
  BY FS_Singleton, FS_EmptySet
<1> QED BY <1>1, <1>2, <1>3 DEF Times

\* What follows adds its own.
LEMMA TimesJoin ==
  ASSUME NEW X, NEW s \in Seq(X), NEW t \in Seq(X), NEW k
  PROVE  Times(k, s \o t) = Times(k, s) + Times(k, t)
<1>1. /\ Len(s) \in Nat /\ DOMAIN s = 1..Len(s) /\ Len(t) \in Nat /\ DOMAIN t = 1..Len(t)
      /\ s \o t \in Seq(X) /\ Len(s \o t) = Len(s) + Len(t)
      /\ DOMAIN (s \o t) = 1..(Len(s) + Len(t))
      /\ \A i \in 1..Len(s) : (s \o t)[i] = s[i]
      /\ \A i \in 1..Len(t) : (s \o t)[Len(s) + i] = t[i]
  <2>1. s \o t \in Seq(X) /\ Len(s \o t) = Len(s) + Len(t)
    BY ConcatProperties
  <2>2. Len(s) \in Nat /\ DOMAIN s = 1..Len(s) /\ Len(t) \in Nat /\ DOMAIN t = 1..Len(t)
        /\ DOMAIN (s \o t) = 1..Len(s \o t)
    BY <2>1, LenProperties
  <2>3. \A i \in 1..(Len(s) + Len(t)) : (s \o t)[i] = IF i <= Len(s) THEN s[i] ELSE t[i - Len(s)]
    BY ConcatProperties
  <2>4. \A i \in 1..Len(s) : (s \o t)[i] = s[i]
    BY <2>2, <2>3
  <2>5. ASSUME NEW i \in 1..Len(t) PROVE (s \o t)[Len(s) + i] = t[i]
    <3>1. Len(s) + i \in 1..(Len(s) + Len(t)) /\ ~(Len(s) + i <= Len(s)) /\ (Len(s) + i) - Len(s) = i
      BY <2>2
    <3> QED BY <3>1, <2>3
  <2> QED BY <2>1, <2>2, <2>4, <2>5
<1> DEFINE A == Places(k, s)
           B == Places(k, t)
           C == {Len(s) + i : i \in B}
           f == [i \in B |-> Len(s) + i]
<1>2. IsFiniteSet(A) /\ IsFiniteSet(B) /\ B \subseteq 1..Len(t) /\ A \subseteq 1..Len(s)
  BY <1>1, TimesNat DEF Places
<1>3. f \in Bijection(B, C)
  <2>1. f \in [B -> C]
    OBVIOUS
  <2>2. \A x, y \in B : f[x] = f[y] => x = y
    BY <1>1, <1>2
  <2>3. \A c \in C : \E x \in B : f[x] = c
    OBVIOUS
  <2> QED BY <2>1, <2>2, <2>3 DEF Bijection, Injection, Surjection, IsInjective
<1>4. IsFiniteSet(C) /\ Cardinality(C) = Cardinality(B)
  BY <1>2, <1>3, FS_Bijection DEF ExistsBijection
<1>5. A \cap C = {}
  BY <1>1, <1>2
<1>6. Places(k, s \o t) = A \cup C
  <2>1. ASSUME NEW i \in Places(k, s \o t) PROVE i \in A \cup C
    <3>1. i \in 1..(Len(s) + Len(t)) /\ (s \o t)[i] = k
      BY <1>1, <2>1 DEF Places
    <3>2. CASE i <= Len(s)
      <4>1. i \in 1..Len(s)
        BY <3>1, <3>2, <1>1
      <4> QED BY <4>1, <3>1, <1>1 DEF Places
    <3>3. CASE ~(i <= Len(s))
      <4>1. i - Len(s) \in 1..Len(t) /\ Len(s) + (i - Len(s)) = i
        BY <3>1, <3>3, <1>1
      <4>2. t[i - Len(s)] = k
        BY <4>1, <3>1, <1>1
      <4>3. i - Len(s) \in B
        BY <4>1, <4>2, <1>1 DEF Places
      <4> QED BY <4>1, <4>3
    <3> QED BY <3>2, <3>3
  <2>2. A \subseteq Places(k, s \o t)
    BY <1>1 DEF Places
  <2>3. ASSUME NEW i \in B PROVE Len(s) + i \in Places(k, s \o t)
    <3>1. i \in 1..Len(t) /\ t[i] = k
      BY <1>1, <2>3 DEF Places
    <3>2. Len(s) + i \in 1..(Len(s) + Len(t))
      BY <3>1, <1>1
    <3> QED BY <3>1, <3>2, <1>1 DEF Places
  <2> QED BY <2>1, <2>2, <2>3
<1> HIDE DEF A, B, C, f
<1>7. Cardinality(A \cup C) = Cardinality(A) + Cardinality(C) - Cardinality({})
  BY <1>2, <1>4, <1>5, FS_Union
<1>8. Cardinality({}) = 0 /\ Cardinality(A) \in Nat /\ Cardinality(C) \in Nat
  BY <1>2, <1>4, FS_EmptySet, FS_CardinalityType
<1> QED BY <1>4, <1>6, <1>7, <1>8 DEF Times, A, B

\* A cut takes none away but those behind it.
LEMMA TimesCut ==
  ASSUME NEW X, NEW s \in Seq(X), NEW e \in 0..Len(s), NEW k
  PROVE  Times(k, SubSeq(s, 1, e)) <= Times(k, s)
<1>1. Len(s) \in Nat /\ DOMAIN s = 1..Len(s)
  BY LenProperties
<1>2. /\ SubSeq(s, 1, e) \in Seq(X) /\ Len(SubSeq(s, 1, e)) = e
      /\ \A i \in 1..e : SubSeq(s, 1, e)[i] = s[i]
  BY <1>1, 1 \in Int, e \in Int, SubSeqProperties
<1>3. DOMAIN SubSeq(s, 1, e) = 1..e
  BY <1>2, LenProperties
<1>4. Places(k, SubSeq(s, 1, e)) \subseteq Places(k, s)
  BY <1>1, <1>2, <1>3 DEF Places
<1>5. IsFiniteSet(Places(k, s))
  BY TimesNat
<1> QED BY <1>4, <1>5, FS_Subset DEF Times

\* All but the first, and all but the last.
LEMMA TimesEnds ==
  ASSUME NEW X, NEW s \in Seq(X), s # <<>>, NEW k
  PROVE  /\ Tail(s) \in Seq(X) /\ Len(Tail(s)) = Len(s) - 1
         /\ Front(s) \in Seq(X) /\ Len(Front(s)) = Len(s) - 1
         /\ Times(k, s) = Times(k, Tail(s)) + (IF s[1] = k THEN 1 ELSE 0)
         /\ Times(k, s) = Times(k, Front(s)) + (IF s[Len(s)] = k THEN 1 ELSE 0)
<1>1. Len(s) \in Nat /\ Len(s) # 0 /\ 1 \in 1..Len(s) /\ Len(s) \in 1..Len(s)
      /\ s[1] \in X /\ s[Len(s)] \in X /\ SubSeq(s, 1, Len(s)) = s
  <2>1. Len(s) \in Nat /\ Len(s) # 0
    BY LenProperties, EmptySeq
  <2>2. 1 \in 1..Len(s) /\ Len(s) \in 1..Len(s)
    BY <2>1
  <2> QED BY <2>1, <2>2, ElementOfSeq, SubSeqFull
<1>2. s = <<s[1]>> \o SubSeq(s, 2, Len(s)) /\ Tail(s) = SubSeq(s, 2, Len(s))
  <2>1. SubSeq(s, 1, Len(s)) = <<s[1]>> \o SubSeq(s, 1 + 1, Len(s))
    BY <1>1, SubSeqRecursiveFirst
  <2> QED BY <2>1, <1>1, TailIsSubSeq
<1>3. s = SubSeq(s, 1, Len(s) - 1) \o <<s[Len(s)]>>
  BY <1>1, SubSeqRecursiveSecond
<1>4. Tail(s) \in Seq(X) /\ Len(Tail(s)) = Len(s) - 1
  BY HeadTailProperties
<1>5. Front(s) \in Seq(X) /\ Len(Front(s)) = Len(s) - 1
  <2>1. Len(s) - 1 \in Int /\ \A i \in 1..(Len(s) - 1) : s[i] \in X
    <3>1. \A i \in 1..Len(s) : s[i] \in X
      BY ElementOfSeq
    <3> QED BY <3>1, <1>1
  <2>2. /\ SubSeq(s, 1, Len(s) - 1) \in Seq(X)
        /\ Len(SubSeq(s, 1, Len(s) - 1)) = IF 1 <= Len(s) - 1 THEN Len(s) - 1 - 1 + 1 ELSE 0
    BY <2>1, 1 \in Int, SubSeqProperties
  <2> QED BY <2>2, <1>1 DEF Front
<1>6. <<s[1]>> \in Seq(X) /\ <<s[Len(s)]>> \in Seq(X)
  BY <1>1
<1>7. Times(k, s) = Times(k, <<s[1]>>) + Times(k, Tail(s))
  <2>1. Times(k, <<s[1]>> \o Tail(s)) = Times(k, <<s[1]>>) + Times(k, Tail(s))
    BY <1>4, <1>6, TimesJoin
  <2> QED BY <2>1, <1>2
<1>8. Times(k, s) = Times(k, Front(s)) + Times(k, <<s[Len(s)]>>)
  <2>1. Times(k, Front(s) \o <<s[Len(s)]>>) = Times(k, Front(s)) + Times(k, <<s[Len(s)]>>)
    BY <1>5, <1>6, TimesJoin
  <2> QED BY <2>1, <1>3 DEF Front
<1>9. Times(k, Tail(s)) \in Nat /\ Times(k, Front(s)) \in Nat
  BY <1>4, <1>5, TimesNat
<1>10. /\ Times(k, <<s[1]>>) = IF s[1] = k THEN 1 ELSE 0
       /\ Times(k, <<s[Len(s)]>>) = IF s[Len(s)] = k THEN 1 ELSE 0
  BY TimesOne
<1> QED BY <1>4, <1>5, <1>7, <1>8, <1>9, <1>10

\* What is retained of a sequence occurs in it as often, or more.
LEMMA TimesRetained ==
  ASSUME NEW X, NEW s \in Seq(X), NEW I, I \subseteq DOMAIN s, NEW k
  PROVE  Times(k, Retained(s, I)) <= Times(k, s)
<1> DEFINE t == Retained(s, I)
           A == Places(k, t)
           B == Places(k, s)
           f == [n \in A |-> Position(I, n)]
<1>1. /\ t \in Seq(X) /\ Len(t) = Cardinality(I) /\ IsFiniteSet(I)
      /\ \A n \in 1..Cardinality(I) : t[n] = s[Position(I, n)]
  BY RetainedIs
<1>2. DOMAIN t = 1..Cardinality(I)
  BY <1>1, LenProperties
<1>3. I \subseteq Int
  BY LenProperties
<1>4. \A n \in 1..Cardinality(I) : Position(I, n) \in I /\ Rank(I, Position(I, n)) = n
  BY <1>1, <1>3, RanksNumber
<1> HIDE DEF t
<1>5. f \in Injection(A, B)
  <2>1. ASSUME NEW n \in A PROVE f[n] \in B
    <3>1. n \in 1..Cardinality(I) /\ t[n] = k
      BY <1>2 DEF Places
    <3>2. Position(I, n) \in DOMAIN s /\ s[Position(I, n)] = k
      BY <3>1, <1>1, <1>4
    <3> QED BY <3>2 DEF Places
  <2>2. f \in [A -> B]
    BY <2>1
  <2>3. \A x, y \in A : f[x] = f[y] => x = y
    <3> TAKE x \in A, y \in A
    <3>1. x \in 1..Cardinality(I) /\ y \in 1..Cardinality(I)
      BY <1>2 DEF Places
    <3> QED BY <3>1, <1>4
  <2> QED BY <2>2, <2>3 DEF Injection, IsInjective
<1>6. IsFiniteSet(B)
  BY TimesNat
<1> HIDE DEF A, B, f
<1>7. Cardinality(A) <= Cardinality(B)
  BY <1>5, <1>6, FS_Injection
<1> QED BY <1>7 DEF Times, A, B, t

-----------------------------------------------------------------------------
(***************************************************************************)
(* Prompts that are repeated n times each (repeat with interleave).        *)
(***************************************************************************)
Repeated(s, n) == [i \in 1..(n * Len(s)) |-> s[((i - 1) \div n) + 1]]

\* Row r of the j-th prompt is at (j - 1) * n + r.
LEMMA RepeatedRow ==
  ASSUME NEW X, NEW s \in Seq(X), NEW n \in Nat \ {0}, NEW j \in 1..Len(s), NEW r \in 1..n
  PROVE  /\ (j - 1) * n + r \in 1..(n * Len(s)) /\ (j - 1) * n \in Nat
         /\ Repeated(s, n)[(j - 1) * n + r] = s[j]
<1>1. Len(s) \in Nat /\ j - 1 \in Nat /\ (j - 1) + 1 = j
  BY LenProperties
<1>2. PICK c \in Nat : c = Len(s)
  BY <1>1
<1>3. n * Len(s) = c * n
  BY <1>2
<1>4. (j - 1) * n + r \in 1..(c * n) /\ (j - 1) * n \in Nat
  BY <1>2, RowInside
<1>5. ((j - 1) * n + r - 1) \div n = j - 1
  BY <1>1, GroupOf
<1>6. PICK i : i = (j - 1) * n + r
  OBVIOUS
<1>7. i \in 1..(n * Len(s)) /\ (i - 1) \div n = j - 1
  BY <1>3, <1>4, <1>5, <1>6
<1>8. Repeated(s, n)[i] = s[j]
  BY <1>1, <1>7 DEF Repeated
<1> QED BY <1>4, <1>6, <1>7, <1>8

\* Row i is row r of some prompt.
IsRow(s, n, i) == \E j \in 1..Len(s), r \in 1..n : i = (j - 1) * n + r

\* Every row is.
LEMMA RepeatedRows ==
  ASSUME NEW X, NEW s \in Seq(X), NEW n \in Nat \ {0}, NEW m, m = n * Len(s), NEW i \in 1..m
  PROVE  IsRow(s, n, i)
<1>1. PICK c \in Nat : c = Len(s)
  BY LenProperties
<1>2. i \in 1..(c * n)
  BY <1>1
<1>3. \E j \in 1..c, r \in 1..n : i = (j - 1) * n + r
  BY <1>2, RowSplits
<1> QED BY <1>1, <1>3 DEF IsRow

\* The rows are a sequence of n rows for each prompt.
LEMMA RepeatedIs ==
  ASSUME NEW X, NEW s \in Seq(X), NEW n \in Nat \ {0}
  PROVE  /\ Repeated(s, n) \in Seq(X) /\ Len(Repeated(s, n)) = n * Len(s)
         /\ n * Len(s) \in Nat /\ DOMAIN Repeated(s, n) = 1..(n * Len(s))
<1>1. Len(s) \in Nat /\ \A i \in 1..Len(s) : s[i] \in X
  BY LenProperties, ElementOfSeq
<1>2. PICK m \in Nat : m = n * Len(s)
  BY <1>1
<1>3. ASSUME NEW i \in 1..m PROVE Repeated(s, n)[i] \in X
  <2>0. IsRow(s, n, i)
    BY <1>2, RepeatedRows
  <2>1. PICK j \in 1..Len(s), r \in 1..n : i = (j - 1) * n + r
    BY <2>0 DEF IsRow
  <2>2. Repeated(s, n)[(j - 1) * n + r] = s[j]
    BY RepeatedRow
  <2> QED BY <2>1, <2>2, <1>1
<1>4. DOMAIN Repeated(s, n) = 1..m /\ Repeated(s, n) = [i \in 1..m |-> Repeated(s, n)[i]]
  BY <1>2 DEF Repeated
<1>5. PICK R : R = Repeated(s, n)
  OBVIOUS
<1>6. R \in [1..m -> X]
  BY <1>3, <1>4, <1>5
<1>7. R \in Seq(X)
  BY <1>6
<1>8. Len(R) \in Nat /\ DOMAIN R = 1..Len(R)
  BY <1>7, LenProperties
<1>9. Len(R) = m
  BY <1>4, <1>5, <1>8
<1> QED BY <1>2, <1>4, <1>5, <1>7, <1>9

\* Rows of different prompts are different.
LEMMA SameRow ==
  ASSUME NEW n \in Nat \ {0}, NEW a \in Nat, NEW b \in Nat, NEW r \in 1..n, NEW q \in 1..n,
         a * n + r = b * n + q
  PROVE  a = b /\ r = q
<1>1. PICK x \in Nat : x = a * n + r
  BY GroupOf
<1>2. (a * n + r - 1) \div n = a /\ (b * n + q - 1) \div n = b
  BY GroupOf
<1>3. a * n + r - 1 = x - 1 /\ b * n + q - 1 = x - 1
  BY <1>1
<1>4. a = b
  BY <1>2, <1>3
<1>5. PICK y \in Nat : y = a * n
  OBVIOUS
<1> QED BY <1>4, <1>5

\* A value occurs n times as often.
LEMMA TimesRepeated ==
  ASSUME NEW X, NEW s \in Seq(X), NEW n \in Nat \ {0}, NEW k
  PROVE  Times(k, Repeated(s, n)) = n * Times(k, s)
<1> DEFINE A == Places(k, s)
           B == Places(k, Repeated(s, n))
           f == [p \in A \X (1..n) |-> (p[1] - 1) * n + p[2]]
<1>0. Len(s) \in Nat /\ DOMAIN s = 1..Len(s)
  BY LenProperties
<1>1. IsFiniteSet(A) /\ Cardinality(A) \in Nat
  BY TimesNat, FS_CardinalityType
<1>2. IsFiniteSet(1..n) /\ Cardinality(1..n) = n
  <2>1. 1 \in Int /\ n \in Int
    OBVIOUS
  <2> QED BY <2>1, FS_Interval
<1>3. IsFiniteSet(A \X (1..n)) /\ Cardinality(A \X (1..n)) = Cardinality(A) * n
  <2>1. IsFiniteSet(A \X (1..n)) /\ Cardinality(A \X (1..n)) = Cardinality(A) * Cardinality(1..n)
    BY <1>1, <1>2, FS_Product
  <2> QED BY <2>1, <1>2
<1>4. f \in Bijection(A \X (1..n), B)
  <2>1. ASSUME NEW p \in A \X (1..n)
        PROVE  p[1] \in 1..Len(s) /\ p[2] \in 1..n /\ s[p[1]] = k
    BY <1>0 DEF Places
  <2>2. ASSUME NEW p \in A \X (1..n) PROVE f[p] \in B
    <3>1. /\ (p[1] - 1) * n + p[2] \in 1..(n * Len(s))
          /\ Repeated(s, n)[(p[1] - 1) * n + p[2]] = s[p[1]]
          /\ DOMAIN Repeated(s, n) = 1..(n * Len(s))
      BY <2>1, RepeatedIs, RepeatedRow
    <3> QED BY <3>1, <2>1 DEF Places
  <2>3. ASSUME NEW p \in A \X (1..n), NEW q \in A \X (1..n), f[p] = f[q] PROVE p = q
    <3>1. p[1] - 1 \in Nat /\ q[1] - 1 \in Nat /\ p[2] \in 1..n /\ q[2] \in 1..n
      BY <2>1, <1>0
    <3>2. (p[1] - 1) * n + p[2] = (q[1] - 1) * n + q[2]
      BY <2>3
    <3>3. p[1] - 1 = q[1] - 1 /\ p[2] = q[2]
      <4>1. PICK a \in Nat, b \in Nat, c \in 1..n, d \in 1..n :
              a = p[1] - 1 /\ b = q[1] - 1 /\ c = p[2] /\ d = q[2]
        BY <3>1
      <4>2. a * n + c = b * n + d
        BY <4>1, <3>2
      <4>3. a = b /\ c = d
        BY <4>2, SameRow
      <4> QED BY <4>1, <4>3
    <3>5. p[1] = q[1]
      BY <3>3, <2>1, <1>0
    <3> QED BY <3>3, <3>5
  <2>4. ASSUME NEW i \in B PROVE \E p \in A \X (1..n) : f[p] = i
    <3>1. i \in 1..(n * Len(s)) /\ Repeated(s, n)[i] = k
      BY RepeatedIs DEF Places
    <3>2. PICK j \in 1..Len(s), r \in 1..n : i = (j - 1) * n + r
      <4>1. PICK m : m = n * Len(s)
        OBVIOUS
      <4>2. i \in 1..m
        BY <3>1, <4>1
      <4>3. IsRow(s, n, i)
        BY <4>1, <4>2, RepeatedRows
      <4> QED BY <4>3 DEF IsRow
    <3>3. s[j] = k
      <4>1. Repeated(s, n)[(j - 1) * n + r] = s[j]
        BY RepeatedRow
      <4> QED BY <4>1, <3>1, <3>2
    <3>4. <<j, r>> \in A \X (1..n)
      BY <3>3, <1>0 DEF Places
    <3>5. f[<<j, r>>] = i
      BY <3>4, <3>2
    <3> QED BY <3>4, <3>5
  <2> HIDE DEF A, B
  <2>5. f \in [A \X (1..n) -> B]
    BY <2>2
  <2> HIDE DEF f
  <2> QED BY <2>3, <2>4, <2>5 DEF Bijection, Injection, Surjection, IsInjective
<1> HIDE DEF A, B, f
<1>5. Cardinality(B) = Cardinality(A) * n
  BY <1>3, <1>4, FS_Bijection DEF ExistsBijection
<1> QED BY <1>1, <1>5 DEF Times, A, B

\* A cut within the rows tears the rows of one prompt at most: the one whose
\* row is the last.
LEMMA RepeatedWhole ==
  ASSUME NEW X, NEW s \in Seq(X), NEW n \in Nat \ {0}, NEW e \in 1..(n * Len(s)),
         NEW k \in ToSet(SubSeq(Repeated(s, n), 1, e)), k # Repeated(s, n)[e]
  PROVE  Times(k, SubSeq(Repeated(s, n), 1, e)) >= n
<1> DEFINE R == Repeated(s, n)
           t == SubSeq(R, 1, e)
<1>0. Len(s) \in Nat /\ DOMAIN s = 1..Len(s)
  BY LenProperties
<1>1. /\ R \in Seq(X) /\ Len(R) = n * Len(s) /\ n * Len(s) \in Nat
      /\ \A i \in 1..(n * Len(s)) : R[i] \in X
  <2>1. R \in Seq(X) /\ Len(R) = n * Len(s) /\ n * Len(s) \in Nat
    BY RepeatedIs
  <2> HIDE DEF R
  <2> QED BY <2>1, ElementOfSeq
<1>2. /\ t \in Seq(X) /\ Len(t) = e /\ \A i \in 1..e : t[i] = R[i]
  <2> HIDE DEF R
  <2>1. \A i \in 1..e : R[i] \in X
    BY <1>1
  <2>2. /\ t \in Seq(X) /\ Len(t) = (IF 1 <= e THEN e - 1 + 1 ELSE 0)
        /\ \A i \in 1..(e - 1 + 1) : t[i] = R[1 + i - 1]
    BY <2>1, 1 \in Int, e \in Int, SubSeqProperties
  <2> HIDE DEF t
  <2> QED BY <2>2, <1>1
<1>3. DOMAIN t = 1..e
  <2> HIDE DEF t
  <2> QED BY <1>2, LenProperties
<1>4. PICK i \in 1..e : R[i] = k
  <2>1. k \in ToSet(t)
    OBVIOUS
  <2> HIDE DEF t
  <2>2. PICK i \in DOMAIN t : t[i] = k
    BY <2>1 DEF ToSet
  <2> HIDE DEF R
  <2> QED BY <1>2, <1>3, <2>2
<1>a. PICK m \in Nat : m = n * Len(s) /\ i \in 1..m /\ e \in 1..m
  BY <1>1
<1>b. IsRow(s, n, i) /\ IsRow(s, n, e)
  BY <1>a, RepeatedRows
<1> HIDE DEF R, t
<1>5. PICK j \in 1..Len(s), r \in 1..n : i = (j - 1) * n + r
  BY <1>b DEF IsRow
<1>6. PICK j2 \in 1..Len(s), r2 \in 1..n : e = (j2 - 1) * n + r2
  BY <1>b DEF IsRow
<1>7. s[j] = k /\ s[j2] = R[e]
  <2>1. R[(j - 1) * n + r] = s[j]
    BY RepeatedRow DEF R
  <2>2. R[(j2 - 1) * n + r2] = s[j2]
    BY RepeatedRow DEF R
  <2> QED BY <2>1, <2>2, <1>4, <1>5, <1>6
<1>8. j # j2
  BY <1>7 DEF R
<1> DEFINE a == (j - 1) * n
<1>9. a \in Nat
  BY RepeatedRow
<1>10. a + n <= e
  <2>1. PICK x \in Nat, y \in Nat : x = j - 1 /\ y = j2 - 1
    BY <1>0
  <2>2. x * n + r <= y * n + r2 /\ r \in 1..n /\ r2 \in 1..n
    BY <2>1, <1>5, <1>6
  <2>3. x < y
    <3>1. CASE y < x
      <4>1. PICK d \in Nat : x = y + 1 + d
        <5>1. x - y - 1 \in Nat /\ x = y + 1 + (x - y - 1)
          BY <3>1
        <5> QED BY <5>1
      <4>2. x * n = y * n + n + d * n /\ d * n \in Nat /\ y * n \in Nat
        BY <4>1
      <4> QED BY <4>2, <2>2
    <3>2. x # y
      BY <2>1, <1>8
    <3> QED BY <3>1, <3>2
  <2>4. PICK d \in Nat : y = x + 1 + d
    <3>1. y - x - 1 \in Nat /\ y = x + 1 + (y - x - 1)
      BY <2>3
    <3> QED BY <3>1
  <2>5. y * n = x * n + n + d * n /\ d * n \in Nat /\ x * n \in Nat
    BY <2>4
  <2>6. a = x * n /\ e = y * n + r2
    BY <2>1, <1>6
  <2> QED BY <2>5, <2>6
<1>11. (a + 1)..(a + n) \subseteq Places(k, t)
  <2> SUFFICES ASSUME NEW z \in (a + 1)..(a + n) PROVE z \in Places(k, t)
    OBVIOUS
  <2>1. PICK q \in 1..n : z = a + q
    <3>1. z - a \in 1..n /\ z = a + (z - a)
      BY <1>9
    <3> QED BY <3>1
  <2>2. R[(j - 1) * n + q] = s[j]
    BY RepeatedRow DEF R
  <2>3. z \in 1..e
    BY <1>9, <1>10
  <2>4. t[z] = k
    BY <1>2, <1>7, <2>1, <2>2, <2>3
  <2> QED BY <1>3, <2>3, <2>4 DEF Places
<1> HIDE DEF a
<1>12. Cardinality((a + 1)..(a + n)) = n
  <2>1. a + 1 \in Int /\ a + n \in Int
    BY <1>9
  <2>2. Cardinality((a + 1)..(a + n)) = IF a + 1 > a + n THEN 0 ELSE (a + n) - (a + 1) + 1
    BY <2>1, FS_Interval
  <2> QED BY <2>2, <1>9
<1>13. IsFiniteSet(Places(k, t)) /\ Times(k, t) \in Nat
  BY <1>2, TimesNat
<1>14. Cardinality((a + 1)..(a + n)) <= Times(k, t)
  BY <1>11, <1>13, FS_Subset DEF Times
<1> QED BY <1>12, <1>13, <1>14 DEF R, t
-----------------------------------------------------------------------------
\* The operators of ValidationResume, in terms of those above.
LEMMA ValidationTerms ==
  /\ \A s : RowsOf(s) = Repeated(s, Rollouts)
  /\ \A k, s : Count(k, s) = Times(k, s)
BY DEF RowsOf, Repeated, Count, Times, Places

-----------------------------------------------------------------------------
(***************************************************************************)
(* The inductive invariant of the validation.                              *)
(***************************************************************************)
Setting ==
  /\ Dataset \in Seq(Seq(Key)) /\ Rollouts \in Nat \ {0} /\ MaxCrashes \in Nat

Types == ValTypeOK /\ (tail = "record" => lines # <<>>)

\* No prompt has more rows than one pass over a chunk generates.
Bounded(s) ==
  \A k \in ToSet(s) : \E c \in DOMAIN Dataset : Times(k, s) <= Rollouts * Times(k, Dataset[c])

Counted == Bounded(lines) /\ Bounded(seeded \o fresh)

\* The keys completed are those of the rows; those of the dump are completed,
\* and so are those of the chunks passed.
Marked ==
  /\ stage \in {"loop", "done"} => completed = ToSet(seeded) \cup ToSet(fresh)
  /\ stage = "append" =>
       /\ pos <= Len(Dataset) /\ Keep # <<>>
       /\ ToSet(seeded) \cup ToSet(fresh) = completed \cup ToSet(Keep)
  /\ stage \in {"loop", "append"} => ToSet(lines) \subseteq completed
  /\ stage \in {"loop", "append", "done"} =>
       \A c \in 1..Len(Dataset) : c < pos => ToSet(Dataset[c]) \subseteq completed
  /\ stage = "done" => pos > Len(Dataset)

\* The prompts that lack rows; the one whose last row the next append tears.
Lacking(s) == {k \in ToSet(s) : Times(k, s) < Rollouts}
Hanging    == IF tail = "record" THEN {lines[Len(lines)]} ELSE {}

\* A crash costs two prompts, one of which may still have to be paid.
Paid ==
  /\ Cardinality(Lacking(lines) \cup Hanging) + (IF tail = "newline" THEN 0 ELSE 1) <= 2 * crashes
  /\ Cardinality(Lacking(seeded)) <= 2 * crashes
  /\ \A k \in ToSet(fresh) : Times(k, fresh) >= Rollouts

\* The rows that the dump does not have.
Unsaved(m) ==
  /\ Len(seeded) + Len(fresh) - m - Len(lines) \in 0..2
  /\ tail # "newline" => Len(seeded) + Len(fresh) - m = Len(lines)

Saved ==
  /\ stage = "loop" => Unsaved(0)
  /\ stage = "append" => Unsaved(Rollouts * Len(Keep))

VInv == Setting /\ Types /\ Counted /\ Marked /\ Paid /\ Saved
-----------------------------------------------------------------------------
(***************************************************************************)
(* A chunk, and what an append leaves of the dump.                         *)
(***************************************************************************)

\* The prompts a chunk keeps are those not completed.
LEMMA KeepIs ==
  ASSUME Setting, Types, pos <= Len(Dataset)
  PROVE  /\ pos \in 1..Len(Dataset) /\ pos \in DOMAIN Dataset
         /\ Keep \in Seq(Key) /\ Len(Keep) \in Nat
         /\ Keep # <<>> => Len(Keep) # 0
         /\ ToSet(Keep) = ToSet(Dataset[pos]) \ completed
         /\ \A k : Times(k, Keep) <= Times(k, Dataset[pos])
<1>1. pos \in 1..Len(Dataset) /\ DOMAIN Dataset = 1..Len(Dataset)
  <2>1. Len(Dataset) \in Nat /\ DOMAIN Dataset = 1..Len(Dataset)
    BY LenProperties DEF Setting
  <2> QED BY <2>1 DEF Types, ValTypeOK
<1>2. PICK s \in Seq(Key) : s = Dataset[pos]
  BY <1>1, ElementOfSeq DEF Setting
<1>3. DOMAIN s = 1..Len(s) /\ Len(s) \in Nat
  BY LenProperties
<1>4. PICK I \in SUBSET DOMAIN s : I = {i \in DOMAIN s : s[i] \notin completed}
  OBVIOUS
<1>5. Missing = I
  BY <1>2, <1>4 DEF Missing
<1>6. /\ Retained(s, I) \in Seq(Key) /\ Len(Retained(s, I)) = Cardinality(I)
      /\ \A i \in I : Retained(s, I)[Rank(I, i)] = s[i]
      /\ \A n \in 1..Cardinality(I) : Retained(s, I)[n] = s[Position(I, n)]
      /\ IsFiniteSet(I)
  BY <1>4, RetainedIs
<1>7. I \subseteq Int
  BY <1>3, <1>4
<1>8. Keep = Retained(s, I)
  BY <1>2, <1>5 DEF Keep
<1>9. /\ \A i \in I : Rank(I, i) \in 1..Cardinality(I)
      /\ \A n \in 1..Cardinality(I) : Position(I, n) \in I
  BY <1>6, <1>7, RanksNumber
<1>10. PICK t \in Seq(Key) : t = Retained(s, I)
  BY <1>6
<1>11. DOMAIN t = 1..Cardinality(I) /\ Len(t) \in Nat
  BY <1>6, <1>10, LenProperties
<1>12. ToSet(t) = ToSet(s) \ completed
  <2>1. ASSUME NEW k \in ToSet(t) PROVE k \in ToSet(s) \ completed
    <3>1. PICK n \in 1..Cardinality(I) : t[n] = k
      BY <1>11 DEF ToSet
    <3>2. Position(I, n) \in I /\ s[Position(I, n)] = k
      BY <3>1, <1>6, <1>9, <1>10
    <3> QED BY <3>2, <1>4 DEF ToSet
  <2>2. ASSUME NEW k \in ToSet(s) \ completed PROVE k \in ToSet(t)
    <3>1. PICK i \in DOMAIN s : s[i] = k
      BY DEF ToSet
    <3>2. i \in I
      BY <3>1, <1>4
    <3>3. t[Rank(I, i)] = k /\ Rank(I, i) \in DOMAIN t
      BY <3>1, <3>2, <1>6, <1>9, <1>10, <1>11
    <3> QED BY <3>3 DEF ToSet
  <2> QED BY <2>1, <2>2
<1>13. \A k : Times(k, t) <= Times(k, s)
  <2> TAKE k
  <2>1. Times(k, Retained(s, I)) <= Times(k, s)
    BY <1>4, TimesRetained
  <2> QED BY <2>1, <1>10
<1>14. t # <<>> => Len(t) # 0
  BY EmptySeq
<1> QED BY <1>1, <1>2, <1>8, <1>10, <1>11, <1>12, <1>13, <1>14

\* Elements of a sequence that follows another.
LEMMA ToSetJoin ==
  ASSUME NEW X, NEW s \in Seq(X), NEW t \in Seq(X)
  PROVE  s \o t \in Seq(X) /\ Len(s \o t) = Len(s) + Len(t) /\ ToSet(s \o t) = ToSet(s) \cup ToSet(t)
<1>1. s \o t \in Seq(X) /\ Len(s \o t) = Len(s) + Len(t)
  BY ConcatProperties
<1>2. ASSUME NEW k PROVE k \in ToSet(s \o t) <=> k \in ToSet(s) \/ k \in ToSet(t)
  <2>1. Times(k, s \o t) = Times(k, s) + Times(k, t)
    BY TimesJoin
  <2>2. /\ Times(k, s) \in Nat /\ (k \in ToSet(s) <=> Times(k, s) > 0)
        /\ Times(k, t) \in Nat /\ (k \in ToSet(t) <=> Times(k, t) > 0)
    BY TimesNat
  <2>3. k \in ToSet(s \o t) <=> Times(k, s \o t) > 0
    BY <1>1, TimesNat
  <2> QED BY <2>1, <2>2, <2>3
<1> QED BY <1>1, <1>2

\* Elements of rows.
LEMMA ToSetRepeated ==
  ASSUME NEW X, NEW s \in Seq(X), NEW n \in Nat \ {0}
  PROVE  ToSet(Repeated(s, n)) = ToSet(s)
<1>1. Repeated(s, n) \in Seq(X)
  BY RepeatedIs
<1>2. ASSUME NEW k PROVE k \in ToSet(Repeated(s, n)) <=> k \in ToSet(s)
  <2>1. PICK a \in Nat, b \in Nat : a = Times(k, s) /\ b = Times(k, Repeated(s, n))
    BY <1>1, TimesNat
  <2>2. b = n * a
    BY <2>1, TimesRepeated
  <2>3. b > 0 <=> a > 0
    BY <2>2
  <2>4. (k \in ToSet(s) <=> a > 0) /\ (k \in ToSet(Repeated(s, n)) <=> b > 0)
    BY <1>1, <2>1, TimesNat
  <2> QED BY <2>3, <2>4
<1> QED BY <1>2

\* The prompts that lack rows are a finite set.
LEMMA LackingFinite ==
  ASSUME NEW X, NEW s \in Seq(X)
  PROVE  IsFiniteSet(ToSet(s)) /\ IsFiniteSet(Lacking(s))
<1>1. IsFiniteSet(ToSet(s))
  <2>1. IsFiniteSet(DOMAIN s)
    <3>1. Len(s) \in Int /\ DOMAIN s = 1..Len(s)
      BY LenProperties
    <3> QED BY <3>1, 1 \in Int, FS_Interval
  <2>2. [i \in DOMAIN s |-> s[i]] \in Surjection(DOMAIN s, ToSet(s))
    BY DEF Surjection, ToSet
  <2> QED BY <2>1, <2>2, FS_Surjection
<1> QED BY <1>1, FS_Subset DEF Lacking

\* The prompt whose first row goes on the line the file ends with.
Glued(w) == IF tail = "newline" \/ w = <<>> THEN {} ELSE {w[1]}

\* What the next append leaves of the dump.
LEMMA ParsedIs ==
  ASSUME VInv
  PROVE  /\ Parsed \in Seq(Key)
         /\ Len(Parsed) = Len(lines) - (IF tail = "record" THEN 1 ELSE 0)
         /\ \A k : Times(k, Parsed) \in Nat /\ Times(k, Parsed) <= Times(k, lines)
         /\ \A k : k \notin Hanging => Times(k, Parsed) = Times(k, lines)
         /\ Len(lines) \in Nat /\ \A k : Times(k, lines) \in Nat
<1>0. lines \in Seq(Key) /\ (tail = "record" => lines # <<>>)
  BY DEF VInv, Types, ValTypeOK
<1>1. Len(lines) \in Nat /\ \A k : Times(k, lines) \in Nat
  BY <1>0, LenProperties, TimesNat
<1>2. CASE tail # "record"
  BY <1>0, <1>1, <1>2 DEF Parsed
<1>3. CASE tail = "record"
  <2>1. Parsed = Front(lines)
    BY <1>3, ValidationTerms DEF Parsed
  <2>2. Front(lines) \in Seq(Key) /\ Len(Front(lines)) = Len(lines) - 1
    BY <1>0, <1>3, TimesEnds
  <2>3. ASSUME NEW k
        PROVE  /\ Times(k, Front(lines)) \in Nat
               /\ Times(k, lines) = Times(k, Front(lines)) + (IF lines[Len(lines)] = k THEN 1 ELSE 0)
    BY <2>2, <1>0, <1>3, TimesNat, TimesEnds
  <2>4. \A k : Times(k, Front(lines)) <= Times(k, lines)
    BY <2>3, <1>1
  <2>5. \A k : k # lines[Len(lines)] => Times(k, Front(lines)) = Times(k, lines)
    BY <2>3, <1>1
  <2>6. Hanging = {lines[Len(lines)]}
    BY <1>3 DEF Hanging
  <2> QED BY <1>1, <1>3, <2>1, <2>2, <2>3, <2>4, <2>5, <2>6
<1> QED BY <1>2, <1>3

\* What of the rows written is on lines of their own.
LEMMA AfterTailIs ==
  ASSUME NEW w \in Seq(Key)
  PROVE  /\ AfterTail(w) \in Seq(Key)
         /\ Len(AfterTail(w)) = Len(w) - (IF tail = "newline" \/ w = <<>> THEN 0 ELSE 1)
         /\ \A k : Times(k, AfterTail(w)) \in Nat /\ Times(k, AfterTail(w)) <= Times(k, w)
         /\ \A k : k \notin Glued(w) => Times(k, AfterTail(w)) = Times(k, w)
         /\ AfterTail(w) # <<>> => AfterTail(w)[Len(AfterTail(w))] = w[Len(w)]
         /\ Len(w) \in Nat /\ \A k : Times(k, w) \in Nat
<1>1. Len(w) \in Nat /\ \A k : Times(k, w) \in Nat
  BY LenProperties, TimesNat
<1>2. CASE tail = "newline" \/ w = <<>>
  BY <1>1, <1>2 DEF AfterTail
<1>3. CASE ~(tail = "newline" \/ w = <<>>)
  <2>1. AfterTail(w) = Tail(w) /\ w # <<>> /\ Glued(w) = {w[1]}
    BY <1>3 DEF AfterTail, Glued
  <2>2. Tail(w) \in Seq(Key) /\ Len(Tail(w)) = Len(w) - 1
        /\ \A i \in 1..Len(Tail(w)) : Tail(w)[i] = w[i + 1]
    BY <2>1, HeadTailProperties
  <2>3. ASSUME NEW k
        PROVE  /\ Times(k, Tail(w)) \in Nat
               /\ Times(k, w) = Times(k, Tail(w)) + (IF w[1] = k THEN 1 ELSE 0)
    BY <2>1, <2>2, TimesNat, TimesEnds
  <2>4. \A k : Times(k, Tail(w)) <= Times(k, w)
    BY <2>3, <1>1
  <2>5. \A k : k # w[1] => Times(k, Tail(w)) = Times(k, w)
    BY <2>3, <1>1
  <2>6. Tail(w) # <<>> => Tail(w)[Len(Tail(w))] = w[Len(w)]
    <3> SUFFICES ASSUME Tail(w) # <<>> PROVE Tail(w)[Len(Tail(w))] = w[Len(w)]
      OBVIOUS
    <3>1. Len(Tail(w)) \in Nat /\ Len(Tail(w)) # 0
      BY <2>2, LenProperties, EmptySeq
    <3>2. Len(Tail(w)) \in 1..Len(Tail(w)) /\ Len(Tail(w)) + 1 = Len(w)
      BY <3>1, <2>2, <1>1
    <3> QED BY <3>2, <2>2
  <2> QED BY <1>1, <1>3, <2>1, <2>2, <2>3, <2>4, <2>5, <2>6
<1> QED BY <1>2, <1>3

\* The first n of the rows of a chunk.
LEMMA CutIs ==
  ASSUME Setting, NEW s \in Seq(Key), NEW n \in 0..(Rollouts * Len(s))
  PROVE  LET w == SubSeq(Repeated(s, Rollouts), 1, n)
         IN  /\ w \in Seq(Key) /\ Len(w) = n
             /\ \A k : Times(k, w) \in Nat /\ Times(k, w) <= Rollouts * Times(k, s)
             /\ ToSet(w) \subseteq ToSet(s)
             /\ \A k \in ToSet(w) : n = Rollouts * Len(s) \/ k # w[n] => Times(k, w) >= Rollouts
<1> DEFINE R == Repeated(s, Rollouts)
           w == SubSeq(R, 1, n)
<1>1. R \in Seq(Key) /\ Len(R) = Rollouts * Len(s) /\ Rollouts * Len(s) \in Nat /\ Rollouts \in Nat \ {0}
  BY RepeatedIs DEF Setting
<1>2. w \in Seq(Key) /\ Len(w) = n /\ \A i \in 1..n : w[i] = R[i]
  <2> HIDE DEF R
  <2>1. n \in 0..Len(R) /\ n \in Nat
    BY <1>1
  <2>2. \A i \in 1..n : R[i] \in Key
    <3>1. \A i \in 1..Len(R) : R[i] \in Key
      BY <1>1, ElementOfSeq
    <3>2. PICK m \in Nat : m = Len(R)
      BY <1>1
    <3> QED BY <3>1, <3>2, <2>1
  <2>3. /\ w \in Seq(Key) /\ Len(w) = (IF 1 <= n THEN n - 1 + 1 ELSE 0)
        /\ \A i \in 1..(n - 1 + 1) : w[i] = R[1 + i - 1]
    BY <2>1, <2>2, 1 \in Int, n \in Int, SubSeqProperties
  <2> HIDE DEF w
  <2> QED BY <2>1, <2>3
<1>3. ASSUME NEW k
      PROVE  /\ Times(k, w) \in Nat /\ Times(k, w) <= Rollouts * Times(k, s)
             /\ Times(k, s) \in Nat
             /\ n = Rollouts * Len(s) => Times(k, w) = Rollouts * Times(k, s)
  <2>1. Times(k, R) = Rollouts * Times(k, s)
    BY TimesRepeated DEF Setting
  <2>2. Times(k, s) \in Nat
    BY TimesNat
  <2> HIDE DEF R
  <2>3. Times(k, w) <= Times(k, R)
    BY <1>1, TimesCut
  <2>4. n = Rollouts * Len(s) => w = R
    BY <1>1, SubSeqFull
  <2>5. Times(k, w) \in Nat
    <3> HIDE DEF w
    <3> QED BY <1>2, TimesNat
  <2> QED BY <2>1, <2>2, <2>3, <2>4, <2>5
<1>4. ToSet(w) \subseteq ToSet(s)
  <2> SUFFICES ASSUME NEW k \in ToSet(w) PROVE k \in ToSet(s)
    OBVIOUS
  <2> HIDE DEF w
  <2>1. Times(k, w) > 0
    BY <1>2, TimesNat
  <2>2. PICK a \in Nat, b \in Nat : a = Times(k, s) /\ b = Times(k, w)
    BY <1>3
  <2>3. b <= Rollouts * a /\ b > 0
    BY <2>1, <2>2, <1>3
  <2>4. a > 0
    BY <2>3, <1>1
  <2> QED BY <2>2, <2>4, TimesNat
<1>5. ASSUME NEW k \in ToSet(w), n = Rollouts * Len(s) \/ k # w[n] PROVE Times(k, w) >= Rollouts
  <2>1. CASE n = Rollouts * Len(s)
    <3> HIDE DEF w
    <3>1. PICK a \in Nat : a = Times(k, s)
      BY <1>3
    <3>2. Times(k, w) = Rollouts * a
      BY <3>1, <2>1, <1>3
    <3>3. a # 0
      <4>1. k \in ToSet(s)
        BY <1>4, <1>5
      <4> QED BY <4>1, <3>1, TimesNat
    <3> QED BY <3>2, <3>3, <1>1
  <2>2. CASE n # Rollouts * Len(s)
    <3>1. n # 0
      <4> SUFFICES ASSUME n = 0 PROVE FALSE
        OBVIOUS
      <4> HIDE DEF w
      <4>1. DOMAIN w = 1..n
        BY <1>2, LenProperties
      <4>2. DOMAIN w = {}
        BY <4>1
      <4> QED BY <4>2, <1>5 DEF ToSet
    <3>2. n \in 1..(Rollouts * Len(s)) /\ n \in 1..n
      BY <3>1
    <3>3. k # R[n]
      <4> HIDE DEF w, R
      <4> QED BY <1>2, <1>5, <2>2, <3>2
    <3>4. k \in ToSet(SubSeq(Repeated(s, Rollouts), 1, n)) /\ k # Repeated(s, Rollouts)[n]
      BY <3>3
    <3> QED BY <3>2, <3>4, <1>1, RepeatedWhole
  <2> QED BY <2>1, <2>2
<1> HIDE DEF w, R
<1>6. /\ w \in Seq(Key) /\ Len(w) = n
      /\ \A k : Times(k, w) \in Nat /\ Times(k, w) <= Rollouts * Times(k, s)
      /\ ToSet(w) \subseteq ToSet(s)
      /\ \A k \in ToSet(w) : n = Rollouts * Len(s) \/ k # w[n] => Times(k, w) >= Rollouts
  BY <1>2, <1>3, <1>4, <1>5
<1> QED BY <1>6 DEF w, R

\* L is the dump after an append that wrote n rows, w.
WrittenAs(n, w, L) ==
  /\ L \in Seq(Key) /\ Bounded(L)
  /\ w \in Seq(Key) /\ Len(w) = n
  /\ ToSet(L) \subseteq ToSet(lines) \cup ToSet(Keep)
  /\ Lacking(L) \subseteq Lacking(lines) \cup Hanging \cup Glued(w)
       \cup (IF n = 0 \/ n = Rollouts * Len(Keep) THEN {} ELSE {w[n]})
  /\ Len(L) = Len(lines) - (IF tail = "record" THEN 1 ELSE 0)
              + (n - (IF tail = "newline" \/ w = <<>> THEN 0 ELSE 1))
  /\ AfterTail(w) # <<>> => L # <<>> /\ L[Len(L)] = w[n]

\* What an append, or a part of it, makes of the dump.
LEMMA Written ==
  ASSUME VInv, stage = "append", NEW n \in 0..(Rollouts * Len(Keep)), NEW w,
         w = SubSeq(Repeated(Keep, Rollouts), 1, n),
         NEW L, L = Parsed \o AfterTail(w)
  PROVE  WrittenAs(n, w, L)
<1> DEFINE K == Keep
           P == Parsed
           A == AfterTail(w)
<1>1. /\ Setting /\ pos \in 1..Len(Dataset) /\ pos \in DOMAIN Dataset
      /\ K \in Seq(Key) /\ Len(K) \in Nat
      /\ ToSet(K) = ToSet(Dataset[pos]) \ completed
      /\ \A k : Times(k, K) <= Times(k, Dataset[pos])
  BY KeepIs DEF VInv, Marked
<1>2. ToSet(lines) \subseteq completed /\ lines \in Seq(Key) /\ Bounded(lines)
  BY DEF VInv, Marked, Types, ValTypeOK, Counted
<1>3. /\ P \in Seq(Key)
      /\ Len(P) = Len(lines) - (IF tail = "record" THEN 1 ELSE 0)
      /\ \A k : Times(k, P) \in Nat /\ Times(k, P) <= Times(k, lines)
      /\ \A k : k \notin Hanging => Times(k, P) = Times(k, lines)
      /\ Len(lines) \in Nat /\ \A k : Times(k, lines) \in Nat
  BY ParsedIs
<1> HIDE DEF K, P
<1>4. /\ w \in Seq(Key) /\ Len(w) = n
      /\ \A k : Times(k, w) \in Nat /\ Times(k, w) <= Rollouts * Times(k, K)
      /\ ToSet(w) \subseteq ToSet(K)
      /\ \A k \in ToSet(w) : n = Rollouts * Len(K) \/ k # w[n] => Times(k, w) >= Rollouts
  BY <1>1, CutIs DEF K
<1>5. /\ A \in Seq(Key)
      /\ Len(A) = Len(w) - (IF tail = "newline" \/ w = <<>> THEN 0 ELSE 1)
      /\ \A k : Times(k, A) \in Nat /\ Times(k, A) <= Times(k, w)
      /\ \A k : k \notin Glued(w) => Times(k, A) = Times(k, w)
      /\ A # <<>> => A[Len(A)] = w[Len(w)]
  BY <1>4, AfterTailIs
<1> HIDE DEF A
<1>6. L \in Seq(Key) /\ Len(L) = Len(P) + Len(A) /\ ToSet(L) = ToSet(P) \cup ToSet(A)
  <2>1. L = P \o A
    BY DEF P, A
  <2>2. P \o A \in Seq(Key) /\ Len(P \o A) = Len(P) + Len(A) /\ ToSet(P \o A) = ToSet(P) \cup ToSet(A)
    BY <1>3, <1>5, ToSetJoin
  <2> QED BY <2>1, <2>2
<1>7. \A k : Times(k, L) = Times(k, P) + Times(k, A)
  BY <1>3, <1>5, TimesJoin DEF P, A
<1>8. \A k : /\ k \in ToSet(P) <=> Times(k, P) > 0
             /\ k \in ToSet(A) <=> Times(k, A) > 0
             /\ k \in ToSet(w) <=> Times(k, w) > 0
             /\ k \in ToSet(lines) <=> Times(k, lines) > 0
             /\ k \in ToSet(L) <=> Times(k, L) > 0
  BY <1>2, <1>3, <1>4, <1>5, <1>6, TimesNat
<1>9. ToSet(P) \subseteq ToSet(lines) /\ ToSet(A) \subseteq ToSet(w)
  BY <1>3, <1>4, <1>5, <1>8
<1>10. ToSet(lines) \cap ToSet(K) = {}
  BY <1>1, <1>2
<1>11. Bounded(L)
  <2> SUFFICES ASSUME NEW k \in ToSet(L)
               PROVE  \E c \in DOMAIN Dataset : Times(k, L) <= Rollouts * Times(k, Dataset[c])
    BY DEF Bounded
  <2>1. CASE k \in ToSet(K)
    <3>1. Times(k, P) = 0
      BY <2>1, <1>3, <1>8, <1>9, <1>10
    <3>2. Times(k, L) <= Rollouts * Times(k, K)
      <4>1. PICK m \in Nat : m = Times(k, K)
        BY <1>1, TimesNat
      <4>2. PICK m2 \in Nat : m2 = Rollouts * m
        BY <1>1 DEF Setting
      <4> QED BY <4>1, <4>2, <3>1, <1>4, <1>5, <1>7
    <3>3. Rollouts * Times(k, K) <= Rollouts * Times(k, Dataset[pos]) /\ Rollouts * Times(k, K) \in Nat
          /\ Rollouts * Times(k, Dataset[pos]) \in Nat
      <4>1. Dataset[pos] \in Seq(Key)
        BY <1>1, ElementOfSeq DEF Setting
      <4>2. PICK a \in Nat, b \in Nat : a = Times(k, K) /\ b = Times(k, Dataset[pos])
        BY <4>1, <1>1, TimesNat
      <4>3. a <= b
        BY <4>2, <1>1
      <4>4. PICK d \in Nat : b = a + d
        <5>1. b - a \in Nat /\ b = a + (b - a)
          BY <4>3
        <5> QED BY <5>1
      <4>5. Rollouts * b = Rollouts * a + Rollouts * d /\ Rollouts * a \in Nat /\ Rollouts * d \in Nat /\ Rollouts * b \in Nat
        BY <4>4, <1>1 DEF Setting
      <4>6. Rollouts * a <= Rollouts * b
        BY <4>5
      <4> QED BY <4>2, <4>5, <4>6
    <3>4. Times(k, L) \in Nat
      BY <1>3, <1>5, <1>7
    <3>5. Times(k, L) <= Rollouts * Times(k, Dataset[pos])
      BY <3>2, <3>3, <3>4
    <3> QED BY <3>5, <1>1
  <2>2. CASE k \notin ToSet(K)
    <3>1. k \notin ToSet(A)
      BY <2>2, <1>4, <1>9
    <3>2. Times(k, A) = 0 /\ k \in ToSet(lines)
      BY <3>1, <1>5, <1>6, <1>8, <1>9
    <3>3. Times(k, L) <= Times(k, lines) /\ Times(k, L) \in Nat /\ Times(k, lines) \in Nat
      BY <3>2, <1>3, <1>7
    <3>4. PICK c \in DOMAIN Dataset : Times(k, lines) <= Rollouts * Times(k, Dataset[c])
      BY <3>2, <1>2 DEF Bounded
    <3>5. Rollouts * Times(k, Dataset[c]) \in Nat
      <4>1. Dataset[c] \in Seq(Key)
        BY <1>1, ElementOfSeq, LenProperties DEF Setting
      <4>2. PICK m \in Nat : m = Times(k, Dataset[c])
        BY <4>1, TimesNat
      <4> QED BY <4>2, <1>1 DEF Setting
    <3>6. Times(k, L) <= Rollouts * Times(k, Dataset[c])
      BY <3>3, <3>4, <3>5
    <3> QED BY <3>6
  <2> QED BY <2>1, <2>2
<1>12. Lacking(L) \subseteq Lacking(lines) \cup Hanging \cup Glued(w)
              \cup (IF n = 0 \/ n = Rollouts * Len(K) THEN {} ELSE {w[n]})
  <2> SUFFICES ASSUME NEW k \in ToSet(L), Times(k, L) < Rollouts,
                      k \notin Hanging, k \notin Glued(w),
                      n = 0 \/ n = Rollouts * Len(K) \/ k # w[n]
               PROVE  k \in Lacking(lines)
    BY DEF Lacking
  <2>1. CASE k \in ToSet(P)
    <3>1. k \in ToSet(lines) /\ k \notin ToSet(A)
      BY <2>1, <1>4, <1>9, <1>10
    <3>2. Times(k, L) = Times(k, lines)
      BY <3>1, <1>3, <1>5, <1>7, <1>8
    <3> QED BY <3>1, <3>2 DEF Lacking
  <2>2. CASE k \notin ToSet(P)
    <3>1. k \in ToSet(w) /\ Times(k, P) = 0
      BY <2>2, <1>3, <1>6, <1>8, <1>9
    <3>2. Times(k, L) = Times(k, w)
      BY <3>1, <1>4, <1>5, <1>7
    <3>3. n # 0
      <4> SUFFICES ASSUME n = 0 PROVE FALSE
        OBVIOUS
      <4>1. DOMAIN w = {}
        BY <1>4, LenProperties
      <4> QED BY <4>1, <3>1 DEF ToSet
    <3>4. Times(k, w) >= Rollouts
      BY <3>1, <3>3, <1>4
    <3> QED BY <3>2, <3>4, <1>1, <1>4 DEF Setting
  <2> QED BY <2>1, <2>2
<1>13. A # <<>> => L # <<>> /\ L[Len(L)] = w[n]
  <2> SUFFICES ASSUME A # <<>> PROVE L # <<>> /\ L[Len(L)] = w[n]
    OBVIOUS
  <2>1. Len(A) \in Nat /\ Len(A) # 0 /\ Len(P) \in Nat
    BY <1>3, <1>5, LenProperties, EmptySeq
  <2>2. L[Len(P) + Len(A)] = IF Len(P) + Len(A) <= Len(P) THEN P[Len(P) + Len(A)] ELSE A[Len(P) + Len(A) - Len(P)]
    <3>1. Len(P) + Len(A) \in 1..(Len(P) + Len(A))
      BY <2>1
    <3> QED BY <3>1, <1>3, <1>5, ConcatProperties DEF P, A
  <2>3. ~(Len(P) + Len(A) <= Len(P)) /\ Len(P) + Len(A) - Len(P) = Len(A) /\ Len(L) # 0
    BY <2>1, <1>6
  <2>4. L # <<>>
    BY <2>3
  <2> QED BY <2>2, <2>3, <2>4, <1>4, <1>5, <1>6
<1>14. Len(L) = Len(lines) - (IF tail = "record" THEN 1 ELSE 0)
                     + (n - (IF tail = "newline" \/ w = <<>> THEN 0 ELSE 1))
  BY <1>3, <1>4, <1>5, <1>6
<1> QED BY <1>4, <1>6, <1>9, <1>11, <1>12, <1>13, <1>14 DEF K, A, WrittenAs

-----------------------------------------------------------------------------
(***************************************************************************)
(* The start and the steps of the validation.                              *)
(***************************************************************************)

\* A sequence without elements.
LEMMA NothingYet ==
  /\ ToSet(<<>>) = {} /\ Bounded(<<>>) /\ Lacking(<<>>) = {} /\ Cardinality({}) = 0
  /\ \A X : <<>> \in Seq(X)
  /\ Len(<<>>) = 0
<1>1. ToSet(<<>>) = {}
  BY DEF ToSet
<1> QED BY <1>1, FS_EmptySet DEF Bounded, Lacking

\* A validation starts in the invariant.
LEMMA ValidationInit ==
  ASSUME ValInit PROVE VInv
<1>1. Setting
  BY ValidationResumeAssumption DEF Setting
<1>2. Types
  <2>1. 1 \in 1..(Len(Dataset) + 1)
    <3>1. Len(Dataset) \in Nat
      BY <1>1, LenProperties DEF Setting
    <3> QED BY <3>1
  <2> QED BY <1>1, <2>1, NothingYet DEF Types, ValTypeOK, ValInit, Ends, Setting
<1>3. Counted
  <2>1. <<>> \o <<>> = <<>>
    OBVIOUS
  <2> QED BY <2>1, NothingYet DEF Counted, ValInit
<1>4. Marked
  BY DEF Marked, ValInit
<1>5. Paid
  <2>1. Hanging = {} /\ Lacking(lines) = {} /\ Lacking(seeded) = {} /\ ToSet(fresh) = {}
    BY NothingYet DEF Hanging, ValInit
  <2>2. Lacking(lines) \cup Hanging = {}
    BY <2>1
  <2>3. Cardinality(Lacking(lines) \cup Hanging) = 0 /\ Cardinality(Lacking(seeded)) = 0
    BY <2>1, <2>2, NothingYet
  <2>4. crashes = 0 /\ tail = "newline"
    BY DEF ValInit
  <2>5. 0 <= 2 * 0
    OBVIOUS
  <2> QED BY <2>1, <2>3, <2>4, <2>5 DEF Paid
<1>6. Saved
  BY DEF Saved, ValInit
<1> QED BY <1>1, <1>2, <1>3, <1>4, <1>5, <1>6 DEF VInv

\* The numbers in Paid.
LEMMA PaidNumbers ==
  ASSUME VInv
  PROVE  /\ IsFiniteSet(Lacking(lines) \cup Hanging) /\ Cardinality(Lacking(lines) \cup Hanging) \in Nat
         /\ Cardinality(Lacking(lines)) <= 2 * crashes
         /\ IsFiniteSet(Lacking(lines)) /\ IsFiniteSet(Lacking(seeded)) /\ crashes \in Nat
         /\ Cardinality(Lacking(lines)) \in Nat
<1>1. lines \in Seq(Key) /\ seeded \in Seq(Key) /\ crashes \in Nat
  BY DEF VInv, Types, ValTypeOK, Setting
<1>2. IsFiniteSet(Lacking(lines)) /\ IsFiniteSet(Lacking(seeded))
  BY <1>1, LackingFinite
<1>3. IsFiniteSet(Hanging)
  BY FS_Singleton, FS_EmptySet DEF Hanging
<1>4. IsFiniteSet(Lacking(lines) \cup Hanging)
  BY <1>2, <1>3, FS_Union
<1>5. /\ Cardinality(Lacking(lines) \cup Hanging) \in Nat /\ Cardinality(Lacking(lines)) \in Nat
      /\ Cardinality(Lacking(lines)) <= Cardinality(Lacking(lines) \cup Hanging)
  BY <1>2, <1>4, FS_Subset, FS_CardinalityType
<1>6. Cardinality(Lacking(lines) \cup Hanging) <= 2 * crashes
  <2>1. Cardinality(Lacking(lines) \cup Hanging) + (IF tail = "newline" THEN 0 ELSE 1) <= 2 * crashes
    BY DEF VInv, Paid
  <2> QED BY <2>1, <1>1, <1>5
<1> QED BY <1>1, <1>2, <1>4, <1>5, <1>6

\* A run that starts, with the dump or without.
LEMMA StartKeeps ==
  ASSUME VInv, Resume \/ StartOver PROVE VInv'
<1>0. /\ lines \in Seq(Key) /\ Len(Dataset) \in Nat /\ 1 \in 1..(Len(Dataset) + 1)
      /\ Len(lines) \in Nat
  <2>1. lines \in Seq(Key) /\ Len(Dataset) \in Nat
    BY LenProperties DEF VInv, Types, ValTypeOK, Setting
  <2> QED BY <2>1, LenProperties
<1>1. Setting'
  BY DEF VInv, Setting
<1>2. CASE Resume /\ stage' = "loop"
  <2>0. /\ pos' = 1 /\ fresh' = <<>> /\ seeded' = lines /\ completed' = SeededKeys
        /\ lines' = lines /\ tail' = tail /\ crashes' = crashes /\ stage' = "loop"
    BY <1>2 DEF Resume, dump
  <2>1. completed' = ToSet(lines)
    <3>1. ASSUME NEW k PROVE k \in SeededKeys <=> k \in ToSet(lines)
      <4>1. Count(k, lines) = Times(k, lines)
        BY ValidationTerms
      <4>2. k \in ToSet(lines) <=> Times(k, lines) > 0
        BY <1>0, TimesNat
      <4>3. k \in ToSet(lines) => k \in Key
        BY <1>0, ElementOfSeq, LenProperties DEF ToSet
      <4> QED BY <4>1, <4>2, <4>3 DEF SeededKeys
    <3> QED BY <3>1, <2>0
  <2>2. Types'
    <3>1. ToSet(lines) \subseteq Key
      BY <1>0, ElementOfSeq, LenProperties DEF ToSet
    <3> QED BY <2>0, <2>1, <3>1, <1>0, NothingYet DEF VInv, Types, ValTypeOK
  <2>3. Counted'
    <3>1. lines \o <<>> = lines
      BY <1>0, ConcatEmptySeq
    <3> QED BY <2>0, <3>1 DEF VInv, Counted, Bounded
  <2>4. Marked'
    BY <2>0, <2>1, <1>0, NothingYet DEF Marked
  <2>5. Paid'
    <3>1. Lacking(lines)' = Lacking(lines) /\ Hanging' = Hanging /\ Lacking(seeded)' = Lacking(lines)
      BY <2>0 DEF Lacking, Hanging
    <3>2. ToSet(fresh') = {}
      BY <2>0, NothingYet
    <3> QED BY <2>0, <3>1, <3>2, PaidNumbers DEF VInv, Paid
  <2>6. Saved'
    <3>1. Len(lines) + 0 - 0 - Len(lines) = 0 /\ Len(lines) + 0 - 0 = Len(lines) /\ 0 \in 0..2
      BY <1>0
    <3>2. Unsaved(0)'
      BY <2>0, <3>1, NothingYet DEF Unsaved
    <3> QED BY <2>0, <3>2 DEF Saved
  <2> QED BY <1>1, <2>2, <2>3, <2>4, <2>5, <2>6 DEF VInv
<1>3. CASE Resume /\ stage' # "loop"
  <2>0. /\ pos' = 1 /\ fresh' = <<>> /\ seeded' = <<>> /\ completed' = {}
        /\ lines' = lines /\ tail' = tail /\ crashes' = crashes /\ stage' = "failed"
    BY <1>3 DEF Resume, dump
  <2>2. Types'
    BY <2>0, <1>0, NothingYet DEF VInv, Types, ValTypeOK
  <2>3. Counted'
    <3>1. <<>> \o <<>> = <<>>
      OBVIOUS
    <3>2. Bounded(lines)' /\ Bounded(<<>>)'
      BY <2>0, NothingYet DEF VInv, Counted, Bounded
    <3> QED BY <2>0, <3>1, <3>2 DEF Counted, Bounded
  <2>4. Marked'
    BY <2>0 DEF Marked
  <2>5. Paid'
    <3>1. Lacking(lines)' = Lacking(lines) /\ Hanging' = Hanging /\ Lacking(seeded)' = {}
      BY <2>0, NothingYet DEF Lacking, Hanging
    <3>2. ToSet(fresh') = {}
      BY <2>0, NothingYet
    <3>3. Cardinality(Lacking(seeded))' = 0
      BY <3>1, NothingYet
    <3>4. (Lacking(lines) \cup Hanging)' = Lacking(lines) \cup Hanging
      BY <3>1
    <3>5. crashes \in Nat /\ 0 <= 2 * crashes
      BY PaidNumbers
    <3>6. Cardinality(Lacking(lines) \cup Hanging) + (IF tail = "newline" THEN 0 ELSE 1) <= 2 * crashes
      BY DEF VInv, Paid
    <3> QED BY <2>0, <3>2, <3>3, <3>4, <3>5, <3>6 DEF Paid
  <2>6. Saved'
    BY <2>0 DEF Saved
  <2> QED BY <1>1, <2>2, <2>3, <2>4, <2>5, <2>6 DEF VInv
<1>4. CASE StartOver
  <2>0. /\ pos' = 1 /\ fresh' = <<>> /\ seeded' = <<>> /\ completed' = {}
        /\ lines' = <<>> /\ tail' = "newline" /\ crashes' = crashes /\ stage' = "loop"
    BY <1>4 DEF StartOver
  <2>2. Types'
    BY <2>0, <1>0, NothingYet DEF VInv, Types, ValTypeOK, Ends
  <2>3. Counted'
    <3>1. <<>> \o <<>> = <<>>
      OBVIOUS
    <3>2. Bounded(<<>>)'
      BY NothingYet DEF Bounded
    <3> QED BY <2>0, <3>1, <3>2 DEF Counted, Bounded
  <2>4. Marked'
    BY <2>0, NothingYet DEF Marked
  <2>5. Paid'
    <3>1. Lacking(lines)' = {} /\ Hanging' = {} /\ Lacking(seeded)' = {}
      BY <2>0, NothingYet DEF Lacking, Hanging
    <3>2. ToSet(fresh') = {}
      BY <2>0, NothingYet
    <3>3. Cardinality(Lacking(seeded))' = 0
      BY <3>1, NothingYet
    <3>4. (Lacking(lines) \cup Hanging)' = {}
      BY <3>1
    <3>5. Cardinality(Lacking(lines) \cup Hanging)' = 0
      BY <3>4, NothingYet
    <3>6. crashes \in Nat /\ 0 <= 2 * crashes /\ 0 + 0 <= 2 * crashes
      BY PaidNumbers
    <3> QED BY <2>0, <3>2, <3>3, <3>5, <3>6 DEF Paid
  <2>6. Saved'
    BY <2>0, NothingYet DEF Saved, Unsaved
  <2> QED BY <1>1, <2>2, <2>3, <2>4, <2>5, <2>6 DEF VInv
<1> QED BY <1>2, <1>3, <1>4

\* A chunk without prompts to evaluate.
LEMMA SkipKeeps ==
  ASSUME VInv, SkipChunk PROVE VInv'
<1>0. /\ pos' = pos + 1 /\ fresh' = fresh /\ seeded' = seeded /\ completed' = completed
      /\ lines' = lines /\ tail' = tail /\ crashes' = crashes /\ stage' = "loop" /\ stage = "loop"
      /\ pos <= Len(Dataset) /\ Keep = <<>>
  BY DEF SkipChunk, dump, AtChunk
<1>1. Setting'
  BY DEF VInv, Setting
<1>2. /\ pos \in 1..Len(Dataset) /\ ToSet(Keep) = ToSet(Dataset[pos]) \ completed
  BY <1>0, KeepIs DEF VInv
<1>3. ToSet(Dataset[pos]) \subseteq completed
  BY <1>0, <1>2, NothingYet
<1>4. Len(Dataset) \in Nat
  BY LenProperties DEF VInv, Setting
<1>5. Types'
  <2>1. pos + 1 \in 1..(Len(Dataset) + 1)
    BY <1>2, <1>4
  <2> QED BY <1>0, <2>1 DEF VInv, Types, ValTypeOK
<1>6. Counted'
  BY <1>0 DEF VInv, Counted, Bounded
<1>7. Marked'
  <2>1. \A c \in 1..Len(Dataset) : c < pos + 1 => ToSet(Dataset[c]) \subseteq completed
    <3> SUFFICES ASSUME NEW c \in 1..Len(Dataset), c < pos + 1
                 PROVE  ToSet(Dataset[c]) \subseteq completed
      OBVIOUS
    <3>1. c < pos \/ c = pos
      BY <1>2
    <3>2. \A d \in 1..Len(Dataset) : d < pos => ToSet(Dataset[d]) \subseteq completed
      BY <1>0 DEF VInv, Marked
    <3> QED BY <3>1, <3>2, <1>3
  <2>2. completed = ToSet(seeded) \cup ToSet(fresh) /\ ToSet(lines) \subseteq completed
    BY <1>0 DEF VInv, Marked
  <2> QED BY <1>0, <2>1, <2>2 DEF Marked
<1>8. Paid'
  <2>1. Lacking(lines)' = Lacking(lines) /\ Hanging' = Hanging /\ Lacking(seeded)' = Lacking(seeded)
    BY <1>0 DEF Lacking, Hanging
  <2> QED BY <1>0, <2>1 DEF VInv, Paid
<1>9. Saved'
  BY <1>0 DEF VInv, Saved, Unsaved
<1> QED BY <1>1, <1>5, <1>6, <1>7, <1>8, <1>9 DEF VInv

\* The end of the loop, and a crash that leaves the dump.
LEMMA EndKeeps ==
  ASSUME VInv, Finish \/ Crash PROVE VInv'
<1>1. Setting'
  BY DEF VInv, Setting
<1>2. CASE Finish
  <2>0. /\ pos' = pos /\ fresh' = fresh /\ seeded' = seeded /\ completed' = completed
        /\ lines' = lines /\ tail' = tail /\ crashes' = crashes /\ stage' \in {"done", "failed"}
        /\ stage = "loop" /\ pos > Len(Dataset)
    BY <1>2 DEF Finish, dump
  <2>1. Types'
    BY <2>0 DEF VInv, Types, ValTypeOK
  <2>2. Counted'
    BY <2>0 DEF VInv, Counted, Bounded
  <2>3. Marked'
    BY <2>0 DEF VInv, Marked
  <2>4. Paid'
    <3>1. Lacking(lines)' = Lacking(lines) /\ Hanging' = Hanging /\ Lacking(seeded)' = Lacking(seeded)
      BY <2>0 DEF Lacking, Hanging
    <3> QED BY <2>0, <3>1 DEF VInv, Paid
  <2>5. Saved'
    BY <2>0 DEF Saved
  <2> QED BY <1>1, <2>1, <2>2, <2>3, <2>4, <2>5 DEF VInv
<1>3. CASE Crash
  <2>0. /\ pos' = 1 /\ fresh' = <<>> /\ seeded' = <<>> /\ completed' = {}
        /\ lines' = lines /\ tail' = tail /\ crashes' = crashes + 1 /\ stage' = "down"
        /\ crashes < MaxCrashes
    BY <1>3 DEF Crash, Dies, dump
  <2>1. Types'
    <3>1. crashes + 1 \in 0..MaxCrashes /\ 1 \in 1..(Len(Dataset) + 1)
      <4>1. crashes \in 0..MaxCrashes /\ Len(Dataset) \in Nat /\ MaxCrashes \in Nat
        BY LenProperties DEF VInv, Types, ValTypeOK, Setting
      <4> QED BY <4>1, <2>0
    <3> QED BY <2>0, <3>1, NothingYet DEF VInv, Types, ValTypeOK
  <2>2. Counted'
    <3>1. <<>> \o <<>> = <<>>
      OBVIOUS
    <3>2. Bounded(lines)' /\ Bounded(<<>>)'
      BY <2>0, NothingYet DEF VInv, Counted, Bounded
    <3> QED BY <2>0, <3>1, <3>2 DEF Counted, Bounded
  <2>3. Marked'
    BY <2>0 DEF Marked
  <2>4. Paid'
    <3>1. Lacking(lines)' = Lacking(lines) /\ Hanging' = Hanging /\ Lacking(seeded)' = {}
      BY <2>0, NothingYet DEF Lacking, Hanging
    <3>2. ToSet(fresh') = {}
      BY <2>0, NothingYet
    <3>3. crashes \in Nat /\ 2 * (crashes + 1) = 2 * crashes + 2
      BY PaidNumbers
    <3>4. Cardinality(Lacking(seeded))' = 0
      BY <3>1, NothingYet
    <3>5. (Lacking(lines) \cup Hanging)' = Lacking(lines) \cup Hanging
      BY <3>1
    <3>6. PICK c \in Nat : c = Cardinality(Lacking(lines) \cup Hanging)
      BY PaidNumbers
    <3>7. c + (IF tail = "newline" THEN 0 ELSE 1) <= 2 * crashes
      BY <3>6 DEF VInv, Paid
    <3>8. Cardinality(Lacking(lines) \cup Hanging)' = c
      BY <3>5, <3>6
    <3>9. c + (IF tail = "newline" THEN 0 ELSE 1) <= 2 * (crashes + 1) /\ 0 <= 2 * (crashes + 1)
      BY <3>3, <3>7
    <3> QED BY <2>0, <3>2, <3>4, <3>8, <3>9 DEF Paid
  <2>5. Saved'
    BY <2>0 DEF Saved
  <2> QED BY <1>1, <2>1, <2>2, <2>3, <2>4, <2>5 DEF VInv
<1> QED BY <1>2, <1>3

\* The prompts kept, in the context of a chunk.
LEMMA ChunkRows ==
  ASSUME VInv, pos <= Len(Dataset)
  PROVE  LET K == Keep
             R == Repeated(Keep, Rollouts)
         IN  /\ RowsOf(K) = R /\ R \in Seq(Key) /\ Len(R) = Rollouts * Len(K) /\ Rollouts * Len(K) \in Nat
             /\ ToSet(R) = ToSet(K)
             /\ \A k : /\ Times(k, R) \in Nat
                       /\ k \in ToSet(K) => Times(k, R) >= Rollouts
                       /\ Times(k, R) <= Rollouts * Times(k, Dataset[pos])
             /\ K # <<>> => Rollouts * Len(K) # 0
             /\ Rollouts \in Nat \ {0} /\ pos \in DOMAIN Dataset
<1> DEFINE K == Keep
           R == Repeated(K, Rollouts)
<1>1. /\ Setting /\ Rollouts \in Nat \ {0} /\ pos \in DOMAIN Dataset
      /\ K \in Seq(Key) /\ Len(K) \in Nat /\ (K # <<>> => Len(K) # 0)
      /\ \A k : Times(k, K) <= Times(k, Dataset[pos])
  BY KeepIs DEF VInv, Setting
<1>2. RowsOf(K) = R
  BY ValidationTerms
<1> HIDE DEF K
<1>3. R \in Seq(Key) /\ Len(R) = Rollouts * Len(K) /\ Rollouts * Len(K) \in Nat /\ ToSet(R) = ToSet(K)
  BY <1>1, RepeatedIs, ToSetRepeated
<1>4. K # <<>> => Rollouts * Len(K) # 0
  BY <1>1
<1>5. ASSUME NEW k
      PROVE  /\ Times(k, R) \in Nat
             /\ k \in ToSet(K) => Times(k, R) >= Rollouts
             /\ Times(k, R) <= Rollouts * Times(k, Dataset[pos])
  <2>1. PICK a \in Nat : a = Times(k, K) /\ (k \in ToSet(K) => a > 0)
    BY <1>1, TimesNat
  <2>2. Dataset[pos] \in Seq(Key)
    BY <1>1, ElementOfSeq, LenProperties DEF Setting
  <2>3. PICK b \in Nat : b = Times(k, Dataset[pos])
    BY <2>2, TimesNat
  <2>4. Times(k, R) = Rollouts * a
    BY <2>1, <1>1, TimesRepeated
  <2>5. a <= b
    BY <2>1, <2>3, <1>1
  <2>6. PICK d \in Nat : b = a + d
    <3>1. b - a \in Nat /\ b = a + (b - a)
      BY <2>5
    <3> QED BY <3>1
  <2>7. Rollouts * b = Rollouts * a + Rollouts * d /\ Rollouts * a \in Nat /\ Rollouts * d \in Nat
    BY <2>6, <1>1
  <2>8. k \in ToSet(K) => Rollouts * a >= Rollouts
    <3>1. ASSUME a > 0 PROVE Rollouts * a >= Rollouts
      <4>1. PICK c \in Nat : a = 1 + c
        <5>1. a - 1 \in Nat /\ a = 1 + (a - 1)
          BY <3>1
        <5> QED BY <5>1
      <4>2. Rollouts * a = Rollouts + Rollouts * c /\ Rollouts * c \in Nat
        BY <4>1, <1>1
      <4> QED BY <4>2, <1>1
    <3> QED BY <3>1, <2>1
  <2> QED BY <2>3, <2>4, <2>7, <2>8
<1> HIDE DEF R
<1>6. /\ RowsOf(K) = R /\ R \in Seq(Key) /\ Len(R) = Rollouts * Len(K) /\ Rollouts * Len(K) \in Nat
      /\ ToSet(R) = ToSet(K)
      /\ \A k : /\ Times(k, R) \in Nat
                /\ k \in ToSet(K) => Times(k, R) >= Rollouts
                /\ Times(k, R) <= Rollouts * Times(k, Dataset[pos])
      /\ K # <<>> => Rollouts * Len(K) # 0
      /\ Rollouts \in Nat \ {0} /\ pos \in DOMAIN Dataset
  BY <1>1, <1>2, <1>3, <1>4, <1>5
<1> QED BY <1>6 DEF R, K

\* The evaluation of a chunk.
LEMMA EvaluateKeeps ==
  ASSUME VInv, Evaluate PROVE VInv'
<1> DEFINE K == Keep
           R == Repeated(Keep, Rollouts)
<1>0. /\ pos' = pos /\ seeded' = seeded /\ completed' = completed /\ fresh' = fresh \o RowsOf(K)
      /\ lines' = lines /\ tail' = tail /\ crashes' = crashes /\ stage' = "append" /\ stage = "loop"
      /\ pos <= Len(Dataset) /\ K # <<>>
  BY DEF Evaluate, dump, AtChunk
<1>1. /\ RowsOf(K) = R /\ R \in Seq(Key) /\ Len(R) = Rollouts * Len(K) /\ Rollouts * Len(K) \in Nat
      /\ ToSet(R) = ToSet(K)
      /\ \A k : /\ Times(k, R) \in Nat
                /\ k \in ToSet(K) => Times(k, R) >= Rollouts
                /\ Times(k, R) <= Rollouts * Times(k, Dataset[pos])
      /\ Rollouts \in Nat \ {0} /\ pos \in DOMAIN Dataset
  BY <1>0, ChunkRows
<1>2. Keep' = K
  BY <1>0 DEF Keep, Missing
<1>3. ToSet(K) \cap completed = {}
  <2>1. ToSet(K) = ToSet(Dataset[pos]) \ completed
    BY <1>0, KeepIs DEF VInv
  <2> QED BY <2>1
<1> HIDE DEF K, R
<1>4. /\ seeded \in Seq(Key) /\ fresh \in Seq(Key) /\ lines \in Seq(Key)
      /\ Len(seeded) \in Nat /\ Len(fresh) \in Nat /\ Len(lines) \in Nat
  BY LenProperties DEF VInv, Types, ValTypeOK
<1>5. /\ fresh' = fresh \o R /\ fresh' \in Seq(Key) /\ Len(fresh') = Len(fresh) + Rollouts * Len(K)
      /\ ToSet(fresh') = ToSet(fresh) \cup ToSet(K)
  <2>1. /\ fresh \o R \in Seq(Key) /\ Len(fresh \o R) = Len(fresh) + Len(R)
        /\ ToSet(fresh \o R) = ToSet(fresh) \cup ToSet(R)
    BY <1>1, <1>4, ToSetJoin
  <2> QED BY <2>1, <1>0, <1>1
<1>6. ASSUME NEW k
      PROVE  /\ Times(k, fresh') = Times(k, fresh) + Times(k, R)
             /\ Times(k, seeded \o fresh') = Times(k, seeded \o fresh) + Times(k, R)
             /\ Times(k, fresh) \in Nat /\ Times(k, seeded \o fresh) \in Nat
  <2>1. Times(k, fresh') = Times(k, fresh) + Times(k, R)
    BY <1>1, <1>4, <1>5, TimesJoin
  <2>2. Times(k, seeded \o fresh) = Times(k, seeded) + Times(k, fresh)
    BY <1>4, TimesJoin
  <2>3. Times(k, seeded \o fresh') = Times(k, seeded) + Times(k, fresh')
    BY <1>4, <1>5, TimesJoin
  <2>4. Times(k, seeded) \in Nat /\ Times(k, fresh) \in Nat
    BY <1>4, TimesNat
  <2> QED BY <2>1, <2>2, <2>3, <2>4, <1>1
<1>7. /\ ToSet(seeded \o fresh) = ToSet(seeded) \cup ToSet(fresh)
      /\ ToSet(seeded \o fresh') = ToSet(seeded) \cup ToSet(fresh')
      /\ seeded \o fresh \in Seq(Key)
  <2>1. seeded \o fresh \in Seq(Key) /\ ToSet(seeded \o fresh) = ToSet(seeded) \cup ToSet(fresh)
    BY <1>4, ToSetJoin
  <2>2. PICK t \in Seq(Key) : t = fresh'
    BY <1>5
  <2>3. ToSet(seeded \o t) = ToSet(seeded) \cup ToSet(t)
    BY <1>4, ToSetJoin
  <2> QED BY <2>1, <2>2, <2>3
<1>8. completed = ToSet(seeded) \cup ToSet(fresh)
  BY <1>0 DEF VInv, Marked
<1>a. Setting'
  BY DEF VInv, Setting
<1>b. Types'
  BY <1>0, <1>5 DEF VInv, Types, ValTypeOK
<1>c. Counted'
  <2>1. Bounded(lines) /\ Bounded(seeded \o fresh)
    BY DEF VInv, Counted
  <2>2. ASSUME NEW k \in ToSet(seeded \o fresh')
        PROVE  \E c \in DOMAIN Dataset : Times(k, seeded \o fresh') <= Rollouts * Times(k, Dataset[c])
    <3>1. CASE k \in ToSet(K)
      <4>1. k \notin ToSet(seeded \o fresh)
        BY <3>1, <1>3, <1>7, <1>8
      <4>2. Times(k, seeded \o fresh) = 0
        <5>1. PICK t \in Seq(Key) : t = seeded \o fresh
          BY <1>7
        <5>2. Times(k, t) \in Nat /\ (k \in ToSet(t) <=> Times(k, t) > 0)
          BY TimesNat
        <5> QED BY <5>1, <5>2, <4>1
      <4>3. Times(k, seeded \o fresh') = Times(k, R)
        BY <4>2, <1>1, <1>6
      <4> QED BY <4>3, <1>1
    <3>2. CASE k \notin ToSet(K)
      <4>1. Times(k, R) = 0
        <5>1. PICK r \in Seq(Key) : r = R
          BY <1>1
        <5>2. Times(k, r) \in Nat /\ (k \in ToSet(r) <=> Times(k, r) > 0)
          BY TimesNat
        <5> QED BY <5>1, <5>2, <3>2, <1>1
      <4>2. Times(k, seeded \o fresh') = Times(k, seeded \o fresh)
        BY <4>1, <1>6
      <4>3. k \in ToSet(seeded \o fresh)
        BY <3>2, <1>5, <1>7
      <4> QED BY <4>2, <4>3, <2>1 DEF Bounded
    <3> QED BY <3>1, <3>2
  <2>3. Bounded(seeded \o fresh')
    BY <2>2 DEF Bounded
  <2> QED BY <2>1, <2>3, <1>0 DEF Counted, Bounded
<1>d. Marked'
  <2>1. /\ ToSet(lines) \subseteq completed
        /\ \A c \in 1..Len(Dataset) : c < pos => ToSet(Dataset[c]) \subseteq completed
    BY <1>0 DEF VInv, Marked
  <2>2. ToSet(seeded) \cup ToSet(fresh') = completed \cup ToSet(K)
    BY <1>5, <1>8
  <2> QED BY <2>1, <2>2, <1>0, <1>2 DEF Marked
<1>e. Paid'
  <2>1. Lacking(lines)' = Lacking(lines) /\ Hanging' = Hanging /\ Lacking(seeded)' = Lacking(seeded)
    BY <1>0 DEF Lacking, Hanging
  <2>2. ASSUME NEW k \in ToSet(fresh') PROVE Times(k, fresh') >= Rollouts
    <3>1. CASE k \in ToSet(K)
      BY <3>1, <1>1, <1>6
    <3>2. CASE k \notin ToSet(K)
      <4>1. k \in ToSet(fresh)
        BY <3>2, <1>5
      <4>2. Times(k, fresh) >= Rollouts
        BY <4>1 DEF VInv, Paid
      <4> QED BY <4>2, <1>1, <1>6
    <3> QED BY <3>1, <3>2
  <2>3. /\ Cardinality(Lacking(lines) \cup Hanging) + (IF tail = "newline" THEN 0 ELSE 1) <= 2 * crashes
        /\ Cardinality(Lacking(seeded)) <= 2 * crashes
    BY DEF VInv, Paid
  <2>4. /\ Cardinality(Lacking(lines) \cup Hanging)' = Cardinality(Lacking(lines) \cup Hanging)
        /\ Cardinality(Lacking(seeded))' = Cardinality(Lacking(seeded))
    BY <2>1
  <2> QED BY <2>2, <2>3, <2>4, <1>0 DEF Paid
<1>f. Saved'
  <2>1. /\ Len(seeded) + Len(fresh) - 0 - Len(lines) \in 0..2
        /\ tail # "newline" => Len(seeded) + Len(fresh) - 0 = Len(lines)
    BY <1>0 DEF VInv, Saved, Unsaved
  <2>2. PICK F \in Nat : F = Rollouts * Len(K)
    BY <1>1
  <2>3. /\ Len(seeded) + (Len(fresh) + F) - F - Len(lines) \in 0..2
        /\ tail # "newline" => Len(seeded) + (Len(fresh) + F) - F = Len(lines)
    BY <2>1, <1>4
  <2>4. (Rollouts * Len(Keep))' = F
    BY <2>2, <1>2
  <2>5. Unsaved(Rollouts * Len(Keep))'
    BY <2>2, <2>3, <2>4, <1>0, <1>5 DEF Unsaved
  <2> QED BY <2>5, <1>0 DEF Saved
<1> QED BY <1>a, <1>b, <1>c, <1>d, <1>e, <1>f DEF VInv

\* A set within three others.
LEMMA WithinThree ==
  ASSUME NEW B, NEW G, NEW E, IsFiniteSet(B), IsFiniteSet(G), IsFiniteSet(E),
         NEW S, S \subseteq B \cup G \cup E
  PROVE  /\ Cardinality(S) <= Cardinality(B) + Cardinality(G) + Cardinality(E)
         /\ Cardinality(S) \in Nat /\ Cardinality(B) \in Nat
<1>1. /\ IsFiniteSet(B \cup G) /\ Cardinality(B \cup G) = Cardinality(B) + Cardinality(G) - Cardinality(B \cap G)
  BY FS_Union
<1>2. /\ IsFiniteSet(B \cup G \cup E)
      /\ Cardinality(B \cup G \cup E) = Cardinality(B \cup G) + Cardinality(E) - Cardinality((B \cup G) \cap E)
  BY <1>1, FS_Union
<1>3. IsFiniteSet(B \cap G) /\ IsFiniteSet((B \cup G) \cap E)
  BY <1>1, FS_Subset
<1>4. IsFiniteSet(S) /\ Cardinality(S) <= Cardinality(B \cup G \cup E)
  BY <1>2, FS_Subset
<1>5. /\ Cardinality(B) \in Nat /\ Cardinality(G) \in Nat /\ Cardinality(E) \in Nat
      /\ Cardinality(B \cap G) \in Nat /\ Cardinality((B \cup G) \cap E) \in Nat
      /\ Cardinality(S) \in Nat /\ Cardinality(B \cup G) \in Nat /\ Cardinality(B \cup G \cup E) \in Nat
  BY <1>1, <1>2, <1>3, <1>4, FS_CardinalityType
<1> QED BY <1>1, <1>2, <1>4, <1>5

\* What a run that appends works on.
LEMMA Appending ==
  ASSUME VInv, stage = "append"
  PROVE  /\ Setting /\ pos <= Len(Dataset) /\ pos \in 1..Len(Dataset) /\ Len(Dataset) \in Nat
         /\ seeded \in Seq(Key) /\ fresh \in Seq(Key) /\ lines \in Seq(Key)
         /\ Len(seeded) \in Nat /\ Len(fresh) \in Nat /\ Len(lines) \in Nat
         /\ ToSet(Keep) = ToSet(Dataset[pos]) \ completed /\ ToSet(Keep) \subseteq Key
         /\ Rollouts * Len(Keep) \in Nat /\ Rollouts * Len(Keep) # 0
         /\ RowsOf(Keep) = Repeated(Keep, Rollouts)
         /\ Repeated(Keep, Rollouts) \in Seq(Key) /\ Len(Repeated(Keep, Rollouts)) = Rollouts * Len(Keep)
         /\ ToSet(seeded) \cup ToSet(fresh) = completed \cup ToSet(Keep)
         /\ ToSet(lines) \subseteq completed
         /\ \A c \in 1..Len(Dataset) : c < pos => ToSet(Dataset[c]) \subseteq completed
         /\ Unsaved(Rollouts * Len(Keep))
         /\ crashes \in Nat
<1>1. /\ Setting /\ seeded \in Seq(Key) /\ fresh \in Seq(Key) /\ lines \in Seq(Key)
      /\ crashes \in Nat /\ Len(Dataset) \in Nat
  BY LenProperties DEF VInv, Types, ValTypeOK, Setting
<1>2. Len(seeded) \in Nat /\ Len(fresh) \in Nat /\ Len(lines) \in Nat
  BY <1>1, LenProperties
<1>3. /\ pos <= Len(Dataset) /\ Keep # <<>>
      /\ ToSet(seeded) \cup ToSet(fresh) = completed \cup ToSet(Keep)
      /\ ToSet(lines) \subseteq completed
      /\ \A c \in 1..Len(Dataset) : c < pos => ToSet(Dataset[c]) \subseteq completed
  BY DEF VInv, Marked
<1>4. /\ pos \in 1..Len(Dataset) /\ Keep \in Seq(Key)
      /\ ToSet(Keep) = ToSet(Dataset[pos]) \ completed
  BY <1>3, KeepIs DEF VInv
<1>5. /\ RowsOf(Keep) = Repeated(Keep, Rollouts)
      /\ Repeated(Keep, Rollouts) \in Seq(Key) /\ Len(Repeated(Keep, Rollouts)) = Rollouts * Len(Keep)
      /\ Rollouts * Len(Keep) \in Nat /\ Rollouts * Len(Keep) # 0
  BY <1>3, ChunkRows
<1>6. ToSet(Keep) \subseteq Key
  BY <1>4, ElementOfSeq, LenProperties DEF ToSet
<1>7. Unsaved(Rollouts * Len(Keep))
  BY DEF VInv, Saved
<1> QED BY <1>1, <1>2, <1>3, <1>4, <1>5, <1>6, <1>7

\* The prompts a written dump lacks rows of, and those at its end, are those
\* of before, the one glued to the end, and those in E.
LEMMA GluedPays ==
  ASSUME VInv, NEW w, NEW E, IsFiniteSet(E),
         NEW S, S \subseteq Lacking(lines) \cup Hanging \cup Glued(w) \cup E
  PROVE  Cardinality(S) \in Nat /\ Cardinality(S) <= 2 * crashes + Cardinality(E)
<1>1. /\ IsFiniteSet(Lacking(lines) \cup Hanging) /\ crashes \in Nat
      /\ Cardinality(Lacking(lines) \cup Hanging) \in Nat
  BY PaidNumbers
<1>2. /\ IsFiniteSet(Glued(w)) /\ Cardinality(Glued(w)) \in Nat
      /\ Cardinality(Glued(w)) <= IF tail = "newline" THEN 0 ELSE 1
  <2>1. CASE Glued(w) = {}
    BY <2>1, FS_EmptySet
  <2>2. CASE Glued(w) # {}
    <3>1. Glued(w) = {w[1]} /\ tail # "newline"
      BY <2>2 DEF Glued
    <3>2. IsFiniteSet({w[1]}) /\ Cardinality({w[1]}) = 1
      BY FS_Singleton
    <3> QED BY <3>1, <3>2
  <2> QED BY <2>1, <2>2
<1>3. Cardinality(E) \in Nat
  BY FS_CardinalityType
<1>4. Cardinality(Lacking(lines) \cup Hanging) + (IF tail = "newline" THEN 0 ELSE 1) <= 2 * crashes
  BY DEF VInv, Paid
<1>5. PICK B : B = Lacking(lines) \cup Hanging
  OBVIOUS
<1>6. /\ Cardinality(S) <= Cardinality(B) + Cardinality(Glued(w)) + Cardinality(E)
      /\ Cardinality(S) \in Nat
  BY <1>1, <1>2, <1>5, WithinThree
<1> QED BY <1>1, <1>2, <1>3, <1>4, <1>5, <1>6

\* An append that is not cut.
LEMMA AppendKeeps ==
  ASSUME VInv, AppendRecords PROVE VInv'
<1> DEFINE K == Keep
           F == Rollouts * Len(Keep)
<1>0. /\ stage = "append" /\ lines' = Parsed \o AfterTail(RowsOf(K)) /\ tail' = "newline"
      /\ completed' = completed \cup ToSet(K) /\ pos' = pos + 1 /\ stage' = "loop"
      /\ seeded' = seeded /\ fresh' = fresh /\ crashes' = crashes
  BY ValidationTerms DEF AppendRecords
<1>1. /\ Setting /\ pos \in 1..Len(Dataset) /\ Len(Dataset) \in Nat
      /\ Len(seeded) \in Nat /\ Len(fresh) \in Nat /\ Len(lines) \in Nat
      /\ ToSet(K) = ToSet(Dataset[pos]) \ completed /\ ToSet(K) \subseteq Key
      /\ F \in Nat /\ F # 0
      /\ RowsOf(K) = Repeated(K, Rollouts)
      /\ Repeated(K, Rollouts) \in Seq(Key) /\ Len(Repeated(K, Rollouts)) = F
      /\ ToSet(seeded) \cup ToSet(fresh) = completed \cup ToSet(K)
      /\ ToSet(lines) \subseteq completed
      /\ \A c \in 1..Len(Dataset) : c < pos => ToSet(Dataset[c]) \subseteq completed
      /\ Unsaved(F) /\ crashes \in Nat
  BY <1>0, Appending
<1>2. PICK w \in Seq(Key) : w = Repeated(K, Rollouts)
  BY <1>1
<1>3. w = SubSeq(Repeated(K, Rollouts), 1, F)
  <2>1. SubSeq(w, 1, Len(w)) = w
    BY SubSeqFull
  <2> QED BY <2>1, <1>1, <1>2
<1>4. lines' = Parsed \o AfterTail(w)
  BY <1>0, <1>1, <1>2
<1>5. F \in 0..F
  BY <1>1
<1>6. PICK L : L = Parsed \o AfterTail(w)
  OBVIOUS
<1>7. /\ L \in Seq(Key) /\ Bounded(L) /\ Len(w) = F
      /\ ToSet(L) \subseteq ToSet(lines) \cup ToSet(K)
      /\ Lacking(L) \subseteq Lacking(lines) \cup Hanging \cup Glued(w)
           \cup (IF F = 0 \/ F = F THEN {} ELSE {w[F]})
      /\ Len(L) = Len(lines) - (IF tail = "record" THEN 1 ELSE 0)
                  + (F - (IF tail = "newline" \/ w = <<>> THEN 0 ELSE 1))
  <2>1. WrittenAs(F, w, L)
    BY <1>0, <1>3, <1>5, <1>6, Written
  <2> QED BY <2>1 DEF WrittenAs
<1> HIDE DEF K, F
<1>a. Setting'
  BY <1>1 DEF Setting
<1>b. Types'
  <2>1. pos + 1 \in 1..(Len(Dataset) + 1)
    BY <1>1
  <2>2. /\ seeded \in Seq(Key) /\ fresh \in Seq(Key) /\ completed \subseteq Key
        /\ crashes \in 0..MaxCrashes
    BY DEF VInv, Types, ValTypeOK
  <2> QED BY <2>1, <2>2, <1>0, <1>1, <1>4, <1>6, <1>7 DEF Types, ValTypeOK, Ends
<1>c. Counted'
  BY <1>0, <1>4, <1>6, <1>7 DEF VInv, Counted, Bounded
<1>d. Marked'
  <2>1. ToSet(L) \subseteq completed \cup ToSet(K)
    BY <1>1, <1>7
  <2>2. \A c \in 1..Len(Dataset) : c < pos + 1 => ToSet(Dataset[c]) \subseteq completed \cup ToSet(K)
    <3> SUFFICES ASSUME NEW c \in 1..Len(Dataset), c < pos + 1
                 PROVE  ToSet(Dataset[c]) \subseteq completed \cup ToSet(K)
      OBVIOUS
    <3>1. c < pos \/ c = pos
      BY <1>1
    <3> QED BY <3>1, <1>1
  <2> QED BY <2>1, <2>2, <1>0, <1>1, <1>4, <1>6 DEF Marked
<1>e. Paid'
  <2>1. Lacking(lines)' = Lacking(L) /\ Hanging' = {} /\ Lacking(seeded)' = Lacking(seeded)
    BY <1>0, <1>4, <1>6 DEF Lacking, Hanging
  <2>2. (Lacking(lines) \cup Hanging)' = Lacking(L)
    BY <2>1
  <2>3. Cardinality(Lacking(L)) \in Nat /\ Cardinality(Lacking(L)) <= 2 * crashes + Cardinality({})
    <3>1. PICK S : S = Lacking(L)
      OBVIOUS
    <3>2. S \subseteq Lacking(lines) \cup Hanging \cup Glued(w) \cup {}
      BY <3>1, <1>7
    <3> QED BY <3>1, <3>2, GluedPays, FS_EmptySet
  <2>4. Cardinality({}) = 0
    BY FS_EmptySet
  <2>5. Cardinality(Lacking(lines) \cup Hanging)' + 0 <= 2 * crashes
    <3>1. PICK S : S = Lacking(L)
      OBVIOUS
    <3>2. Cardinality(Lacking(lines) \cup Hanging)' = Cardinality(S)
      BY <2>2, <3>1
    <3>3. Cardinality(S) \in Nat /\ Cardinality(S) <= 2 * crashes + 0
      BY <2>3, <2>4, <3>1
    <3>4. Cardinality(S) + 0 <= 2 * crashes
      BY <3>3, <1>1
    <3> QED BY <3>2, <3>4
  <2>6. Cardinality(Lacking(seeded)) <= 2 * crashes /\ \A k \in ToSet(fresh) : Times(k, fresh) >= Rollouts
    BY DEF VInv, Paid
  <2> QED BY <2>1, <2>5, <2>6, <1>0 DEF Paid
<1>f. Saved'
  <2>1. /\ Len(seeded) + Len(fresh) - F - Len(lines) \in 0..2
        /\ tail # "newline" => Len(seeded) + Len(fresh) - F = Len(lines)
    BY <1>1 DEF Unsaved
  <2>2. w # <<>>
    BY <1>1, <1>7
  <2>3. Len(seeded) + Len(fresh) - 0 - Len(L) \in 0..2
    <3>1. CASE tail = "newline"
      <4>1. Len(L) = Len(lines) + F
        BY <3>1, <1>1, <1>7
      <4> QED BY <4>1, <2>1, <1>1
    <3>2. CASE tail # "newline"
      <4>1. Len(L) = Len(lines) - (IF tail = "record" THEN 1 ELSE 0) + (F - 1)
        BY <3>2, <2>2, <1>7
      <4>2. PICK f \in Nat, l \in Nat : f = F /\ l = Len(lines)
        BY <1>1
      <4>3. Len(L) = l + f - 1 \/ Len(L) = l + f - 2
        BY <4>1, <4>2
      <4> QED BY <4>2, <4>3, <3>2, <2>1, <1>1
    <3> QED BY <3>1, <3>2
  <2>4. Unsaved(0)'
    BY <2>3, <1>0, <1>4, <1>6 DEF Unsaved
  <2> QED BY <2>4, <1>0 DEF Saved
<1> QED BY <1>a, <1>b, <1>c, <1>d, <1>e, <1>f DEF VInv

\* An append that a crash cuts.
LEMMA TornKeeps ==
  ASSUME VInv, NEW end \in Ends, TornAppend(end) PROVE VInv'
<1> DEFINE K == Keep
           F == Rollouts * Len(Keep)
<1>0. /\ pos' = 1 /\ fresh' = <<>> /\ seeded' = <<>> /\ completed' = {}
      /\ crashes' = crashes + 1 /\ stage' = "down" /\ crashes < MaxCrashes /\ stage = "append"
  BY DEF TornAppend, Dies
<1>1. /\ Setting /\ Len(Dataset) \in Nat
      /\ RowsOf(K) = Repeated(K, Rollouts) /\ F \in Nat /\ crashes \in Nat
  BY <1>0, Appending
<1>2. PICK n \in 0..F :
        /\ lines' = Parsed \o AfterTail(SubSeq(Repeated(K, Rollouts), 1, n))
        /\ tail' = IF end = "record" /\ AfterTail(SubSeq(Repeated(K, Rollouts), 1, n)) = <<>>
                   THEN "within" ELSE end
  BY <1>1 DEF TornAppend
<1>3. PICK w : w = SubSeq(Repeated(K, Rollouts), 1, n)
  OBVIOUS
<1>4. PICK L : L = Parsed \o AfterTail(w)
  OBVIOUS
<1>5. /\ lines' = L /\ tail' \in Ends
      /\ tail' = "record" => AfterTail(w) # <<>>
  <2>1. "within" \in Ends
    BY DEF Ends
  <2> QED BY <2>1, <1>2, <1>3, <1>4
<1>6. /\ L \in Seq(Key) /\ Bounded(L) /\ w \in Seq(Key) /\ Len(w) = n
      /\ Lacking(L) \subseteq Lacking(lines) \cup Hanging \cup Glued(w)
           \cup (IF n = 0 \/ n = F THEN {} ELSE {w[n]})
      /\ AfterTail(w) # <<>> => L # <<>> /\ L[Len(L)] = w[n]
  <2>1. WrittenAs(n, w, L)
    BY <1>0, <1>3, <1>4, Written
  <2> QED BY <2>1 DEF WrittenAs
<1> HIDE DEF K, F
<1>7. AfterTail(w) # <<>> => n # 0
  <2> SUFFICES ASSUME n = 0 PROVE AfterTail(w) = <<>>
    OBVIOUS
  <2>1. w = <<>>
    BY <1>6, EmptySeq
  <2> QED BY <2>1 DEF AfterTail
<1>a. Setting'
  BY <1>1 DEF Setting
<1>b. Types'
  <2>1. crashes + 1 \in 0..MaxCrashes /\ 1 \in 1..(Len(Dataset) + 1)
    BY <1>0, <1>1 DEF Setting
  <2> QED BY <2>1, <1>0, <1>5, <1>6, NothingYet DEF Types, ValTypeOK
<1>c. Counted'
  <2>1. <<>> \o <<>> = <<>>
    OBVIOUS
  <2>2. Bounded(L)' /\ Bounded(<<>>)'
    BY <1>6, NothingYet DEF Bounded
  <2>3. Bounded(lines)' /\ Bounded(seeded \o fresh)'
    BY <1>0, <1>5, <1>6, <2>1, NothingYet DEF Bounded
  <2> QED BY <2>3 DEF Counted
<1>d. Marked'
  BY <1>0 DEF Marked
<1>e. Paid'
  <2>1. PICK E : E = IF n = 0 THEN {} ELSE {w[n]}
    OBVIOUS
  <2>2. IsFiniteSet(E) /\ Cardinality(E) \in Nat /\ Cardinality(E) <= 1
    <3>1. CASE n = 0
      BY <3>1, <2>1, FS_EmptySet
    <3>2. CASE n # 0
      <4>1. IsFiniteSet({w[n]}) /\ Cardinality({w[n]}) = 1
        BY FS_Singleton
      <4> QED BY <4>1, <3>2, <2>1
    <3> QED BY <3>1, <3>2
  <2>3. Lacking(lines)' = Lacking(L) /\ Lacking(seeded)' = {}
    BY <1>0, <1>5, NothingYet DEF Lacking
  <2>4. Hanging' \subseteq E
    <3>1. CASE tail' = "record"
      <4>1. Hanging' = {L[Len(L)]}
        BY <3>1, <1>5 DEF Hanging
      <4> QED BY <4>1, <3>1, <2>1, <1>5, <1>6, <1>7
    <3>2. CASE tail' # "record"
      BY <3>2 DEF Hanging
    <3> QED BY <3>1, <3>2
  <2>5. PICK S : S = (Lacking(lines) \cup Hanging)'
    OBVIOUS
  <2>6. S \subseteq Lacking(lines) \cup Hanging \cup Glued(w) \cup E
    <3>1. (IF n = 0 \/ n = F THEN {} ELSE {w[n]}) \subseteq E
      BY <2>1
    <3>2. S = Lacking(L) \cup Hanging'
      BY <2>3, <2>5
    <3> QED BY <3>1, <3>2, <2>4, <1>6
  <2>7. Cardinality(S) \in Nat /\ Cardinality(S) <= 2 * crashes + Cardinality(E)
    BY <2>2, <2>6, GluedPays
  <2>8. Cardinality(S) + (IF tail' = "newline" THEN 0 ELSE 1) <= 2 * (crashes + 1)
        /\ 0 <= 2 * (crashes + 1)
    BY <2>2, <2>7, <1>1
  <2>9. Cardinality(Lacking(lines) \cup Hanging)' = Cardinality(S) /\ Cardinality(Lacking(seeded))' = 0
    BY <2>3, <2>5, NothingYet
  <2>10. ToSet(fresh') = {}
    BY <1>0, NothingYet
  <2> QED BY <2>8, <2>9, <2>10, <1>0 DEF Paid
<1>f. Saved'
  BY <1>0 DEF Saved
<1> QED BY <1>a, <1>b, <1>c, <1>d, <1>e, <1>f DEF VInv

\* Every step of the validation keeps the invariant.
LEMMA ValidationNext ==
  ASSUME VInv, [ValNext]_valVars PROVE VInv'
<1>1. CASE Resume \/ StartOver
  BY <1>1, StartKeeps
<1>2. CASE SkipChunk
  BY <1>2, SkipKeeps
<1>3. CASE Evaluate
  BY <1>3, EvaluateKeeps
<1>4. CASE AppendRecords
  BY <1>4, AppendKeeps
<1>5. CASE Finish \/ Crash
  BY <1>5, EndKeeps
<1>6. ASSUME NEW end \in Ends, TornAppend(end) PROVE VInv'
  BY <1>6, TornKeeps
<1>7. CASE UNCHANGED valVars
  <2>0. /\ lines' = lines /\ tail' = tail /\ stage' = stage /\ pos' = pos /\ seeded' = seeded
        /\ fresh' = fresh /\ completed' = completed /\ crashes' = crashes
    BY <1>7 DEF valVars
  <2>1. Keep' = Keep
    BY <2>0 DEF Keep, Missing
  <2>2. Setting' /\ Types' /\ Counted'
    BY <2>0 DEF VInv, Setting, Types, ValTypeOK, Counted, Bounded
  <2>3. Marked'
    BY <2>0, <2>1 DEF VInv, Marked
  <2>4. Paid'
    <3>1. Lacking(lines)' = Lacking(lines) /\ Hanging' = Hanging /\ Lacking(seeded)' = Lacking(seeded)
      BY <2>0 DEF Lacking, Hanging
    <3> QED BY <2>0, <3>1 DEF VInv, Paid
  <2>5. Saved'
    BY <2>0, <2>1 DEF VInv, Saved, Unsaved
  <2> QED BY <2>2, <2>3, <2>4, <2>5 DEF VInv
<1> QED BY <1>1, <1>2, <1>3, <1>4, <1>5, <1>6, <1>7 DEF ValNext

\* The invariant says what the rows are.
LEMMA ValidationImplies ==
  ASSUME VInv PROVE RowsComplete
<1>1. /\ Setting /\ seeded \in Seq(Key) /\ fresh \in Seq(Key) /\ Rollouts \in Nat \ {0}
      /\ crashes \in Nat /\ ValTypeOK /\ Len(Dataset) \in Nat /\ DOMAIN Dataset = 1..Len(Dataset)
  BY LenProperties DEF VInv, Types, ValTypeOK, Setting
<1>2. Len(seeded) \in Nat /\ Len(fresh) \in Nat
  BY <1>1, LenProperties
<1>3. /\ seeded \o fresh \in Seq(Key) /\ Len(seeded \o fresh) = Len(seeded) + Len(fresh)
      /\ ToSet(seeded \o fresh) = ToSet(seeded) \cup ToSet(fresh)
  BY <1>1, ToSetJoin
<1>4. PICK rows \in Seq(Key) : rows = seeded \o fresh
  BY <1>3
<1>5. Rows = rows
  BY <1>4 DEF Rows
<1>6. CountedOnce
  <2>1. \A k \in ToSet(rows) : \E c \in DOMAIN Dataset : Times(k, rows) <= Rollouts * Times(k, Dataset[c])
    BY <1>4 DEF VInv, Counted, Bounded
  <2> QED BY <2>1, <1>5, ValidationTerms DEF CountedOnce
<1>7. FinishedCoversAll
  <2> SUFFICES ASSUME stage = "done"
               PROVE  LET asked == UNION {ToSet(Dataset[c]) : c \in DOMAIN Dataset}
                      IN  /\ \A k \in asked : Times(k, rows) > 0
                          /\ Cardinality({k \in asked : Times(k, rows) < Rollouts}) <= 2 * crashes
    BY <1>5, ValidationTerms DEF FinishedCoversAll
  <2> DEFINE asked == UNION {ToSet(Dataset[c]) : c \in DOMAIN Dataset}
  <2>1. ASSUME NEW k \in asked PROVE k \in ToSet(rows)
    <3>1. PICK c \in DOMAIN Dataset : k \in ToSet(Dataset[c])
      BY <2>1
    <3>2. /\ completed = ToSet(seeded) \cup ToSet(fresh) /\ pos > Len(Dataset) /\ pos \in Int
          /\ \A d \in 1..Len(Dataset) : d < pos => ToSet(Dataset[d]) \subseteq completed
      BY DEF VInv, Marked, Types, ValTypeOK
    <3>3. c < pos
      BY <3>2, <1>1
    <3> QED BY <3>1, <3>2, <3>3, <1>1, <1>3, <1>4
  <2>2. \A k \in asked : Times(k, rows) > 0
    BY <2>1, TimesNat
  <2>3. ASSUME NEW k \in asked, Times(k, rows) < Rollouts PROVE k \in Lacking(seeded)
    <3>1. PICK a \in Nat, b \in Nat : a = Times(k, seeded) /\ b = Times(k, fresh)
      BY <1>1, TimesNat
    <3>2. Times(k, rows) = a + b
      BY <3>1, <1>1, <1>4, TimesJoin
    <3>3. k \notin ToSet(fresh)
      <4>1. \A q \in ToSet(fresh) : Times(q, fresh) >= Rollouts
        BY DEF VInv, Paid
      <4>2. b < Rollouts
        BY <3>2, <2>3, <1>1
      <4> QED BY <4>1, <4>2, <3>1, <1>1
    <3>4. k \in ToSet(seeded)
      BY <2>1, <2>3, <3>3, <1>3, <1>4
    <3>5. a < Rollouts
      BY <3>2, <2>3, <1>1
    <3> QED BY <3>1, <3>4, <3>5 DEF Lacking
  <2>4. PICK few : few = {k \in asked : Times(k, rows) < Rollouts}
    OBVIOUS
  <2>5. few \subseteq Lacking(seeded)
    BY <2>3, <2>4
  <2>6. IsFiniteSet(Lacking(seeded)) /\ Cardinality(Lacking(seeded)) <= 2 * crashes
    BY PaidNumbers DEF VInv, Paid
  <2>7. /\ Cardinality(few) <= Cardinality(Lacking(seeded))
        /\ Cardinality(few) \in Nat /\ Cardinality(Lacking(seeded)) \in Nat
    BY <2>5, <2>6, FS_Subset, FS_CardinalityType
  <2>8. Cardinality(few) <= 2 * crashes
    BY <2>6, <2>7, <1>1
  <2> QED BY <2>2, <2>4, <2>8
<1>8. DumpKeepsUp
  <2> SUFFICES ASSUME stage = "loop" PROVE Len(rows) - Len(lines) \in 0..2
    BY <1>5 DEF DumpKeepsUp
  <2>1. Len(seeded) + Len(fresh) - 0 - Len(lines) \in 0..2
    BY DEF VInv, Saved, Unsaved
  <2> QED BY <2>1, <1>2, <1>3, <1>4
<1> QED BY <1>1, <1>6, <1>7, <1>8 DEF RowsComplete

\* A step generates rollouts of prompts without rows in the dump.
LEMMA ValidationEvaluates ==
  ASSUME VInv, [ValNext]_valVars
  PROVE  \A i \in DOMAIN fresh' : Len(fresh) < i => fresh'[i] \notin ToSet(lines)
<1>1. fresh \in Seq(Key) /\ Len(fresh) \in Nat /\ DOMAIN fresh = 1..Len(fresh)
  BY LenProperties DEF VInv, Types, ValTypeOK
<1>2. CASE fresh' = fresh
  BY <1>1, <1>2
<1>3. CASE fresh' = <<>>
  <2>1. DOMAIN fresh' = {}
    BY <1>3
  <2> QED BY <2>1
<1>4. CASE Evaluate
  <2>0. /\ fresh' = fresh \o RowsOf(Keep) /\ stage = "loop" /\ pos <= Len(Dataset)
    BY <1>4 DEF Evaluate, AtChunk
  <2>1. PICK R \in Seq(Key) :
          /\ R = RowsOf(Keep) /\ ToSet(R) = ToSet(Keep)
    BY <2>0, ChunkRows
  <2>2. ToSet(R) \cap ToSet(lines) = {}
    <3>1. ToSet(Keep) = ToSet(Dataset[pos]) \ completed
      BY <2>0, KeepIs DEF VInv
    <3>2. ToSet(lines) \subseteq completed
      BY <2>0 DEF VInv, Marked
    <3> QED BY <2>1, <3>1, <3>2
  <2>3. Len(R) \in Nat /\ DOMAIN R = 1..Len(R)
    BY LenProperties
  <2>4. fresh' = fresh \o R
    BY <2>0, <2>1
  <2> SUFFICES ASSUME NEW i \in DOMAIN fresh', Len(fresh) < i
               PROVE  fresh'[i] \notin ToSet(lines)
    OBVIOUS
  <2>5. /\ fresh \o R \in Seq(Key) /\ Len(fresh \o R) = Len(fresh) + Len(R)
        /\ \A j \in 1..(Len(fresh) + Len(R)) :
             (fresh \o R)[j] = IF j <= Len(fresh) THEN fresh[j] ELSE R[j - Len(fresh)]
    BY <1>1, ConcatProperties
  <2>6. i \in 1..(Len(fresh) + Len(R))
    <3>1. DOMAIN (fresh \o R) = 1..Len(fresh \o R)
      BY <2>5, LenProperties
    <3> QED BY <3>1, <2>4, <2>5
  <2>7. i - Len(fresh) \in DOMAIN R /\ ~(i <= Len(fresh))
    BY <2>3, <2>6, <1>1
  <2>8. fresh'[i] = R[i - Len(fresh)]
    BY <2>4, <2>5, <2>6, <2>7
  <2>9. fresh'[i] \in ToSet(R)
    BY <2>7, <2>8 DEF ToSet
  <2> QED BY <2>2, <2>9
<1>5. fresh' = fresh \/ fresh' = <<>> \/ Evaluate
  BY DEF ValNext, valVars, Resume, StartOver, SkipChunk, AppendRecords, Finish, Crash,
         TornAppend, Dies
<1> QED BY <1>2, <1>3, <1>4, <1>5

\* Every reachable state of the validation satisfies the invariant.
LEMMA ValidationAlways ==
  ValSpec => []VInv
<1>1. ValInit => VInv
  BY ValidationInit
<1>2. VInv /\ [ValNext]_valVars => VInv'
  BY ValidationNext
<1> QED BY <1>1, <1>2, PTL DEF ValSpec

\* However often a validation is killed and resumed, no prompt has more rows than
\* one pass over a chunk generates; one that ends has rows of every prompt, and
\* lacks rollouts of two prompts for each crash at most; and between chunks its
\* rows are in the dump, but for two: for every dataset, number of rollouts and
\* number of crashes.
THEOREM RowsStayComplete ==
  ValSpec => []RowsComplete
<1>1. VInv => RowsComplete
  BY ValidationImplies
<1>2. ValSpec => []VInv
  BY ValidationAlways
<1> QED BY <1>1, <1>2, PTL

\* No run generates rollouts of a prompt that has a row in the dump.
THEOREM EvaluatesWhatIsMissing ==
  ValSpec => EvaluatesOnlyMissing
<1>1. VInv /\ [ValNext]_valVars =>
        [\A i \in DOMAIN fresh' : Len(fresh) < i => fresh'[i] \notin ToSet(lines)]_valVars
  BY ValidationEvaluates
<1>2. ValSpec => []VInv
  BY ValidationAlways
<1> QED BY <1>1, <1>2, PTL DEF ValSpec, EvaluatesOnlyMissing
=============================================================================
