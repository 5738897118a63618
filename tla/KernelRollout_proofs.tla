-------------------------- MODULE KernelRollout_proofs --------------------------
(***************************************************************************)
(* Theorems about KernelRollout, for every group of rows, every number of   *)
(* turns, tokens and submissions, and whatever KernelGym answers; and about *)
(* what the batch filter selects of the rows that are rolled out.           *)
(***************************************************************************)
EXTENDS KernelRollout, BatchFilter, SequenceTheorems, FiniteSetTheorems, FunctionTheorems, TLAPS

-----------------------------------------------------------------------------
(***************************************************************************)
(* The inductive invariant.                                                 *)
(***************************************************************************)

Phases == {"pending", "generating", "submit", "poll", "terminated"}

Types ==
  /\ phase \in [Row -> Phases]
  /\ turns \in [Row -> 0..MaxTurns]
  /\ mask \in [Row -> Seq(0..MaxTurns)]
  /\ rewards \in [Row -> Seq(Reward)]
  /\ final \in [Row -> BOOLEAN]
  /\ run \in [Row -> Run]
  /\ attempt \in [Row -> 0..(MaxSubmits - 1)]
  /\ server \in [Task -> Verdict \cup {"absent", "queued"}]

\* The mask never outgrows the context.
Fits == \A r \in Row : Len(mask[r]) <= ResponseLength + Slack

\* While a turn is evaluated its reward is missing, otherwise none is; a turn
\* that is generated is one that may be; a second evaluation of a turn is the
\* rerun of an anomaly.
Evaluating(r) == phase[r] \in {"submit", "poll"}
Progress ==
  \A r \in Row :
    /\ Evaluating(r) => turns[r] = Len(rewards[r]) + 1
    /\ ~ Evaluating(r) => turns[r] = Len(rewards[r]) /\ run[r] = 1
    /\ phase[r] = "pending" => turns[r] = 0
    /\ phase[r] = "generating" => turns[r] < MaxTurns
    /\ Evaluating(r) /\ ~ final[r] => turns[r] < MaxTurns
    /\ Evaluating(r) /\ run[r] = 2 => server[<<r, turns[r], 1>>] = "anomalous"

\* Scores are computed when every row has ended, one per kept token.
Scored ==
  scores # <<>> =>
    \A r \in Row : phase[r] = "terminated" /\ Len(scores[r]) = Len(Kept(r))

RInv ==
  /\ Types /\ Fits /\ Progress /\ Scored
  /\ OwnKernelScored /\ OutlierMeasuredTwice

\* The rewards of the three findings, told apart.
LEMMA Rewards ==
  /\ RewardOf["failed"] = Penalty /\ RewardOf["correct"] = 1 /\ RewardOf["anomalous"] = 2
  /\ Penalty \in Reward /\ \A v \in Verdict : RewardOf[v] \in Reward
  /\ \A v \in Verdict : RewardOf[v] = 2 => v = "anomalous"
<1>1. /\ RewardOf["failed"] = Penalty /\ RewardOf["correct"] = 1 /\ RewardOf["anomalous"] = 2
  BY DEF RewardOf
<1>2. \A v \in Verdict : RewardOf[v] \in Reward
  BY DEF Reward
<1>3. "failed" \in Verdict /\ \A v \in Verdict : v = "failed" \/ v = "correct" \/ v = "anomalous"
  BY DEF Verdict
<1>4. Penalty \in Reward
  BY <1>1, <1>2, <1>3
<1>5. Penalty # 2 /\ 1 # 2
  BY DEF Penalty
<1> QED BY <1>1, <1>2, <1>3, <1>4, <1>5

\* The initial state: no row has begun.
LEMMA InitRollout == Init => RInv
<1> SUFFICES ASSUME Init PROVE RInv
  OBVIOUS
<1> USE KernelRolloutAssumption
<1>1. Types
  <2>1. phase \in [Row -> Phases] /\ final \in [Row -> BOOLEAN]
    BY DEF Init, Phases
  <2>2. turns \in [Row -> 0..MaxTurns] /\ run \in [Row -> Run]
    BY DEF Init, Run
  <2>3. mask \in [Row -> Seq(0..MaxTurns)] /\ rewards \in [Row -> Seq(Reward)]
    BY DEF Init
  <2>4. attempt \in [Row -> 0..(MaxSubmits - 1)]
    BY DEF Init
  <2>5. server \in [Task -> Verdict \cup {"absent", "queued"}]
    BY DEF Init
  <2> QED BY <2>1, <2>2, <2>3, <2>4, <2>5 DEF Types
<1>2. \A r \in Row : mask[r] = <<>> /\ rewards[r] = <<>> /\ phase[r] = "pending"
                     /\ turns[r] = 0 /\ run[r] = 1
  BY DEF Init
<1>3. Fits /\ Progress
  BY <1>2 DEF Fits, Progress, Evaluating
<1>4. Scored
  BY DEF Init, Scored
<1>5. OwnKernelScored /\ OutlierMeasuredTwice
  BY <1>2 DEF OwnKernelScored, OutlierMeasuredTwice
<1> QED BY <1>1, <1>3, <1>4, <1>5 DEF RInv

\* What KernelGym has found stays found.
Found == \A t \in Task : server[t] \in Verdict => server'[t] = server[t]
ServerType == server \in [Task -> Verdict \cup {"absent", "queued"}]

\* A step of row r alone, to the values given.
RowStep(r, p, t, m, s, f, u, a) ==
  /\ phase' = [phase EXCEPT ![r] = p]
  /\ turns' = [turns EXCEPT ![r] = t]
  /\ mask' = [mask EXCEPT ![r] = m]
  /\ rewards' = [rewards EXCEPT ![r] = s]
  /\ final' = [final EXCEPT ![r] = f]
  /\ run' = [run EXCEPT ![r] = u]
  /\ attempt' = [attempt EXCEPT ![r] = a]
  /\ UNCHANGED scores

\* What the invariant asks of these values: a reward is one the row has, the
\* penalty, or what KernelGym found.
RowTyped(p, t, m, s, f, u, a) ==
  /\ p \in Phases /\ t \in 0..MaxTurns /\ m \in Seq(0..MaxTurns) /\ s \in Seq(Reward)
  /\ f \in BOOLEAN /\ u \in Run /\ a \in 0..(MaxSubmits - 1)
  /\ Len(m) <= ResponseLength + Slack
RowSound(r, p, t, s, f, u) ==
  /\ p \in {"submit", "poll"} =>
       /\ t = Len(s) + 1 /\ (~ f => t < MaxTurns)
       /\ u = 2 => server'[<<r, t, 1>>] = "anomalous"
  /\ p \notin {"submit", "poll"} => t = Len(s) /\ u = 1
  /\ p = "pending" => t = 0
  /\ p = "generating" => t < MaxTurns
Given(r, s) ==
  \A k \in 1..Len(s) :
    \/ k \in 1..Len(rewards[r]) /\ s[k] = rewards[r][k]
    \/ s[k] = Penalty
    \/ /\ \E n \in Run : /\ server'[<<r, k, n>>] \in Verdict
                         /\ RewardOf[server'[<<r, k, n>>]] = s[k]
       /\ s[k] = 2 => \A n \in Run : server'[<<r, k, n>>] = "anomalous"

\* It suffices to look at the row that steps.
LEMMA OneRow ==
  ASSUME RInv, NEW r \in Row, ServerType', Found, phase[r] # "terminated",
         NEW p, NEW t, NEW m, NEW s, NEW f, NEW u, NEW a,
         RowStep(r, p, t, m, s, f, u, a), RowTyped(p, t, m, s, f, u, a),
         RowSound(r, p, t, s, f, u), Given(r, s)
  PROVE  RInv'
<1> USE DEF RowStep, RowTyped, RowSound, Given
<1>t. Types /\ Fits /\ Progress /\ Scored /\ OwnKernelScored /\ OutlierMeasuredTwice
  BY DEF RInv
<1>w. \A q \in Row :
        /\ phase'[q] = IF q = r THEN p ELSE phase[q]
        /\ turns'[q] = IF q = r THEN t ELSE turns[q]
        /\ mask'[q] = IF q = r THEN m ELSE mask[q]
        /\ rewards'[q] = IF q = r THEN s ELSE rewards[q]
        /\ final'[q] = IF q = r THEN f ELSE final[q]
        /\ run'[q] = IF q = r THEN u ELSE run[q]
  BY <1>t DEF Types
<1>k. \A q \in Row : \A k \in 1..Len(rewards[q]), n \in Run :
        k \in 1..MaxTurns /\ <<q, k, n>> \in Task
  <2> TAKE q \in Row
  <2> TAKE k \in 1..Len(rewards[q]), n \in Run
  <2>0. rewards[q] \in Seq(Reward) /\ turns[q] \in 0..MaxTurns /\ MaxTurns \in Nat
    BY <1>t, KernelRolloutAssumption DEF Types
  <2>1. Len(rewards[q]) \in Nat /\ Len(rewards[q]) <= turns[q]
    <3>1. Len(rewards[q]) \in Nat
      BY <2>0, LenProperties
    <3>2. turns[q] = Len(rewards[q]) + 1 \/ turns[q] = Len(rewards[q])
      BY <1>t DEF Progress
    <3> QED BY <3>1, <3>2
  <2>2. k \in 1..MaxTurns
    BY <2>0, <2>1
  <2> QED BY <2>2 DEF Task, Turn
<1>1. Types'
  BY <1>t DEF Types, ServerType
<1>2. Fits'
  BY <1>w, <1>t DEF Fits
<1>3. Progress'
  <2> SUFFICES ASSUME NEW q \in Row
               PROVE  /\ Evaluating(q)' => turns'[q] = Len(rewards'[q]) + 1
                      /\ ~ Evaluating(q)' => turns'[q] = Len(rewards'[q]) /\ run'[q] = 1
                      /\ phase'[q] = "pending" => turns'[q] = 0
                      /\ phase'[q] = "generating" => turns'[q] < MaxTurns
                      /\ Evaluating(q)' /\ ~ final'[q] => turns'[q] < MaxTurns
                      /\ Evaluating(q)' /\ run'[q] = 2 => server'[<<q, turns'[q], 1>>] = "anomalous"
    BY DEF Progress, Evaluating
  <2>1. CASE q = r
    <3>1. /\ phase'[q] = p /\ turns'[q] = t /\ rewards'[q] = s /\ final'[q] = f /\ run'[q] = u
          /\ Evaluating(q)' <=> p \in {"submit", "poll"}
      BY <2>1, <1>w DEF Evaluating
    <3>2. p \in {"submit", "poll"} => server'[<<q, turns'[q], 1>>] = "anomalous" \/ u # 2
      BY <2>1, <3>1
    <3> QED BY <3>1, <3>2
  <2>2. CASE q # r
    <3>1. UNCHANGED <<phase[q], turns[q], rewards[q], final[q], run[q]>>
      BY <2>2, <1>w
    <3>2. Evaluating(q)' <=> Evaluating(q)
      BY <3>1 DEF Evaluating
    <3>3. ASSUME Evaluating(q), run[q] = 2 PROVE server'[<<q, turns[q], 1>>] = "anomalous"
      <4>1. server[<<q, turns[q], 1>>] = "anomalous"
        BY <3>3, <1>t DEF Progress
      <4>2. turns[q] = Len(rewards[q]) + 1 /\ turns[q] \in 0..MaxTurns /\ rewards[q] \in Seq(Reward)
        BY <3>3, <1>t DEF Progress, Types
      <4>3. turns[q] \in Turn
        BY <4>2, KernelRolloutAssumption DEF Turn
      <4>4. <<q, turns[q], 1>> \in Task
        BY <4>3 DEF Task, Run
      <4> QED BY <4>1, <4>4 DEF Found, Verdict
    <3> QED BY <3>1, <3>2, <3>3, <1>t DEF Progress
  <2> QED BY <2>1, <2>2
<1>4. Scored'
  <2>1. scores = <<>>
    BY <1>t DEF Scored
  <2> QED BY <2>1 DEF Scored
<1>5. OwnKernelScored'
  <2> SUFFICES ASSUME NEW q \in Row, NEW k \in 1..Len(rewards'[q])
               PROVE  \/ rewards'[q][k] = Penalty
                      \/ \E n \in Run : /\ server'[<<q, k, n>>] \in Verdict
                                        /\ RewardOf[server'[<<q, k, n>>]] = rewards'[q][k]
    BY DEF OwnKernelScored
  <2>1. CASE k \in 1..Len(rewards[q]) /\ rewards'[q][k] = rewards[q][k]
    <3>1. CASE rewards[q][k] = Penalty
      BY <2>1, <3>1
    <3>2. CASE rewards[q][k] # Penalty
      <4>1. PICK n \in Run : server[<<q, k, n>>] \in Verdict
                             /\ RewardOf[server[<<q, k, n>>]] = rewards[q][k]
        BY <2>1, <3>2, <1>t DEF OwnKernelScored
      <4>2. server'[<<q, k, n>>] = server[<<q, k, n>>]
        BY <2>1, <4>1, <1>k DEF Found
      <4> QED BY <2>1, <4>1, <4>2
    <3> QED BY <3>1, <3>2
  <2>2. CASE q = r
    <3>1. rewards'[q] = s
      BY <2>2, <1>w
    <3>2. CASE k \in 1..Len(rewards[r]) /\ s[k] = rewards[r][k]
      BY <2>1, <2>2, <3>1, <3>2
    <3>3. CASE ~(k \in 1..Len(rewards[r]) /\ s[k] = rewards[r][k])
      <4>1. \/ s[k] = Penalty
            \/ \E n \in Run : /\ server'[<<r, k, n>>] \in Verdict
                              /\ RewardOf[server'[<<r, k, n>>]] = s[k]
        BY <3>1, <3>3
      <4> QED BY <2>2, <3>1, <4>1
    <3> QED BY <3>2, <3>3
  <2>3. CASE q # r
    BY <2>1, <2>3, <1>w
  <2> QED BY <2>2, <2>3
<1>6. OutlierMeasuredTwice'
  <2> SUFFICES ASSUME NEW q \in Row, NEW k \in 1..Len(rewards'[q]), rewards'[q][k] = 2
               PROVE  \A n \in Run : server'[<<q, k, n>>] = "anomalous"
    BY Rewards DEF OutlierMeasuredTwice
  <2>1. CASE k \in 1..Len(rewards[q]) /\ rewards'[q][k] = rewards[q][k]
    <3>1. \A n \in Run : server[<<q, k, n>>] = "anomalous"
      BY <2>1, <1>t, Rewards DEF OutlierMeasuredTwice
    <3> QED BY <3>1, <2>1, <1>k DEF Found, Verdict
  <2>2. CASE q = r
    <3>1. rewards'[q] = s /\ s[k] # Penalty
      BY <2>2, <1>w DEF Penalty
    <3>2. CASE k \in 1..Len(rewards[r]) /\ s[k] = rewards[r][k]
      BY <2>1, <2>2, <3>1, <3>2
    <3>3. CASE ~(k \in 1..Len(rewards[r]) /\ s[k] = rewards[r][k])
      <4>1. s[k] = 2 => \A n \in Run : server'[<<r, k, n>>] = "anomalous"
        BY <3>1, <3>3
      <4> QED BY <2>2, <3>1, <4>1
    <3> QED BY <3>2, <3>3
  <2>3. CASE q # r
    BY <2>1, <2>3, <1>w
  <2> QED BY <2>2, <2>3
<1> QED BY <1>1, <1>2, <1>3, <1>4, <1>5, <1>6 DEF RInv

\* A function with the value it has is itself.
LEMMA Same ==
  ASSUME NEW S, NEW T, NEW h \in [S -> T], NEW x \in S
  PROVE  h = [h EXCEPT ![x] = h[x]]
OBVIOUS

\* The types of what a row holds.
LEMMA RowTypes ==
  ASSUME Types, NEW r \in Row
  PROVE  /\ phase[r] \in Phases /\ turns[r] \in 0..MaxTurns /\ turns[r] \in Nat
         /\ mask[r] \in Seq(0..MaxTurns) /\ Len(mask[r]) \in Nat
         /\ rewards[r] \in Seq(Reward) /\ Len(rewards[r]) \in Nat
         /\ final[r] \in BOOLEAN /\ run[r] \in Run /\ attempt[r] \in 0..(MaxSubmits - 1)
         /\ \A k \in 1..Len(rewards[r]) : rewards[r][k] \in Reward
<1>1. /\ phase[r] \in Phases /\ turns[r] \in 0..MaxTurns
      /\ mask[r] \in Seq(0..MaxTurns) /\ rewards[r] \in Seq(Reward)
      /\ final[r] \in BOOLEAN /\ run[r] \in Run /\ attempt[r] \in 0..(MaxSubmits - 1)
  BY DEF Types
<1>2. Len(mask[r]) \in Nat /\ Len(rewards[r]) \in Nat
  BY <1>1, LenProperties
<1>3. turns[r] \in Nat
  BY <1>1, KernelRolloutAssumption
<1> QED BY <1>1, <1>2, <1>3, ElementOfSeq

\* The rest of _handle_evaluating keeps it, when the result is the penalty or
\* what KernelGym has found for this call.
LEMMA EvaluatedKeeps ==
  ASSUME RInv, NEW r \in Row, NEW v \in Verdict, Evaluating(r), Evaluated(r, v),
         ServerType', Found, UNCHANGED scores,
         v = "failed" \/ server'[TaskOf(r)] = v
  PROVE  RInv'
<1> USE KernelRolloutAssumption
<1>t. Types /\ Fits /\ Progress
  BY DEF RInv
<1>r. /\ phase[r] \in Phases /\ turns[r] \in 0..MaxTurns /\ turns[r] \in Nat
      /\ mask[r] \in Seq(0..MaxTurns) /\ Len(mask[r]) \in Nat
      /\ rewards[r] \in Seq(Reward) /\ Len(rewards[r]) \in Nat
      /\ final[r] \in BOOLEAN /\ run[r] \in Run /\ attempt[r] \in 0..(MaxSubmits - 1)
  BY <1>t, RowTypes
<1>e. /\ turns[r] = Len(rewards[r]) + 1 /\ (~ final[r] => turns[r] < MaxTurns)
      /\ Len(mask[r]) <= ResponseLength + Slack /\ phase[r] # "terminated"
      /\ run[r] = 2 => server[<<r, turns[r], 1>>] = "anomalous"
  BY <1>t DEF Progress, Fits, Evaluating
<1>s. /\ turns = [turns EXCEPT ![r] = turns[r]] /\ mask = [mask EXCEPT ![r] = mask[r]]
      /\ rewards = [rewards EXCEPT ![r] = rewards[r]]
      /\ final = [final EXCEPT ![r] = final[r]]
  BY <1>t DEF Types
<1>z. 0 \in 0..(MaxSubmits - 1)
  OBVIOUS
<1>0. /\ attempt' = [attempt EXCEPT ![r] = 0]
      /\ run' = [run EXCEPT ![r] = IF Rerun(r, v) THEN 2 ELSE 1]
  BY DEF Evaluated
<1>1. CASE Rerun(r, v)
  <2>1. /\ phase' = [phase EXCEPT ![r] = "submit"] /\ UNCHANGED <<turns, mask, rewards, final>>
        /\ run' = [run EXCEPT ![r] = 2]
    BY <1>0, <1>1 DEF Evaluated, loop
  <2>2. server'[<<r, turns[r], 1>>] = "anomalous"
    BY <1>1 DEF Rerun, TaskOf
  <2>3. "submit" \in Phases /\ 2 \in Run
    BY DEF Phases, Run
  <2>4. RowStep(r, "submit", turns[r], mask[r], rewards[r], final[r], 2, 0)
    BY <2>1, <1>0, <1>s DEF RowStep
  <2>5. RowTyped("submit", turns[r], mask[r], rewards[r], final[r], 2, 0)
    BY <2>3, <1>r, <1>e, <1>z DEF RowTyped
  <2>6. RowSound(r, "submit", turns[r], rewards[r], final[r], 2)
    BY <2>2, <1>e DEF RowSound
  <2>7. Given(r, rewards[r])
    BY DEF Given
  <2> QED BY <2>4, <2>5, <2>6, <2>7, <1>e, OneRow
<1>2. CASE ~ Rerun(r, v)
  <2> DEFINE s == Append(rewards[r], RewardOf[v])
  <2>1. /\ rewards' = [rewards EXCEPT ![r] = s] /\ UNCHANGED <<turns, final>>
        /\ run' = [run EXCEPT ![r] = 1]
    BY <1>0, <1>2 DEF Evaluated
  <2>2. s \in Seq(Reward) /\ Len(s) = turns[r]
        /\ \A k \in 1..Len(s) : s[k] = IF k = turns[r] THEN RewardOf[v] ELSE rewards[r][k]
    <3>1. RewardOf[v] \in Reward
      BY Rewards
    <3>2. /\ s \in Seq(Reward) /\ Len(s) = Len(rewards[r]) + 1
          /\ \A k \in 1..Len(rewards[r]) : s[k] = rewards[r][k]
          /\ s[Len(rewards[r]) + 1] = RewardOf[v]
      BY <3>1, <1>r, AppendProperties
    <3> HIDE DEF s
    <3> QED BY <3>2, <1>r, <1>e
  <2>3. Given(r, s)
    <3> SUFFICES ASSUME NEW k \in 1..Len(s)
        PROVE  \/ k \in 1..Len(rewards[r]) /\ s[k] = rewards[r][k]
               \/ s[k] = Penalty
               \/ /\ \E n \in Run : /\ server'[<<r, k, n>>] \in Verdict
                                    /\ RewardOf[server'[<<r, k, n>>]] = s[k]
                  /\ s[k] = 2 => \A n \in Run : server'[<<r, k, n>>] = "anomalous"
      BY DEF Given
    <3>1. CASE k # turns[r]
      <4>1. k \in 1..Len(rewards[r])
        BY <2>2, <3>1, <1>r, <1>e
      <4> QED BY <2>2, <3>1, <4>1
    <3>2. CASE k = turns[r] /\ v = "failed"
      BY <2>2, <3>2, Rewards
    <3>3. CASE k = turns[r] /\ v # "failed"
      <4>1. server'[<<r, k, run[r]>>] = v /\ s[k] = RewardOf[v]
        BY <2>2, <3>3 DEF TaskOf
      <4>2. ASSUME s[k] = 2 PROVE \A n \in Run : server'[<<r, k, n>>] = "anomalous"
        <5>1. v = "anomalous"
          BY <4>1, <4>2, Rewards
        <5>2. run[r] = 2
          BY <5>1, <1>2, <1>r DEF Rerun, Run
        <5>3. server[<<r, k, 1>>] = "anomalous"
          BY <5>2, <1>e, <3>3
        <5>4. <<r, k, 1>> \in Task
          BY <2>2, <1>r DEF Task, Turn, Run
        <5>5. server'[<<r, k, 1>>] = "anomalous"
          BY <5>3, <5>4 DEF Found, Verdict
        <5> QED BY <4>1, <5>1, <5>2, <5>5 DEF Run
      <4> QED BY <4>1, <4>2, <1>r
    <3> QED BY <3>1, <3>2, <3>3
  <2>4. 1 \in Run /\ "terminated" \in Phases /\ "generating" \in Phases
    BY DEF Run, Phases
  <2> HIDE DEF s
  <2>5. CASE UNCHANGED mask /\ phase' = [phase EXCEPT ![r] = "terminated"]
    <3>1. RowStep(r, "terminated", turns[r], mask[r], s, final[r], 1, 0)
      BY <2>1, <2>5, <1>0, <1>s DEF RowStep
    <3>2. RowTyped("terminated", turns[r], mask[r], s, final[r], 1, 0)
      BY <2>2, <2>4, <1>r, <1>e, <1>z DEF RowTyped
    <3>3. RowSound(r, "terminated", turns[r], s, final[r], 1)
      BY <2>2 DEF RowSound
    <3> QED BY <2>3, <3>1, <3>2, <3>3, <1>e, OneRow
  <2>6. ASSUME ~ final[r], NEW f \in 1..MaxFeedback, RoomAfter(r, f),
               mask' = [mask EXCEPT ![r] = @ \o [j \in 1..f |-> 0]],
               phase' = [phase EXCEPT ![r] = "generating"]
        PROVE  RInv'
    <3> DEFINE z == [j \in 1..f |-> 0]
               m == mask[r] \o z
    <3>1. f \in Nat /\ z \in Seq(0..MaxTurns) /\ Len(z) = f
      <4>1. f \in Nat /\ 0 \in 0..MaxTurns
        BY <2>6
      <4> QED BY <4>1, IsASeq
    <3>2. m \in Seq(0..MaxTurns) /\ Len(m) = Len(mask[r]) + f
      BY <3>1, <1>r, ConcatProperties
    <3>3. Len(m) <= ResponseLength + Slack
      BY <2>6, <3>2, <3>1, <1>r DEF RoomAfter
    <3>4. mask' = [mask EXCEPT ![r] = m]
      BY <2>6
    <3> HIDE DEF m, z
    <3>5. RowStep(r, "generating", turns[r], m, s, final[r], 1, 0)
      BY <2>1, <2>6, <3>4, <1>0, <1>s DEF RowStep
    <3>6. RowTyped("generating", turns[r], m, s, final[r], 1, 0)
      BY <2>2, <2>4, <3>2, <3>3, <1>r, <1>z DEF RowTyped
    <3>7. RowSound(r, "generating", turns[r], s, final[r], 1)
      BY <2>2, <2>6, <1>e DEF RowSound
    <3> QED BY <2>3, <3>5, <3>6, <3>7, <1>e, OneRow
  <2> QED BY <1>2, <2>5, <2>6 DEF Evaluated
<1> QED BY <1>1, <1>2

-----------------------------------------------------------------------------
(***************************************************************************)
(* Each action keeps the invariant.                                         *)
(***************************************************************************)

\* What a row has when the invariant holds, and the values that stay.
LEMMA RowHas ==
  ASSUME RInv, NEW r \in Row
  PROVE  /\ phase[r] \in Phases /\ turns[r] \in 0..MaxTurns /\ turns[r] \in Nat
         /\ mask[r] \in Seq(0..MaxTurns) /\ Len(mask[r]) \in Nat
         /\ rewards[r] \in Seq(Reward) /\ Len(rewards[r]) \in Nat
         /\ final[r] \in BOOLEAN /\ run[r] \in Run /\ attempt[r] \in 0..(MaxSubmits - 1)
         /\ Len(mask[r]) <= ResponseLength + Slack
         /\ mask = [mask EXCEPT ![r] = mask[r]] /\ turns = [turns EXCEPT ![r] = turns[r]]
         /\ rewards = [rewards EXCEPT ![r] = rewards[r]]
         /\ final = [final EXCEPT ![r] = final[r]] /\ run = [run EXCEPT ![r] = run[r]]
         /\ attempt = [attempt EXCEPT ![r] = attempt[r]]
         /\ phase = [phase EXCEPT ![r] = phase[r]]
<1>1. Types /\ Fits
  BY DEF RInv
<1>2. /\ phase[r] \in Phases /\ turns[r] \in 0..MaxTurns /\ turns[r] \in Nat
      /\ mask[r] \in Seq(0..MaxTurns) /\ Len(mask[r]) \in Nat
      /\ rewards[r] \in Seq(Reward) /\ Len(rewards[r]) \in Nat
      /\ final[r] \in BOOLEAN /\ run[r] \in Run /\ attempt[r] \in 0..(MaxSubmits - 1)
  BY <1>1, RowTypes
<1>3. mask = [mask EXCEPT ![r] = mask[r]] /\ turns = [turns EXCEPT ![r] = turns[r]]
  BY <1>1 DEF Types
<1>4. rewards = [rewards EXCEPT ![r] = rewards[r]] /\ final = [final EXCEPT ![r] = final[r]]
  BY <1>1 DEF Types
<1>5. run = [run EXCEPT ![r] = run[r]] /\ attempt = [attempt EXCEPT ![r] = attempt[r]]
  BY <1>1 DEF Types
<1>6. phase = [phase EXCEPT ![r] = phase[r]]
  BY <1>1 DEF Types
<1>7. Len(mask[r]) <= ResponseLength + Slack
  BY <1>1 DEF Fits
<1> QED BY <1>2, <1>3, <1>4, <1>5, <1>6, <1>7

\* A step that leaves the server alone loses no finding.
LEMMA ServerStays == ASSUME RInv, UNCHANGED server PROVE ServerType' /\ Found
BY DEF RInv, Types, ServerType, Found

\* The task of a row under evaluation is one of the tasks.
LEMMA OfTask == ASSUME RInv, NEW r \in Row, Evaluating(r) PROVE TaskOf(r) \in Task
<1>1. turns[r] = Len(rewards[r]) + 1
  BY DEF RInv, Progress
<1>2. turns[r] \in Turn /\ run[r] \in Run
  BY <1>1, RowHas, KernelRolloutAssumption DEF Turn
<1> QED BY <1>2 DEF TaskOf, Task

\* A task that is put in the queue had no finding.
LEMMA Queues ==
  ASSUME RInv, NEW t \in Task, NEW v \in Verdict \cup {"absent", "queued"},
         server[t] \notin Verdict, server' = [server EXCEPT ![t] = v]
  PROVE  ServerType' /\ Found
<1>1. server \in [Task -> Verdict \cup {"absent", "queued"}]
  BY DEF RInv, Types
<1>2. ServerType'
  BY <1>1 DEF ServerType
<1>3. Found
  BY <1>1 DEF Found
<1> QED BY <1>2, <1>3

\* _handle_pending keeps it.
LEMMA PendingKeeps == ASSUME RInv, NEW r \in Row, Pending(r) PROVE RInv'
<1> USE KernelRolloutAssumption
<1>1. phase[r] = "pending" /\ phase' = [phase EXCEPT ![r] = "generating"]
      /\ UNCHANGED <<turns, mask, rewards, final, run, attempt, server, scores>>
  BY DEF Pending, loop, eval, step
<1>2. turns[r] = 0 /\ turns[r] = Len(rewards[r]) /\ run[r] = 1
  BY <1>1 DEF RInv, Progress, Evaluating
<1>3. RowStep(r, "generating", turns[r], mask[r], rewards[r], final[r], run[r], attempt[r])
  BY <1>1, RowHas DEF RowStep
<1>4. RowTyped("generating", turns[r], mask[r], rewards[r], final[r], run[r], attempt[r])
  BY RowHas DEF RowTyped, Phases
<1>5. RowSound(r, "generating", turns[r], rewards[r], final[r], run[r])
  BY <1>2 DEF RowSound
<1>6. Given(r, rewards[r])
  BY DEF Given
<1>7. ServerType' /\ Found /\ phase[r] # "terminated"
  BY <1>1, ServerStays
<1> QED BY <1>3, <1>4, <1>5, <1>6, <1>7, OneRow

\* _handle_generating keeps it: what the engine returns fits in the context,
\* and only a turn that is not the last is evaluated with another to follow.
LEMMA GenerateKeeps ==
  ASSUME RInv, NEW r \in Row, NEW n \in Lengths, NEW answer \in BOOLEAN,
         NEW kernel \in BOOLEAN, Generate(r, n, answer, kernel)
  PROVE  RInv'
<1> USE KernelRolloutAssumption
<1> DEFINE room == ResponseLength + Slack - Len(mask[r])
           size == IF n <= room THEN n ELSE room
           g == [j \in 1..size |-> turns[r] + 1]
           m == mask[r] \o g
           t == turns[r] + 1
           f == FinalTurn(r, answer)
<1>r. /\ phase[r] \in Phases /\ turns[r] \in 0..MaxTurns /\ turns[r] \in Nat
      /\ mask[r] \in Seq(0..MaxTurns) /\ Len(mask[r]) \in Nat
      /\ rewards[r] \in Seq(Reward) /\ Len(rewards[r]) \in Nat
      /\ run[r] \in Run /\ attempt[r] \in 0..(MaxSubmits - 1)
      /\ Len(mask[r]) <= ResponseLength + Slack
  BY RowHas
<1>1. phase[r] = "generating" /\ turns' = [turns EXCEPT ![r] = t]
      /\ UNCHANGED <<run, attempt, server, scores>>
  BY DEF Generate, eval, step
<1>2. mask' = [mask EXCEPT ![r] = m]
  BY DEF Generate, Generated
<1>3. final' = [final EXCEPT ![r] = f]
  BY DEF Generate
<1>4. turns[r] = Len(rewards[r]) /\ run[r] = 1 /\ turns[r] < MaxTurns
  BY <1>1 DEF RInv, Progress, Evaluating
<1>5. size \in Nat /\ size <= room
  <2>1. n \in Nat
    OBVIOUS
  <2> QED BY <2>1, <1>r
<1>6. m \in Seq(0..MaxTurns) /\ Len(m) = Len(mask[r]) + size
  <2>1. turns[r] + 1 \in 0..MaxTurns
    BY <1>r, <1>4
  <2> HIDE DEF size
  <2>2. g \in Seq(0..MaxTurns) /\ Len(g) = size
    BY <2>1, <1>5, IsASeq
  <2> HIDE DEF g
  <2> QED BY <2>2, <1>r, ConcatProperties
<1>7. Len(m) <= ResponseLength + Slack
  <2> HIDE DEF size, m
  <2> QED BY <1>5, <1>6, <1>r
<1>8. t \in 0..MaxTurns /\ t = Len(rewards[r]) + 1 /\ f \in BOOLEAN
  BY <1>r, <1>4 DEF FinalTurn
<1>9. ~ f => t < MaxTurns
  <2>1. turns'[r] = t
    BY <1>1 DEF RInv, Types
  <2> QED BY <2>1, <1>8 DEF FinalTurn
<1>10. ServerType' /\ Found /\ phase[r] # "terminated"
  BY <1>1, ServerStays
<1>11. "submit" \in Phases /\ "terminated" \in Phases
  BY DEF Phases
<1>12. run = [run EXCEPT ![r] = 1] /\ attempt = [attempt EXCEPT ![r] = attempt[r]]
       /\ rewards = [rewards EXCEPT ![r] = rewards[r]]
  BY <1>4, RowHas
<1> HIDE DEF m, t, f, g, size, room
<1>13. CASE phase' = [phase EXCEPT ![r] = "submit"] /\ UNCHANGED rewards
  <2>1. RowStep(r, "submit", t, m, rewards[r], f, 1, attempt[r])
    BY <1>13, <1>1, <1>2, <1>3, <1>12 DEF RowStep
  <2>2. RowTyped("submit", t, m, rewards[r], f, 1, attempt[r])
    BY <1>6, <1>7, <1>8, <1>11, <1>r DEF RowTyped, Run
  <2>3. RowSound(r, "submit", t, rewards[r], f, 1)
    BY <1>8, <1>9 DEF RowSound
  <2>4. Given(r, rewards[r])
    BY DEF Given
  <2> QED BY <2>1, <2>2, <2>3, <2>4, <1>10, OneRow
<1>14. CASE /\ phase' = [phase EXCEPT ![r] = "terminated"]
            /\ rewards' = [rewards EXCEPT ![r] = Append(rewards[r], Penalty)]
  <2> DEFINE s == Append(rewards[r], Penalty)
  <2>1. /\ s \in Seq(Reward) /\ Len(s) = Len(rewards[r]) + 1
        /\ \A k \in 1..Len(rewards[r]) : s[k] = rewards[r][k]
        /\ s[Len(rewards[r]) + 1] = Penalty
    BY <1>r, Rewards, AppendProperties
  <2>2. rewards' = [rewards EXCEPT ![r] = s]
    BY <1>14
  <2> HIDE DEF s
  <2>3. RowStep(r, "terminated", t, m, s, f, 1, attempt[r])
    BY <1>14, <2>2, <1>1, <1>2, <1>3, <1>12 DEF RowStep
  <2>4. RowTyped("terminated", t, m, s, f, 1, attempt[r])
    BY <2>1, <1>6, <1>7, <1>8, <1>11, <1>r DEF RowTyped, Run
  <2>5. RowSound(r, "terminated", t, s, f, 1)
    BY <2>1, <1>8 DEF RowSound
  <2>6. Given(r, s)
    <3>1. \A k \in 1..Len(s) : k \in 1..Len(rewards[r]) \/ k = Len(rewards[r]) + 1
      BY <2>1, <1>r
    <3> QED BY <3>1, <2>1 DEF Given
  <2> QED BY <2>3, <2>4, <2>5, <2>6, <1>10, OneRow
<1> QED BY <1>13, <1>14 DEF Generate

\* POST /evaluate answered 200: it keeps it.
LEMMA AcceptedKeeps == ASSUME RInv, NEW r \in Row, Accepted(r) PROVE RInv'
<1>1. phase[r] = "submit" /\ phase' = [phase EXCEPT ![r] = "poll"]
      /\ UNCHANGED <<turns, mask, rewards, final, run, attempt, scores>>
  BY DEF Accepted, loop, eval, step
<1>2. Evaluating(r) /\ TaskOf(r) \in Task
  BY <1>1, OfTask DEF Evaluating
<1>3. ServerType' /\ Found
  <2>1. CASE server[TaskOf(r)] = "absent"
    <3>1. server' = [server EXCEPT ![TaskOf(r)] = "queued"] /\ server[TaskOf(r)] \notin Verdict
      BY <2>1 DEF Accepted, Verdict
    <3> QED BY <3>1, <1>2, Queues
  <2>2. CASE server[TaskOf(r)] # "absent"
    <3>1. UNCHANGED server
      BY <2>2, <1>2 DEF Accepted, RInv, Types
    <3> QED BY <3>1, ServerStays
  <2> QED BY <2>1, <2>2
<1>4. /\ turns[r] = Len(rewards[r]) + 1 /\ (~ final[r] => turns[r] < MaxTurns)
      /\ run[r] = 2 => server[<<r, turns[r], 1>>] = "anomalous"
  BY <1>2 DEF RInv, Progress
<1>5. run[r] = 2 => server'[<<r, turns[r], 1>>] = "anomalous"
  <2>1. <<r, turns[r], 1>> \in Task
    BY <1>2 DEF TaskOf, Task, Run
  <2> QED BY <1>4, <1>3, <2>1 DEF Found, Verdict
<1>6. RowStep(r, "poll", turns[r], mask[r], rewards[r], final[r], run[r], attempt[r])
  BY <1>1, RowHas DEF RowStep
<1>7. RowTyped("poll", turns[r], mask[r], rewards[r], final[r], run[r], attempt[r])
  BY RowHas DEF RowTyped, Phases
<1>8. RowSound(r, "poll", turns[r], rewards[r], final[r], run[r])
  BY <1>4, <1>5 DEF RowSound
<1>9. Given(r, rewards[r])
  BY DEF Given
<1>10. phase[r] # "terminated"
  BY <1>1
<1> QED BY <1>3, <1>6, <1>7, <1>8, <1>9, <1>10, OneRow

\* A submission that fails keeps it, whether the server saw it or not.
LEMMA SubmitFailsKeeps ==
  ASSUME RInv, NEW r \in Row, NEW b \in BOOLEAN, SubmitFails(r, b)
  PROVE  RInv'
<1> USE KernelRolloutAssumption
<1>1. phase[r] = "submit" /\ UNCHANGED scores
  BY DEF SubmitFails, step
<1>2. Evaluating(r) /\ TaskOf(r) \in Task
  BY <1>1, OfTask DEF Evaluating
<1>3. ServerType' /\ Found
  <2>1. CASE server[TaskOf(r)] = "absent" /\ server' = [server EXCEPT ![TaskOf(r)] = "queued"]
    <3>1. server[TaskOf(r)] \notin Verdict
      BY <2>1 DEF Verdict
    <3> QED BY <3>1, <2>1, <1>2, Queues
  <2>2. CASE UNCHANGED server
    BY <2>2, ServerStays
  <2> QED BY <2>1, <2>2 DEF SubmitFails
<1>4. CASE /\ Again(r) /\ attempt' = [attempt EXCEPT ![r] = attempt[r] + 1]
           /\ UNCHANGED <<phase, turns, mask, rewards, final, run>>
  <2>1. /\ turns[r] = Len(rewards[r]) + 1 /\ (~ final[r] => turns[r] < MaxTurns)
        /\ run[r] = 2 => server[<<r, turns[r], 1>>] = "anomalous"
    BY <1>2 DEF RInv, Progress
  <2>2. run[r] = 2 => server'[<<r, turns[r], 1>>] = "anomalous"
    <3>1. <<r, turns[r], 1>> \in Task
      BY <1>2 DEF TaskOf, Task, Run
    <3> QED BY <2>1, <1>3, <3>1 DEF Found, Verdict
  <2>3. attempt[r] + 1 \in 0..(MaxSubmits - 1)
    BY <1>4, RowHas DEF Again
  <2>4. RowStep(r, "submit", turns[r], mask[r], rewards[r], final[r], run[r], attempt[r] + 1)
    BY <1>1, <1>4, RowHas DEF RowStep
  <2>5. RowTyped("submit", turns[r], mask[r], rewards[r], final[r], run[r], attempt[r] + 1)
    BY <2>3, RowHas DEF RowTyped, Phases
  <2>6. RowSound(r, "submit", turns[r], rewards[r], final[r], run[r])
    BY <2>1, <2>2 DEF RowSound
  <2>7. Given(r, rewards[r])
    BY DEF Given
  <2>8. phase[r] # "terminated"
    BY <1>1
  <2> QED BY <1>3, <2>4, <2>5, <2>6, <2>7, <2>8, OneRow
<1>5. CASE Evaluated(r, "failed")
  BY <1>1, <1>2, <1>3, <1>5, EvaluatedKeeps DEF Verdict
<1> QED BY <1>4, <1>5 DEF SubmitFails, loop

\* The other ends of a call keep it: refused, polled to its end, timed out.
LEMMA CallEndsKeeps ==
  ASSUME RInv, NEW r \in Row, NEW b \in BOOLEAN,
         Refused(r) \/ PollEnds(r, b) \/ PollTimeout(r)
  PROVE  RInv'
<1>1. Evaluating(r) /\ UNCHANGED <<server, scores>>
  BY DEF Refused, PollEnds, PollTimeout, Evaluating, step
<1>2. ServerType' /\ Found
  BY <1>1, ServerStays
<1>3. CASE Evaluated(r, "failed")
  BY <1>1, <1>2, <1>3, EvaluatedKeeps DEF Verdict
<1>4. CASE server[TaskOf(r)] \in Verdict /\ Evaluated(r, server[TaskOf(r)])
  <2>1. PICK v \in Verdict : v = server[TaskOf(r)]
    BY <1>4
  <2>2. server'[TaskOf(r)] = v
    <3>1. TaskOf(r) \in Task
      BY <1>1, OfTask
    <3> QED BY <2>1, <1>1, <1>4
  <2> QED BY <1>1, <1>2, <1>4, <2>1, <2>2, EvaluatedKeeps
<1> QED BY <1>3, <1>4 DEF Refused, PollEnds, PollTimeout

\* A step of the server alone keeps it: findings are never taken back.
LEMMA ServerKeeps ==
  ASSUME RInv, ServerType', Found, UNCHANGED <<phase, loop, eval, scores>>
  PROVE  RInv'
<1>u. UNCHANGED <<phase, turns, mask, rewards, final, run, attempt, scores>>
  BY DEF loop, eval
<1>t. Types /\ Fits /\ Progress /\ Scored /\ OwnKernelScored /\ OutlierMeasuredTwice
  BY DEF RInv
<1>1. Types'
  BY <1>t, <1>u DEF Types, ServerType
<1>2. Fits' /\ Scored'
  BY <1>t, <1>u DEF Fits, Scored, Kept
<1>3. \A q \in Row : \A k \in 1..Len(rewards[q]), n \in Run : <<q, k, n>> \in Task
  <2> TAKE q \in Row
  <2> TAKE k \in 1..Len(rewards[q]), n \in Run
  <2>1. turns[q] = Len(rewards[q]) + 1 \/ turns[q] = Len(rewards[q])
    BY <1>t DEF Progress
  <2>2. k \in Turn
    BY <2>1, RowHas, KernelRolloutAssumption DEF Turn
  <2> QED BY <2>2 DEF Task
<1>4. Progress'
  <2>1. ASSUME NEW q \in Row, Evaluating(q), run[q] = 2
        PROVE  server'[<<q, turns[q], 1>>] = "anomalous"
    <3>1. server[<<q, turns[q], 1>>] = "anomalous" /\ turns[q] = Len(rewards[q]) + 1
      BY <2>1, <1>t DEF Progress
    <3>2. turns[q] \in Turn /\ 1 \in Run
      BY <3>1, RowHas, KernelRolloutAssumption DEF Turn, Run
    <3>3. <<q, turns[q], 1>> \in Task
      BY <3>2 DEF Task
    <3> QED BY <3>1, <3>3 DEF Found, Verdict
  <2>2. \A q \in Row : Evaluating(q)' <=> Evaluating(q)
    BY <1>u DEF Evaluating
  <2> QED BY <2>1, <2>2, <1>t, <1>u DEF Progress
<1>5. OwnKernelScored'
  <2> SUFFICES ASSUME NEW q \in Row, NEW k \in 1..Len(rewards[q]), rewards[q][k] # Penalty
               PROVE  \E n \in Run : /\ server'[<<q, k, n>>] \in Verdict
                                     /\ RewardOf[server'[<<q, k, n>>]] = rewards[q][k]
    BY <1>u DEF OwnKernelScored
  <2>1. PICK n \in Run : server[<<q, k, n>>] \in Verdict
                         /\ RewardOf[server[<<q, k, n>>]] = rewards[q][k]
    BY <1>t DEF OwnKernelScored
  <2>2. server'[<<q, k, n>>] = server[<<q, k, n>>]
    BY <2>1, <1>3 DEF Found
  <2> QED BY <2>1, <2>2
<1>6. OutlierMeasuredTwice'
  <2> SUFFICES ASSUME NEW q \in Row, NEW k \in 1..Len(rewards[q]),
                      rewards[q][k] = RewardOf["anomalous"], NEW n \in Run
               PROVE  server'[<<q, k, n>>] = "anomalous"
    BY <1>u DEF OutlierMeasuredTwice
  <2>1. server[<<q, k, n>>] = "anomalous"
    BY <1>t DEF OutlierMeasuredTwice
  <2> QED BY <2>1, <1>3 DEF Found, Verdict
<1> QED BY <1>1, <1>2, <1>4, <1>5, <1>6 DEF RInv

\* KernelGym ends a queued task.
LEMMA ServeKeeps == ASSUME RInv, NEW t \in Task, NEW v \in Verdict, Serve(t, v) PROVE RInv'
<1>1. server[t] \notin Verdict /\ server' = [server EXCEPT ![t] = v]
  BY DEF Serve, Verdict
<1>2. ServerType' /\ Found
  BY <1>1, Queues
<1>3. UNCHANGED <<phase, loop, eval, scores>>
  BY DEF Serve, step
<1> QED BY <1>2, <1>3, ServerKeeps

\* The reward step gives each kept token of each row one score.
LEMMA RewardKeeps == ASSUME RInv, ComputeReward PROVE RInv'
<1>1. UNCHANGED <<phase, turns, mask, rewards, final, run, attempt, server>>
  BY DEF ComputeReward, loop, eval
<1>2. Types' /\ Fits' /\ Progress' /\ OwnKernelScored' /\ OutlierMeasuredTwice'
  <2>1. Types' /\ Fits'
    BY <1>1 DEF RInv, Types, Fits
  <2>2. Progress'
    BY <1>1 DEF RInv, Progress, Evaluating
  <2>3. OwnKernelScored' /\ OutlierMeasuredTwice'
    BY <1>1 DEF RInv, OwnKernelScored, OutlierMeasuredTwice
  <2> QED BY <2>1, <2>2, <2>3
<1>3. Scored'
  <2>1. ASSUME NEW r \in Row
        PROVE  phase'[r] = "terminated" /\ Len(scores'[r]) = Len(Kept(r))
    <3>1. phase'[r] = "terminated" /\ scores'[r] = Redistribute(Kept(r), rewards[r])
      BY <1>1 DEF ComputeReward
    <3> DEFINE cut == IF Len(mask[r]) < ResponseLength THEN Len(mask[r]) ELSE ResponseLength
    <3>2. /\ Len(mask[r]) \in Nat /\ cut \in Nat /\ cut <= Len(mask[r])
          /\ mask[r] \in Seq(0..MaxTurns)
      BY RowHas, KernelRolloutAssumption
    <3>3. Kept(r) = SubSeq(mask[r], 1, cut)
      BY DEF Kept
    <3> HIDE DEF cut
    <3>4. Kept(r) \in Seq(0..MaxTurns)
      <4>1. \A i \in 1..Len(mask[r]) : mask[r][i] \in 0..MaxTurns
        BY <3>2, ElementOfSeq
      <4>2. \A i \in 1..cut : mask[r][i] \in 0..MaxTurns
        BY <3>2, <4>1
      <4>3. cut \in Int /\ 1 \in Int
        BY <3>2
      <4> QED BY <3>3, <4>2, <4>3, SubSeqProperties
    <3>5. Len(Kept(r)) \in Nat
      BY <3>4, LenProperties
    <3>6. Len(Redistribute(Kept(r), rewards[r])) = Len(Kept(r))
      <4> DEFINE m == Kept(r)
      <4>1. PICK n \in Nat : n = Len(m)
        BY <3>5
      <4> DEFINE e(j) == IF j \in Ends(m) /\ SpanOf(m)[j] <= Len(rewards[r])
                         THEN rewards[r][SpanOf(m)[j]] ELSE 0
                 w == [j \in 1..n |-> e(j)]
      <4>2. Redistribute(m, rewards[r]) = w
        BY <4>1 DEF Redistribute
      <4> HIDE DEF e
      <4>3. Len(w) = n
        OBVIOUS
      <4> QED BY <4>1, <4>2, <4>3
    <3> QED BY <3>1, <3>6
  <2>2. \A r \in Row : Kept(r)' = Kept(r)
    BY <1>1 DEF Kept
  <2> QED BY <2>1, <2>2 DEF Scored
<1> QED BY <1>2, <1>3 DEF RInv

\* A step that leaves all but the advantages alone.
LEMMA RestStays ==
  ASSUME RInv, UNCHANGED <<phase, loop, eval, server, scores>>
  PROVE  RInv'
BY ServerStays, ServerKeeps

\* Every step keeps the invariant.
LEMMA RNext == RInv /\ [Next]_vars => RInv'
<1> SUFFICES ASSUME RInv, [Next]_vars PROVE RInv'
  OBVIOUS
<1>1. CASE \E r \in Row : Pending(r)
  BY <1>1, PendingKeeps
<1>2. CASE \E r \in Row : Generating(r)
  BY <1>2, GenerateKeeps DEF Generating
<1>3. CASE \E r \in Row : Accepted(r)
  BY <1>3, AcceptedKeeps
<1>4. CASE \E r \in Row, b \in BOOLEAN : SubmitFails(r, b)
  BY <1>4, SubmitFailsKeeps
<1>5. CASE \E r \in Row : Refused(r)
  BY <1>5, CallEndsKeeps
<1>6. CASE \E r \in Row, b \in BOOLEAN : PollEnds(r, b)
  BY <1>6, CallEndsKeeps
<1>7. CASE \E r \in Row : PollTimeout(r)
  BY <1>7, CallEndsKeeps
<1>8. CASE \E t \in Task, v \in Verdict : Serve(t, v)
  BY <1>8, ServeKeeps
<1>9. CASE ComputeReward
  BY <1>9, RewardKeeps
<1>10. CASE ComputeAdvantage
  BY <1>10, RestStays DEF ComputeAdvantage
<1>11. CASE UNCHANGED vars
  BY <1>11, RestStays DEF vars, loop, eval
<1> QED BY <1>1, <1>2, <1>3, <1>4, <1>5, <1>6, <1>7, <1>8, <1>9, <1>10, <1>11 DEF Next

\* The invariant gives the types and the two statements about the rewards.
LEMMA RInvMeasured == RInv => RewardsMeasured
<1> SUFFICES ASSUME RInv PROVE RewardsMeasured
  OBVIOUS
<1>1. ASSUME NEW r \in Row
      PROVE  /\ mask[r] \in Seq(0..MaxTurns) /\ rewards[r] \in Seq(Reward)
             /\ Len(mask[r]) <= ResponseLength + Slack
             /\ Len(rewards[r]) <= turns[r]
  <2>1. turns[r] = Len(rewards[r]) + 1 \/ turns[r] = Len(rewards[r])
    BY DEF RInv, Progress
  <2> QED BY <2>1, RowHas
<1>2. TypeOK
  BY <1>1 DEF RInv, Types, Scored, TypeOK, Phases
<1> QED BY <1>2 DEF RInv, RewardsMeasured

\* Whatever KernelGym answers, and however often a call is retried, refused,
\* timed out or rerun: every reward above the penalty is a result of the kernel
\* of that turn of that row, and the clamped reward was measured twice.
THEOREM MeasuredRewards == Spec => []RewardsMeasured
<1>1. Spec => []RInv
  BY InitRollout, RNext, PTL DEF Spec
<1> QED BY <1>1, RInvMeasured, PTL
-----------------------------------------------------------------------------
(***************************************************************************)
(* Induction over data, by sets, and the sums of the model.                 *)
(***************************************************************************)

\* Induction over the natural numbers, for a set in place of a predicate.
LEMMA SetInduction ==
  ASSUME NEW S, 0 \in S, \A n \in Nat : n \in S => n + 1 \in S
  PROVE  Nat \subseteq S
<1> SUFFICES ASSUME NEW n \in Nat, n \notin S PROVE FALSE
  OBVIOUS
<1> DEFINE T == {k \in 0 .. n : k \notin S}
           f == [k \in T |-> k - 1]
<1>1. IsFiniteSet(T)
  <2>1. IsFiniteSet(0 .. n)
    BY 0 \in Int, n \in Int, FS_Interval
  <2> QED BY <2>1, FS_Subset
<1>2. n \in T
  OBVIOUS
<1>3. \A k \in T : k - 1 \in T \ {n}
  <2> TAKE k \in T
  <2>1. k # 0
    OBVIOUS
  <2>2. k - 1 \in Nat /\ (k - 1) + 1 = k
    BY <2>1
  <2> QED BY <2>2
<1>4. f \in Injection(T, T \ {n})
  <2>1. f \in [T -> T \ {n}]
    BY <1>3
  <2> QED BY <2>1 DEF Injection, IsInjective
<1>5. Cardinality(T \ {n}) = Cardinality(T) - 1 /\ IsFiniteSet(T \ {n}) /\ Cardinality(T) \in Nat
  BY <1>1, <1>2, FS_RemoveElement, FS_CardinalityType
<1> HIDE DEF T, f
<1>6. Cardinality(T) <= Cardinality(T \ {n})
  BY <1>1, <1>4, <1>5, FS_Injection
<1> QED BY <1>5, <1>6

\* Induction over the subsets of a finite set, likewise.
LEMMA SubsetInduction ==
  ASSUME NEW U, IsFiniteSet(U), NEW Q, {} \in Q,
         \A s \in SUBSET U : s # {} /\ (\A x \in s : s \ {x} \in Q) => s \in Q
  PROVE  SUBSET U \subseteq Q
<1> DEFINE N == {n \in Nat : \A s \in SUBSET U : Cardinality(s) = n => s \in Q}
<1>0. \A s \in SUBSET U : IsFiniteSet(s) /\ Cardinality(s) \in Nat
  BY FS_Subset, FS_CardinalityType
<1>1. 0 \in N
  BY <1>0, FS_EmptySet
<1>2. ASSUME NEW n \in Nat, n \in N PROVE n + 1 \in N
  <2> SUFFICES ASSUME NEW s \in SUBSET U, Cardinality(s) = n + 1 PROVE s \in Q
    OBVIOUS
  <2>1. s # {}
    <3>1. n + 1 # 0
      OBVIOUS
    <3> HIDE DEF N
    <3> QED BY <3>1, FS_EmptySet
  <2>2. ASSUME NEW x \in s PROVE s \ {x} \in Q
    <3>1. Cardinality(s \ {x}) = n
      BY <1>0, FS_RemoveElement
    <3> QED BY <3>1, <1>2
  <2> QED BY <2>1, <2>2
<1> HIDE DEF N
<1>3. Nat \subseteq N
  BY <1>1, <1>2, SetInduction
<1> QED BY <1>0, <1>3 DEF N

\* SumFunctionOnSet takes some element of the set at a time.
Some(s) == CHOOSE x \in s : TRUE
SumStep(f, S, g) == [s \in SUBSET S |-> IF s = {} THEN 0 ELSE f[Some(s)] + g[s \ {Some(s)}]]
SumOf(f, S) == CHOOSE g : g = SumStep(f, S, g)

\* What the community module defines, with its parameters filled in.
LEMMA SumIs ==
  ASSUME NEW f, NEW S
  PROVE SumFunctionOnSet(f, S) = SumOf(f, S)[S]
BY DEF SumFunctionOnSet, FoldFunctionOnSet, MapThenFoldSet, SumOf, SumStep, Some

\* The function that a sum is defined by exists.
LEMMA SumExists ==
  ASSUME NEW f, NEW S, IsFiniteSet(S)
  PROVE  SumOf(f, S) = SumStep(f, S, SumOf(f, S))
<1> DEFINE Small(n) == {s \in SUBSET S : Cardinality(s) <= n}
           Def(g, s) == IF s = {} THEN 0 ELSE f[Some(s)] + g[s \ {Some(s)}]
           N == {n \in Nat : \E g : \A s \in Small(n) : g[s] = Def(g, s)}
<1>0. /\ \A s \in SUBSET S : IsFiniteSet(s) /\ Cardinality(s) \in Nat /\ Cardinality(s) <= Cardinality(S)
      /\ Cardinality(S) \in Nat
  BY FS_Subset, FS_CardinalityType
<1>1. 0 \in N
  <2>1. \A s \in Small(0) : s = {}
    BY <1>0, FS_EmptySet
  <2>2. \A s \in Small(0) : [t \in SUBSET S |-> 0][s] = Def([t \in SUBSET S |-> 0], s)
    BY <2>1
  <2> QED BY <2>2
<1>2. ASSUME NEW n \in Nat, n \in N PROVE n + 1 \in N
  <2>1. PICK g : \A s \in Small(n) : g[s] = Def(g, s)
    BY <1>2
  <2> DEFINE h == [s \in SUBSET S |-> IF s \in Small(n) THEN g[s] ELSE f[Some(s)] + g[s \ {Some(s)}]]
  <2>2. ASSUME NEW s \in Small(n + 1) PROVE h[s] = Def(h, s)
    <3>1. CASE s = {}
      <4>1. s \in Small(n)
        BY <3>1, FS_EmptySet
      <4> QED BY <2>1, <3>1, <4>1
    <3>2. CASE s # {}
      <4>1. Some(s) \in s
        BY <3>2 DEF Some
      <4>2. s \ {Some(s)} \in Small(n)
        <5>1. Cardinality(s \ {Some(s)}) = Cardinality(s) - 1
          BY <4>1, <1>0, FS_RemoveElement
        <5> QED BY <5>1, <1>0
      <4>3. h[s \ {Some(s)}] = g[s \ {Some(s)}]
        BY <4>2
      <4>4. h[s] = f[Some(s)] + g[s \ {Some(s)}]
        BY <2>1, <3>2
      <4> QED BY <3>2, <4>3, <4>4
    <3> QED BY <3>1, <3>2
  <2> HIDE DEF h, Small, Def
  <2> QED BY <2>2
<1>3. Cardinality(S) \in N
  <2> HIDE DEF N
  <2> QED BY <1>0, <1>1, <1>2, SetInduction
<1>4. PICK g : \A s \in Small(Cardinality(S)) : g[s] = Def(g, s)
  BY <1>3
<1>5. \A s \in SUBSET S : g[s] = Def(g, s)
  BY <1>0, <1>4
<1> DEFINE h == [s \in SUBSET S |-> g[s]]
<1>6. h = SumStep(f, S, h)
  <2>1. ASSUME NEW s \in SUBSET S PROVE h[s] = Def(h, s)
    <3>1. s \ {Some(s)} \in SUBSET S
      OBVIOUS
    <3> QED BY <3>1, <1>5
  <2> QED BY <2>1 DEF SumStep
<1> HIDE DEF h
<1> QED BY <1>6 DEF SumOf

\* Sums, one element at a time.
LEMMA SumEmpty == ASSUME NEW f PROVE SumFunctionOnSet(f, {}) = 0
<1>1. SumOf(f, {}) = SumStep(f, {}, SumOf(f, {}))
  BY SumExists, FS_EmptySet
<1>2. SumOf(f, {})[{}] = 0
  BY <1>1 DEF SumStep
<1> QED BY <1>2, SumIs

\* Whichever set the recursion begins with.
LEMMA SumAgrees ==
  ASSUME NEW f, NEW S, IsFiniteSet(S), NEW T \in SUBSET S
  PROVE  SumOf(f, S)[T] = SumOf(f, T)[T]
<1> DEFINE Q == {s \in SUBSET T : SumOf(f, S)[s] = SumOf(f, T)[s]}
<1>0. IsFiniteSet(T)
  BY FS_Subset
<1>1. /\ SumOf(f, S) = SumStep(f, S, SumOf(f, S))
      /\ SumOf(f, T) = SumStep(f, T, SumOf(f, T))
  BY <1>0, SumExists
<1>2. \A s \in SUBSET T :
        /\ SumOf(f, S)[s] = IF s = {} THEN 0 ELSE f[Some(s)] + SumOf(f, S)[s \ {Some(s)}]
        /\ SumOf(f, T)[s] = IF s = {} THEN 0 ELSE f[Some(s)] + SumOf(f, T)[s \ {Some(s)}]
  <2> SUFFICES ASSUME NEW s \in SUBSET T
               PROVE /\ SumOf(f, S)[s] = IF s = {} THEN 0 ELSE f[Some(s)] + SumOf(f, S)[s \ {Some(s)}]
                     /\ SumOf(f, T)[s] = IF s = {} THEN 0 ELSE f[Some(s)] + SumOf(f, T)[s \ {Some(s)}]
    OBVIOUS
  <2>1. SumStep(f, S, SumOf(f, S))[s] = IF s = {} THEN 0 ELSE f[Some(s)] + SumOf(f, S)[s \ {Some(s)}]
    BY DEF SumStep
  <2>2. SumStep(f, T, SumOf(f, T))[s] = IF s = {} THEN 0 ELSE f[Some(s)] + SumOf(f, T)[s \ {Some(s)}]
    BY DEF SumStep
  <2> QED BY <2>1, <2>2, <1>1
<1>3. {} \in Q
  BY <1>2
<1>4. ASSUME NEW s \in SUBSET T, s # {}, \A x \in s : s \ {x} \in Q PROVE s \in Q
  <2>1. s \ {Some(s)} \in Q
    BY <1>4 DEF Some
  <2> QED BY <2>1, <1>2, <1>4
<1> HIDE DEF Q
<1>5. SUBSET T \subseteq Q
  BY <1>0, <1>3, <1>4, SubsetInduction
<1> QED BY <1>5 DEF Q

\* A sum is one of its terms and the rest.
LEMMA SumNext ==
  ASSUME NEW f, NEW S, IsFiniteSet(S), S # {}
  PROVE  /\ Some(S) \in S
         /\ SumFunctionOnSet(f, S) = f[Some(S)] + SumFunctionOnSet(f, S \ {Some(S)})
<1>1. SumOf(f, S) = SumStep(f, S, SumOf(f, S))
  BY SumExists
<1>2. SumStep(f, S, SumOf(f, S))[S] = f[Some(S)] + SumOf(f, S)[S \ {Some(S)}]
  BY DEF SumStep
<1>3. SumOf(f, S)[S \ {Some(S)}] = SumOf(f, S \ {Some(S)})[S \ {Some(S)}]
  BY SumAgrees
<1>4. Some(S) \in S
  BY DEF Some
<1> QED BY <1>1, <1>2, <1>3, <1>4, SumIs

\* A sum of integers is an integer.
LEMMA SumInt ==
  ASSUME NEW f, NEW S, IsFiniteSet(S), \A x \in S : f[x] \in Int
  PROVE  SumFunctionOnSet(f, S) \in Int
<1> DEFINE Q == {s \in SUBSET S : SumFunctionOnSet(f, s) \in Int}
<1>1. {} \in Q
  BY SumEmpty
<1>2. ASSUME NEW s \in SUBSET S, s # {}, \A x \in s : s \ {x} \in Q PROVE s \in Q
  <2>1. /\ Some(s) \in s
        /\ SumFunctionOnSet(f, s) = f[Some(s)] + SumFunctionOnSet(f, s \ {Some(s)})
    BY <1>2, SumNext, FS_Subset
  <2>2. f[Some(s)] \in Int /\ SumFunctionOnSet(f, s \ {Some(s)}) \in Int
    BY <2>1, <1>2
  <2> QED BY <2>1, <2>2
<1> HIDE DEF Q
<1>3. SUBSET S \subseteq Q
  BY <1>1, <1>2, SubsetInduction
<1> QED BY <1>3 DEF Q

\* Any term may come first.
LEMMA SumAny ==
  ASSUME NEW f, NEW S, IsFiniteSet(S), \A x \in S : f[x] \in Int, NEW x \in S
  PROVE  SumFunctionOnSet(f, S) = f[x] + SumFunctionOnSet(f, S \ {x})
<1> DEFINE Sum(s) == SumFunctionOnSet(f, s)
           Q == {s \in SUBSET S : \A y \in s : Sum(s) = f[y] + Sum(s \ {y})}
<1>0. \A s \in SUBSET S : IsFiniteSet(s) /\ Sum(s) \in Int
  BY FS_Subset, SumInt
<1>n. \A s \in SUBSET S : s # {} => Some(s) \in s /\ Sum(s) = f[Some(s)] + Sum(s \ {Some(s)})
  BY <1>0, SumNext
<1> HIDE DEF Sum
<1>1. {} \in Q
  OBVIOUS
<1>2. ASSUME NEW s \in SUBSET S, s # {}, \A y \in s : s \ {y} \in Q PROVE s \in Q
  <2> SUFFICES ASSUME NEW y \in s PROVE Sum(s) = f[y] + Sum(s \ {y})
    OBVIOUS
  <2> DEFINE c == Some(s)
  <2>1. c \in s /\ Sum(s) = f[c] + Sum(s \ {c})
    BY <1>2, <1>n
  <2> HIDE DEF c
  <2>2. CASE y = c
    BY <2>1, <2>2
  <2>3. CASE y # c
    <3>1. Sum(s \ {c}) = f[y] + Sum((s \ {c}) \ {y})
      BY <2>1, <2>3, <1>2
    <3>2. Sum(s \ {y}) = f[c] + Sum((s \ {y}) \ {c})
      BY <2>1, <2>3, <1>2
    <3>3. (s \ {c}) \ {y} = (s \ {y}) \ {c}
      OBVIOUS
    <3>4. /\ f[y] \in Int /\ f[c] \in Int /\ Sum((s \ {y}) \ {c}) \in Int
      BY <2>1, <1>0
    <3>5. f[c] + (f[y] + Sum((s \ {y}) \ {c})) = f[y] + (f[c] + Sum((s \ {y}) \ {c}))
      BY <3>4
    <3>6. Sum(s) = f[c] + (f[y] + Sum((s \ {y}) \ {c}))
      BY <2>1, <3>1, <3>3
    <3> QED BY <3>2, <3>5, <3>6
  <2> QED BY <2>2, <2>3
<1>3. SUBSET S \subseteq Q
  <2> HIDE DEF Q
  <2> QED BY <1>1, <1>2, SubsetInduction
<1>4. Sum(S) = f[x] + Sum(S \ {x})
  BY <1>3
<1> QED BY <1>4 DEF Sum

\* Equal terms have equal sums.
LEMMA SumSame ==
  ASSUME NEW f, NEW g, NEW S, IsFiniteSet(S), \A x \in S : f[x] = g[x]
  PROVE  SumFunctionOnSet(f, S) = SumFunctionOnSet(g, S)
<1> DEFINE Q == {s \in SUBSET S : SumFunctionOnSet(f, s) = SumFunctionOnSet(g, s)}
<1>1. {} \in Q
  BY SumEmpty
<1>2. ASSUME NEW s \in SUBSET S, s # {}, \A x \in s : s \ {x} \in Q PROVE s \in Q
  <2>1. /\ Some(s) \in s
        /\ SumFunctionOnSet(f, s) = f[Some(s)] + SumFunctionOnSet(f, s \ {Some(s)})
        /\ SumFunctionOnSet(g, s) = g[Some(s)] + SumFunctionOnSet(g, s \ {Some(s)})
    BY <1>2, SumNext, FS_Subset
  <2>2. f[Some(s)] = g[Some(s)] /\ s \ {Some(s)} \in Q
    BY <2>1, <1>2
  <2> QED BY <2>1, <2>2
<1> HIDE DEF Q
<1>3. SUBSET S \subseteq Q
  BY <1>1, <1>2, SubsetInduction
<1> QED BY <1>3 DEF Q

\* A sum of zeros.
LEMMA SumZero ==
  ASSUME NEW f, NEW S, IsFiniteSet(S), \A x \in S : f[x] = 0
  PROVE  SumFunctionOnSet(f, S) = 0
<1> DEFINE Q == {s \in SUBSET S : SumFunctionOnSet(f, s) = 0}
<1>1. {} \in Q
  BY SumEmpty
<1>2. ASSUME NEW s \in SUBSET S, s # {}, \A x \in s : s \ {x} \in Q PROVE s \in Q
  <2>1. /\ Some(s) \in s
        /\ SumFunctionOnSet(f, s) = f[Some(s)] + SumFunctionOnSet(f, s \ {Some(s)})
    BY <1>2, SumNext, FS_Subset
  <2>2. f[Some(s)] = 0 /\ s \ {Some(s)} \in Q
    BY <2>1, <1>2
  <2> QED BY <2>1, <2>2
<1> HIDE DEF Q
<1>3. SUBSET S \subseteq Q
  BY <1>1, <1>2, SubsetInduction
<1> QED BY <1>3 DEF Q

\* A sum with one term that is not zero.
LEMMA SumOne ==
  ASSUME NEW f, NEW S, IsFiniteSet(S), NEW x \in S, f[x] \in Int,
         \A y \in S \ {x} : f[y] = 0
  PROVE  SumFunctionOnSet(f, S) = f[x]
<1>1. SumFunctionOnSet(f, S) = f[x] + SumFunctionOnSet(f, S \ {x})
  BY SumAny
<1>2. SumFunctionOnSet(f, S \ {x}) = 0
  BY FS_Subset, SumZero
<1> QED BY <1>1, <1>2

\* Terms that are scaled and shifted alike.
LEMMA SumShift ==
  ASSUME NEW f, NEW g, NEW S, IsFiniteSet(S), NEW c \in Int, NEW d \in Int,
         \A x \in S : f[x] \in Int /\ g[x] = c * f[x] - d
  PROVE  SumFunctionOnSet(g, S) = c * SumFunctionOnSet(f, S) - Cardinality(S) * d
<1> DEFINE F(s) == SumFunctionOnSet(f, s)
           G(s) == SumFunctionOnSet(g, s)
           Q == {s \in SUBSET S : G(s) = c * F(s) - Cardinality(s) * d}
<1>0. \A s \in SUBSET S : IsFiniteSet(s) /\ Cardinality(s) \in Nat /\ F(s) \in Int
  BY FS_Subset, FS_CardinalityType, SumInt
<1>n. \A s \in SUBSET S : s # {} => /\ Some(s) \in s
                                    /\ F(s) = f[Some(s)] + F(s \ {Some(s)})
                                    /\ G(s) = g[Some(s)] + G(s \ {Some(s)})
  BY <1>0, SumNext
<1>1. {} \in Q
  <2>1. F({}) = 0 /\ G({}) = 0 /\ Cardinality({}) = 0
    BY SumEmpty, FS_EmptySet
  <2> QED BY <2>1
<1> HIDE DEF F, G
<1>2. ASSUME NEW s \in SUBSET S, s # {}, \A x \in s : s \ {x} \in Q PROVE s \in Q
  <2> DEFINE x == Some(s)
             t == s \ {x}
  <2>1. x \in s /\ F(s) = f[x] + F(t) /\ G(s) = g[x] + G(t)
    BY <1>2, <1>n
  <2>2. Cardinality(t) = Cardinality(s) - 1
    BY <2>1, <1>0, FS_RemoveElement
  <2>3. G(t) = c * F(t) - Cardinality(t) * d
    BY <2>1, <1>2
  <2>4. f[x] \in Int /\ g[x] = c * f[x] - d /\ F(t) \in Int /\ Cardinality(s) \in Int
    BY <2>1, <1>0
  <2> HIDE DEF x, t
  <2>5. G(s) = (c * f[x] + c * F(t)) - (d + (Cardinality(s) - 1) * d)
    BY <2>1, <2>2, <2>3, <2>4
  <2>6. c * f[x] + c * F(t) = c * F(s)
    BY <2>1, <2>4
  <2>7. d + (Cardinality(s) - 1) * d = Cardinality(s) * d
    BY <2>4
  <2> QED BY <2>5, <2>6, <2>7
<1>3. SUBSET S \subseteq Q
  <2> HIDE DEF Q
  <2> QED BY <1>1, <1>2, SubsetInduction
<1>4. G(S) = c * F(S) - Cardinality(S) * d
  BY <1>3
<1> QED BY <1>4 DEF F, G

-----------------------------------------------------------------------------
(***************************************************************************)
(* The masks: one run for each turn, in order, within the response length.  *)
(***************************************************************************)

\* A mask in which each of n turns has one run of its own, the runs are in
\* order and apart, and every run begins within the response length.
Shape(m, n) ==
  /\ \A j \in 1..Len(m) : m[j] \in 0..n
  /\ \A i, j \in 1..Len(m) : i < j /\ m[i] # 0 /\ m[j] # 0 => m[i] <= m[j]
  /\ \A i, l, j \in 1..Len(m) : i < l /\ l < j /\ m[i] # 0 /\ m[i] = m[j] => m[l] = m[i]
  /\ \A j \in 1..Len(m) : j < Len(m) /\ m[j] # 0 /\ m[j + 1] # 0 => m[j] = m[j + 1]
  /\ \A k \in 1..n : \E j \in 1..Len(m) : j <= ResponseLength /\ j \in Starts(m) /\ m[j] = k

\* A turn is generated into an empty mask or behind feedback, with room left.
Opens(m) == Len(m) < ResponseLength /\ (Len(m) = 0 \/ m[Len(m)] = 0)

MaskFits(m, n, p) ==
  /\ Shape(m, n)
  /\ p = "pending" => m = <<>>
  /\ p = "generating" => Opens(m)
Masks == \A r \in Row : MaskFits(mask[r], turns[r], phase[r])

\* What the trainer computed is of the rows as they are.
ScoresAre == scores # <<>> =>
  /\ \A r \in Row : phase[r] = "terminated"
  /\ scores = [r \in Row |-> Redistribute(Kept(r), rewards[r])]
CreditsAre == credit # <<>> => scores # <<>> /\ credit = [r \in Row |-> Credits(r)]

KInv == RInv /\ Masks /\ ScoresAre /\ CreditsAre

\* Appending feedback to a mask, or the next turn where one may begin.
LEMMA ShapeGrows ==
  ASSUME NEW m, NEW w, NEW n \in Nat, NEW p \in Nat, NEW c, NEW s \in Nat \ {0},
         Len(m) \in Nat, Len(w) = Len(m) + s,
         \A j \in 1..Len(w) : w[j] = IF j <= Len(m) THEN m[j] ELSE c,
         Shape(m, n), (c = 0 /\ p = n) \/ (c = n + 1 /\ p = n + 1 /\ Opens(m))
  PROVE  Shape(w, p)
<1> USE KernelRolloutAssumption
<1> DEFINE M == Len(m)
           W == Len(w)
<1>0. M \in Nat /\ W \in Nat /\ W = M + s /\ M < W
  OBVIOUS
<1>m. /\ \A j \in 1..M : m[j] \in 0..n
      /\ \A i, j \in 1..M : i < j /\ m[i] # 0 /\ m[j] # 0 => m[i] <= m[j]
      /\ \A i, l, j \in 1..M : i < l /\ l < j /\ m[i] # 0 /\ m[i] = m[j] => m[l] = m[i]
      /\ \A j \in 1..M : j < M /\ m[j] # 0 /\ m[j + 1] # 0 => m[j] = m[j + 1]
      /\ \A k \in 1..n : \E j \in 1..M : j <= ResponseLength /\ j \in Starts(m) /\ m[j] = k
  BY DEF Shape
<1>w. \A j \in 1..W : w[j] = IF j <= M THEN m[j] ELSE c
  OBVIOUS
<1>o. c = n + 1 => M < ResponseLength /\ (M = 0 \/ m[M] = 0)
  BY DEF Opens
<1> HIDE DEF M, W
<1>c. c \in 0..p /\ n <= p /\ p \in Nat
  OBVIOUS
<1>1. \A j \in 1..W : w[j] \in 0..p
  BY <1>0, <1>m, <1>w, <1>c
<1>2. ASSUME NEW i \in 1..W, NEW j \in 1..W, i < j, w[i] # 0, w[j] # 0 PROVE w[i] <= w[j]
  <2>1. CASE j <= M
    BY <2>1, <1>2, <1>0, <1>m, <1>w
  <2>2. CASE M < j
    <3>1. w[j] = c /\ c = n + 1 /\ p = n + 1
      BY <2>2, <1>2, <1>0, <1>w
    <3> QED BY <3>1, <1>1
  <2> QED BY <2>1, <2>2, <1>0
<1>3. ASSUME NEW i \in 1..W, NEW l \in 1..W, NEW j \in 1..W, i < l, l < j,
             w[i] # 0, w[i] = w[j]
      PROVE  w[l] = w[i]
  <2>1. CASE j <= M
    <3>1. i \in 1..M /\ l \in 1..M /\ j \in 1..M
      BY <2>1, <1>3, <1>0
    <3> QED BY <3>1, <1>3, <1>m, <1>w, <1>0
  <2>2. CASE M < j
    <3>1. w[j] = c /\ c = n + 1
      BY <2>2, <1>3, <1>0, <1>w
    <3>2. M < i
      <4> SUFFICES ASSUME i <= M PROVE FALSE
        BY <1>0
      <4>1. w[i] = m[i] /\ m[i] \in 0..n
        BY <1>0, <1>m, <1>w
      <4> QED BY <4>1, <3>1, <1>3
    <3> QED BY <3>1, <3>2, <1>3, <1>w, <1>0
  <2> QED BY <2>1, <2>2, <1>0
<1>4. ASSUME NEW j \in 1..W, j < W, w[j] # 0, w[j + 1] # 0 PROVE w[j] = w[j + 1]
  <2>0. j + 1 \in 1..W /\ (j < M \/ j = M \/ M < j)
    BY <1>0, <1>4
  <2>1. CASE j < M
    <3>1. j \in 1..M /\ j + 1 <= M
      BY <2>1, <1>0
    <3> QED BY <2>0, <2>1, <3>1, <1>m, <1>w, <1>4
  <2>2. CASE j = M
    <3>1. w[j] = m[M] /\ w[j + 1] = c
      BY <2>0, <2>2, <1>0, <1>w
    <3>2. c = n + 1 /\ M # 0
      BY <3>1, <1>4, <2>2, <1>0
    <3> QED BY <3>1, <3>2, <1>o, <1>4
  <2>3. CASE M < j
    BY <2>0, <2>3, <1>w, <1>0
  <2> QED BY <2>0, <2>1, <2>2, <2>3
<1>5. ASSUME NEW k \in 1..p PROVE \E j \in 1..W : j <= ResponseLength /\ j \in Starts(w) /\ w[j] = k
  <2>1. CASE k \in 1..n
    <3>1. PICK j \in 1..M : j <= ResponseLength /\ j \in Starts(m) /\ m[j] = k
      BY <2>1, <1>m
    <3>2. m[j] # 0 /\ (j = 1 \/ m[j - 1] = 0)
      BY <3>1 DEF Starts
    <3>3. j \in 1..W /\ w[j] = m[j] /\ (j # 1 => w[j - 1] = m[j - 1])
      BY <1>0, <1>w
    <3>4. j \in Starts(w)
      BY <3>2, <3>3 DEF Starts, W
    <3> QED BY <3>1, <3>3, <3>4
  <2>2. CASE k \notin 1..n
    <3>1. c = n + 1 /\ k = n + 1
      BY <2>2
    <3>2. M + 1 \in 1..W /\ M + 1 <= ResponseLength /\ w[M + 1] = c
      BY <3>1, <1>0, <1>o, <1>w
    <3>3. M = 0 \/ w[M] = 0
      BY <3>1, <1>0, <1>o, <1>w
    <3>4. M + 1 = 1 \/ w[(M + 1) - 1] = 0
      BY <3>3, <1>0
    <3>5. M + 1 \in Starts(w)
      BY <3>1, <3>2, <3>4 DEF Starts, W
    <3> QED BY <3>1, <3>2, <3>5
  <2> QED BY <2>1, <2>2
<1> QED BY <1>1, <1>2, <1>3, <1>4, <1>5 DEF Shape, W

\* A step that leaves the masks, and ends a row's generation or none.
LEMMA MaskStays ==
  ASSUME Types, Masks, NEW r \in Row, UNCHANGED <<mask, turns>>, NEW p,
         phase' = [phase EXCEPT ![r] = p], p \notin {"pending", "generating"}
  PROVE  Masks'
<1> SUFFICES ASSUME NEW q \in Row PROVE MaskFits(mask[q], turns[q], phase'[q])
  BY DEF Masks
<1>1. phase'[q] = IF q = r THEN p ELSE phase[q]
  BY DEF Types
<1>2. MaskFits(mask[q], turns[q], phase[q])
  BY DEF Masks
<1> QED BY <1>1, <1>2 DEF MaskFits

\* A step that appends s times c to the mask of r.
LEMMA MaskGrows ==
  ASSUME Types, Masks, NEW r \in Row, NEW c \in 0..MaxTurns, NEW s \in Nat \ {0},
         NEW n \in Nat, NEW p,
         mask' = [mask EXCEPT ![r] = mask[r] \o [j \in 1..s |-> c]],
         turns' = [turns EXCEPT ![r] = n],
         phase' = [phase EXCEPT ![r] = p], p # "pending",
         \/ c = 0 /\ n = turns[r]
         \/ c = n /\ n = turns[r] + 1 /\ Opens(mask[r]),
         p = "generating" => c = 0 /\ Len(mask[r]) + s < ResponseLength
  PROVE  Masks'
<1> DEFINE z == [j \in 1..s |-> c]
           m == mask[r]
           w == m \o z
<1>t. /\ mask[r] \in Seq(0..MaxTurns) /\ Len(mask[r]) \in Nat /\ turns[r] \in Nat
  BY RowTypes
<1>1. z \in Seq(0..MaxTurns) /\ Len(z) = s
  BY IsASeq
<1>2. \A j \in 1..s : z[j] = c
  OBVIOUS
<1>3. mask' = [mask EXCEPT ![r] = w]
  OBVIOUS
<1>m. MaskFits(m, turns[r], phase[r])
  BY DEF Masks
<1> HIDE DEF z
<1>4. /\ Len(w) = Len(m) + s
      /\ \A j \in 1..Len(w) : w[j] = IF j <= Len(m) THEN m[j] ELSE z[j - Len(m)]
  BY <1>1, <1>t, ConcatProperties
<1> HIDE DEF w
<1>5. \A j \in 1..Len(w) : w[j] = IF j <= Len(m) THEN m[j] ELSE c
  <2> TAKE j \in 1..Len(w)
  <2>1. CASE j <= Len(m)
    BY <2>1, <1>4
  <2>2. CASE Len(m) < j
    <3>1. j - Len(m) \in 1..s
      BY <2>2, <1>4, <1>t
    <3> QED BY <3>1, <2>2, <1>4, <1>2, <1>t
  <2> QED BY <2>1, <2>2, <1>4, <1>t
<1>6. Shape(m, turns[r])
  BY <1>m DEF MaskFits
<1>s. Len(m) \in Nat /\ turns[r] \in Nat
  BY <1>t
<1>c. (c = 0 /\ n = turns[r]) \/ (c = turns[r] + 1 /\ n = turns[r] + 1 /\ Opens(m))
  OBVIOUS
<1> HIDE DEF m
<1>7. Shape(w, n)
  BY <1>4, <1>5, <1>6, <1>s, <1>c, ShapeGrows
<1>8. p = "generating" => Opens(w)
  <2> SUFFICES ASSUME p = "generating" PROVE Opens(w)
    OBVIOUS
  <2>1. Len(w) \in 1..Len(w) /\ ~ (Len(w) <= Len(m)) /\ Len(w) < ResponseLength
    BY <1>4, <1>s DEF m
  <2>2. w[Len(w)] = 0
    BY <2>1, <1>5
  <2> QED BY <2>1, <2>2 DEF Opens
<1>9. MaskFits(w, n, p)
  BY <1>7, <1>8 DEF MaskFits
<1> SUFFICES ASSUME NEW q \in Row PROVE MaskFits(mask'[q], turns'[q], phase'[q])
  BY DEF Masks
<1>10. CASE q = r
  <2>1. mask'[q] = w /\ turns'[q] = n /\ phase'[q] = p
    BY <1>3, <1>10 DEF Types
  <2> QED BY <2>1, <1>9
<1>11. CASE q # r
  <2>1. mask'[q] = mask[q] /\ turns'[q] = turns[q] /\ phase'[q] = phase[q]
    BY <1>3, <1>11 DEF Types
  <2> QED BY <2>1 DEF Masks
<1> QED BY <1>10, <1>11

\* The rest of _handle_evaluating: the mask stays, or feedback follows it.
LEMMA EvaluatedMasks ==
  ASSUME RInv, Masks, NEW r \in Row, NEW v, Evaluated(r, v)
  PROVE  Masks'
<1> USE KernelRolloutAssumption
<1>t. Types
  BY DEF RInv
<1>r. turns[r] \in Nat /\ Len(mask[r]) \in Nat /\ turns = [turns EXCEPT ![r] = turns[r]]
  BY RowHas
<1>1. CASE phase' = [phase EXCEPT ![r] = "submit"] /\ UNCHANGED loop
  BY <1>1, <1>t, MaskStays DEF loop
<1>2. CASE phase' = [phase EXCEPT ![r] = "terminated"] /\ UNCHANGED <<mask, turns>>
  BY <1>2, <1>t, MaskStays
<1>3. ASSUME NEW f \in 1..MaxFeedback, RoomAfter(r, f), UNCHANGED turns,
             mask' = [mask EXCEPT ![r] = @ \o [j \in 1..f |-> 0]],
             phase' = [phase EXCEPT ![r] = "generating"]
      PROVE  Masks'
  <2>1. f \in Nat \ {0}
    OBVIOUS
  <2>0. PICK c \in 0..MaxTurns : c = 0
    OBVIOUS
  <2>5. "generating" # "pending"
    OBVIOUS
  <2>2. Len(mask[r]) + f < ResponseLength
    BY <1>3 DEF RoomAfter
  <2>3. mask' = [mask EXCEPT ![r] = mask[r] \o [j \in 1..f |-> c]]
    BY <1>3, <2>0
  <2>4. PICK n \in Nat : n = turns[r] /\ turns' = [turns EXCEPT ![r] = n]
    BY <1>3, <1>r
  <2>6. PICK p : p = "generating" /\ p # "pending" /\ phase' = [phase EXCEPT ![r] = p]
    BY <2>5, <1>3
  <2>7. (c = 0 /\ n = turns[r]) /\ (p = "generating" => c = 0 /\ Len(mask[r]) + f < ResponseLength)
    BY <2>0, <2>4, <2>2
  <2> QED BY <2>1, <2>3, <2>4, <2>6, <2>7, <1>t, MaskGrows
<1> QED BY <1>1, <1>2, <1>3 DEF Evaluated

\* _handle_generating: a turn is appended, at least one token of it within
\* the response length.
LEMMA GenerateMasks ==
  ASSUME RInv, Masks, NEW r \in Row, NEW n \in Lengths, NEW answer \in BOOLEAN,
         NEW kernel \in BOOLEAN, Generate(r, n, answer, kernel)
  PROVE  Masks'
<1> USE KernelRolloutAssumption
<1> DEFINE room == ResponseLength + Slack - Len(mask[r])
           size == IF n <= room THEN n ELSE room
           t == turns[r] + 1
<1>t. Types
  BY DEF RInv
<1>r. turns[r] \in Nat /\ Len(mask[r]) \in Nat
  BY RowHas
<1>1. phase[r] = "generating" /\ turns' = [turns EXCEPT ![r] = t]
  BY DEF Generate
<1>2. mask' = [mask EXCEPT ![r] = mask[r] \o [j \in 1..size |-> t]]
  BY DEF Generate, Generated
<1>3. turns[r] < MaxTurns
  BY <1>1 DEF RInv, Progress, Evaluating
<1>4. Opens(mask[r])
  BY <1>1 DEF Masks, MaskFits
<1>5. size \in Nat \ {0}
  <2>1. n \in Nat \ {0}
    OBVIOUS
  <2>2. Len(mask[r]) < ResponseLength
    BY <1>4 DEF Opens
  <2> QED BY <2>1, <2>2, <1>r
<1>6. t \in 0..MaxTurns /\ t \in Nat
  BY <1>3, <1>r
<1>7. \E p \in {"submit", "terminated"} : phase' = [phase EXCEPT ![r] = p]
  BY DEF Generate
<1> HIDE DEF size
<1>8. PICK p \in {"submit", "terminated"} : phase' = [phase EXCEPT ![r] = p]
  BY <1>7
<1>9. p # "pending" /\ p # "generating"
  OBVIOUS
<1> QED BY <1>1, <1>2, <1>4, <1>5, <1>6, <1>8, <1>9, <1>t, MaskGrows

\* Every step of a row's loop keeps the masks in shape.
LEMMA RowStepMasks ==
  ASSUME RInv, Masks, NEW r \in Row, Working(r)
  PROVE  Masks' /\ phase[r] # "terminated" /\ UNCHANGED <<scores, credit>>
<1>t. Types
  BY DEF RInv
<1>1. CASE Pending(r)
  <2>1. phase[r] = "pending" /\ phase' = [phase EXCEPT ![r] = "generating"]
        /\ UNCHANGED <<mask, turns, scores, credit>>
    BY <1>1 DEF Pending, loop, step
  <2>2. ASSUME NEW q \in Row PROVE MaskFits(mask[q], turns[q], phase'[q])
    <3>1. phase'[q] = IF q = r THEN "generating" ELSE phase[q]
      BY <2>1, <1>t DEF Types
    <3>2. MaskFits(mask[q], turns[q], phase[q])
      BY DEF Masks
    <3>3. q = r => Opens(mask[q])
      <4>1. q = r => mask[q] = <<>>
        BY <2>1, <3>2 DEF MaskFits
      <4> QED BY <4>1, KernelRolloutAssumption DEF Opens
    <3> QED BY <3>1, <3>2, <3>3 DEF MaskFits
  <2>3. Masks'
    BY <2>1, <2>2 DEF Masks
  <2> QED BY <2>1, <2>3
<1>2. CASE Generating(r)
  <2>1. Masks'
    BY <1>2, GenerateMasks DEF Generating
  <2> QED BY <1>2, <2>1 DEF Generating, Generate, step
<1>3. CASE Accepted(r)
  <2>1. phase[r] = "submit" /\ phase' = [phase EXCEPT ![r] = "poll"]
        /\ UNCHANGED <<mask, turns, scores, credit>>
    BY <1>3 DEF Accepted, loop, step
  <2> QED BY <2>1, <1>t, MaskStays
<1>4. CASE \E b \in BOOLEAN : SubmitFails(r, b)
  <2>1. phase[r] = "submit" /\ UNCHANGED <<scores, credit>>
    BY <1>4 DEF SubmitFails, step
  <2>2. CASE UNCHANGED <<phase, loop>>
    BY <2>1, <2>2 DEF loop, Masks
  <2>3. CASE Evaluated(r, "failed")
    BY <2>1, <2>3, EvaluatedMasks
  <2> QED BY <1>4, <2>2, <2>3 DEF SubmitFails
<1>5. CASE Refused(r) \/ Polling(r)
  <2>1. phase[r] # "terminated" /\ UNCHANGED <<scores, credit>>
    BY <1>5 DEF Refused, Polling, PollEnds, PollTimeout, step
  <2>2. PICK v : Evaluated(r, v)
    BY <1>5 DEF Refused, Polling, PollEnds, PollTimeout
  <2> QED BY <2>1, <2>2, EvaluatedMasks
<1> QED BY <1>1, <1>2, <1>3, <1>4, <1>5 DEF Working, Submitting

\* The initial state: empty masks, nothing computed.
LEMMA InitMasks == Init => Masks /\ ScoresAre /\ CreditsAre
<1> SUFFICES ASSUME Init PROVE Masks /\ ScoresAre /\ CreditsAre
  OBVIOUS
<1>1. ScoresAre /\ CreditsAre
  BY DEF Init, ScoresAre, CreditsAre
<1>2. Shape(<<>>, 0)
  BY DEF Shape
<1>3. \A r \in Row : mask[r] = <<>> /\ turns[r] = 0 /\ phase[r] = "pending"
  BY DEF Init
<1>4. Masks
  BY <1>2, <1>3 DEF Masks, MaskFits
<1> QED BY <1>1, <1>4

\* Credits are of the masks and the scores alone.
LEMMA CreditsStay ==
  ASSUME UNCHANGED <<mask, scores>>, NEW r \in Row
  PROVE  Credits(r)' = Credits(r)
BY DEF Credits, Advantage, Others, Members, Kept

\* A step that leaves rows, scores and credits as they are.
LEMMA RowsStay ==
  ASSUME Masks, ScoresAre, CreditsAre, UNCHANGED <<phase, loop, scores, credit>>
  PROVE  Masks' /\ ScoresAre' /\ CreditsAre'
<1>1. UNCHANGED <<phase, mask, turns, rewards, scores, credit>>
  BY DEF loop
<1>2. Masks'
  BY <1>1 DEF Masks
<1>3. ScoresAre'
  BY <1>1 DEF ScoresAre, Kept
<1>4. CreditsAre'
  <2>1. \A r \in Row : Credits(r)' = Credits(r)
    BY <1>1, CreditsStay
  <2> QED BY <1>1, <2>1 DEF CreditsAre
<1> QED BY <1>2, <1>3, <1>4

\* Every step keeps the masks, the scores and the credits.
LEMMA KNext == KInv /\ [Next]_vars => KInv'
<1> SUFFICES ASSUME KInv, [Next]_vars PROVE KInv'
  OBVIOUS
<1>k. RInv /\ Masks /\ ScoresAre /\ CreditsAre
  BY DEF KInv
<1>r. RInv'
  BY <1>k, RNext
<1> SUFFICES Masks' /\ ScoresAre' /\ CreditsAre'
  BY <1>r DEF KInv
<1>1. ASSUME NEW r \in Row, Working(r) PROVE Masks' /\ ScoresAre' /\ CreditsAre'
  <2>1. Masks' /\ phase[r] # "terminated" /\ UNCHANGED <<scores, credit>>
    BY <1>1, <1>k, RowStepMasks
  <2>2. scores = <<>> /\ credit = <<>>
    BY <2>1, <1>k DEF ScoresAre, CreditsAre
  <2> QED BY <2>1, <2>2 DEF ScoresAre, CreditsAre
<1>2. CASE \E t \in Task, v \in Verdict : Serve(t, v)
  BY <1>2, <1>k, RowsStay DEF Serve, step
<1>3. CASE ComputeReward
  <2>1. /\ UNCHANGED <<phase, mask, turns, rewards, credit>>
        /\ scores = <<>> /\ scores' = [r \in Row |-> Redistribute(Kept(r), rewards[r])]
        /\ \A r \in Row : phase[r] = "terminated"
    BY <1>3 DEF ComputeReward, loop
  <2>2. Masks'
    BY <2>1, <1>k DEF Masks
  <2>3. ScoresAre'
    BY <2>1 DEF ScoresAre, Kept
  <2>4. credit' = <<>>
    BY <2>1, <1>k DEF CreditsAre
  <2> QED BY <2>2, <2>3, <2>4 DEF CreditsAre
<1>4. CASE ComputeAdvantage
  <2>1. /\ UNCHANGED <<phase, mask, turns, rewards, scores>>
        /\ scores # <<>> /\ credit' = [r \in Row |-> Credits(r)]
    BY <1>4 DEF ComputeAdvantage, loop
  <2>2. Masks'
    BY <2>1, <1>k DEF Masks
  <2>3. ScoresAre'
    BY <2>1, <1>k DEF ScoresAre, Kept
  <2>4. \A r \in Row : Credits(r)' = Credits(r)
    BY <2>1, CreditsStay
  <2>5. CreditsAre'
    BY <2>1, <2>4 DEF CreditsAre
  <2> QED BY <2>2, <2>3, <2>5
<1>5. CASE UNCHANGED vars
  BY <1>5, <1>k, RowsStay DEF vars, loop
<1> QED BY <1>1, <1>2, <1>3, <1>4, <1>5 DEF Next, Working, Submitting, Polling

-----------------------------------------------------------------------------
(***************************************************************************)
(* The runs of a mask that is in shape are its turns.                       *)
(***************************************************************************)

\* A set of positions has a last one.
LEMMA Greatest ==
  ASSUME NEW N \in Nat, NEW S \in SUBSET (1..N), S # {}
  PROVE  \E x \in S : \A y \in S : y <= x
<1> DEFINE T == {n \in Nat : \A P \in SUBSET (1..n) : P # {} => \E x \in P : \A y \in P : y <= x}
<1>1. 0 \in T
  <2>1. \A P \in SUBSET (1..0) : P = {}
    OBVIOUS
  <2> QED BY <2>1
<1>2. ASSUME NEW n \in Nat, n \in T PROVE n + 1 \in T
  <2> SUFFICES ASSUME NEW P \in SUBSET (1..(n + 1)), P # {}
               PROVE  \E x \in P : \A y \in P : y <= x
    OBVIOUS
  <2>1. CASE n + 1 \in P
    BY <2>1
  <2>2. CASE n + 1 \notin P
    <3>1. P \in SUBSET (1..n)
      BY <2>2
    <3> QED BY <3>1, <1>2
  <2> QED BY <2>1, <2>2
<1> HIDE DEF T
<1>3. N \in T
  BY <1>1, <1>2, SetInduction
<1> QED BY <1>3 DEF T

\* The first tokens of the turns, in the order of the turns.
LEMMA StartsOrdered ==
  ASSUME NEW m, NEW n \in Nat, Len(m) \in Nat, Shape(m, n),
         NEW i \in Starts(m), NEW j \in 1..Len(m), m[j] # 0
  PROVE  i <= j <=> m[i] <= m[j]
<1>1. /\ i \in 1..Len(m) /\ m[i] # 0 /\ (i = 1 \/ m[i - 1] = 0)
  BY DEF Starts
<1>2. m[i] \in 0..n /\ m[j] \in 0..n
  BY <1>1 DEF Shape
<1>3. ASSUME i <= j PROVE m[i] <= m[j]
  <2>1. CASE i = j
    BY <2>1, <1>2
  <2>2. CASE i < j
    BY <2>2, <1>1 DEF Shape
  <2> QED BY <2>1, <2>2, <1>3, <1>1
<1>4. ASSUME m[i] <= m[j], j < i PROVE FALSE
  <2>1. m[j] <= m[i]
    BY <1>4, <1>1 DEF Shape
  <2>2. m[j] = m[i]
    BY <2>1, <1>4, <1>2
  <2>3. i - 1 \in 1..Len(m) /\ m[i - 1] = 0 /\ (j = i - 1 \/ (j < i - 1 /\ i - 1 < i))
    BY <1>1, <1>4
  <2>4. \A l \in 1..Len(m) : j < l /\ l < i => m[l] = m[j]
    BY <2>2, <1>1 DEF Shape
  <2> QED BY <2>3, <2>4
<1> QED BY <1>1, <1>3, <1>4

\* Each turn has one run: the number of runs is that of the turns, and a
\* token of the k-th turn is in the k-th run.
LEMMA SpansAreTurns ==
  ASSUME NEW m, NEW n \in Nat, Len(m) \in Nat, Shape(m, n)
  PROVE  /\ Cardinality(Starts(m)) = n
         /\ \A j \in 1..Len(m) : SpanOf(m)[j] = m[j]
<1> DEFINE Numbered(S) == [i \in S |-> m[i]]
<1>s. /\ \A i \in Starts(m) : i \in 1..Len(m) /\ m[i] # 0 /\ m[i] \in 1..n
      /\ \A k \in 1..n : \E i \in Starts(m) : m[i] = k
  <2>1. \A i \in Starts(m) : i \in 1..Len(m) /\ m[i] # 0
    BY DEF Starts
  <2>2. \A j \in 1..Len(m) : m[j] \in 0..n
    BY DEF Shape
  <2>3. \A k \in 1..n : \E i \in Starts(m) : m[i] = k
    BY DEF Shape
  <2> QED BY <2>1, <2>2, <2>3
<1>f. IsFiniteSet(Starts(m))
  <2>1. IsFiniteSet(1..Len(m)) /\ Starts(m) \subseteq 1..Len(m)
    BY <1>s, FS_Interval
  <2> QED BY <2>1, FS_Subset
<1>i. \A i, j \in Starts(m) : m[i] = m[j] => i = j
  <2> SUFFICES ASSUME NEW i \in Starts(m), NEW j \in Starts(m), m[i] = m[j] PROVE i = j
    OBVIOUS
  <2>1. i \in 1..Len(m) /\ j \in 1..Len(m) /\ m[i] # 0 /\ m[j] # 0 /\ m[i] \in 1..n /\ m[j] \in 1..n
    BY <1>s
  <2>2. (i <= j <=> m[i] <= m[j]) /\ (j <= i <=> m[j] <= m[i])
    BY <2>1, StartsOrdered
  <2> QED BY <2>1, <2>2
<1>b. ASSUME NEW S \in SUBSET Starts(m), NEW c \in Nat, \A i \in Starts(m) : i \in S <=> m[i] \in 1..c,
             c <= n
      PROVE  Cardinality(S) = c
  <2>1. Numbered(S) \in Bijection(S, 1..c)
    <3>1. Numbered(S) \in [S -> 1..c]
      BY <1>b
    <3>2. \A x, y \in S : Numbered(S)[x] = Numbered(S)[y] => x = y
      BY <1>i
    <3>3. \A k \in 1..c : \E x \in S : Numbered(S)[x] = k
      <4> TAKE k \in 1..c
      <4>1. PICK x \in Starts(m) : m[x] = k
        BY <1>s, <1>b
      <4>2. x \in S
        BY <4>1, <1>b
      <4> QED BY <4>1, <4>2
    <3> HIDE DEF Numbered
    <3> QED BY <3>1, <3>2, <3>3 DEF Bijection, Injection, Surjection, IsInjective
  <2>2. ExistsBijection(S, 1..c)
    BY <2>1 DEF ExistsBijection
  <2>3. IsFiniteSet(S)
    BY <1>f, FS_Subset
  <2>4. Cardinality(1..c) = Cardinality(S)
    BY <2>2, <2>3, FS_Bijection
  <2>5. Cardinality(1..c) = c
    BY FS_Interval
  <2> QED BY <2>4, <2>5
<1> HIDE DEF Numbered
<1>1. Cardinality(Starts(m)) = n
  BY <1>b, <1>s
<1>2. ASSUME NEW j \in 1..Len(m) PROVE SpanOf(m)[j] = m[j]
  <2>1. CASE m[j] = 0
    BY <2>1 DEF SpanOf
  <2>2. CASE m[j] # 0
    <3> DEFINE S == {i \in Starts(m) : i <= j}
    <3>1. m[j] \in Nat /\ m[j] <= n
      BY DEF Shape
    <3>2. \A i \in Starts(m) : i \in S <=> m[i] \in 1..m[j]
      <4> TAKE i \in Starts(m)
      <4>1. i <= j <=> m[i] <= m[j]
        BY <2>2, StartsOrdered
      <4>2. m[i] \in 1..n
        BY <1>s
      <4> QED BY <4>1, <4>2, <3>1
    <3>3. SpanOf(m)[j] = Cardinality(S)
      BY <2>2 DEF SpanOf
    <3>4. S \in SUBSET Starts(m)
      OBVIOUS
    <3> HIDE DEF S
    <3> QED BY <3>1, <3>2, <3>3, <3>4, <1>b
  <2> QED BY <2>1, <2>2
<1> QED BY <1>1, <1>2

\* The run of each turn has one last token.
LEMMA EndsOfTurns ==
  ASSUME NEW m, NEW n \in Nat, Len(m) \in Nat, Shape(m, n), NEW k \in 1..n
  PROVE  \E e \in Ends(m) : m[e] = k /\ \A j \in Ends(m) : m[j] = k => j = e
<1> DEFINE P == {j \in 1..Len(m) : m[j] = k}
<1>1. P # {}
  BY DEF Shape
<1>2. PICK e \in P : \A j \in P : j <= e
  BY <1>1, Greatest
<1>3. e \in 1..Len(m) /\ m[e] = k /\ k # 0
  BY <1>2
<1>4. e \in Ends(m)
  <2> SUFFICES ASSUME e # Len(m), m[e + 1] # 0 PROVE FALSE
    BY <1>3 DEF Ends
  <2>1. e < Len(m) /\ e + 1 \in 1..Len(m)
    BY <1>3
  <2>2. m[e + 1] = k
    BY <2>1, <1>3 DEF Shape
  <2> QED BY <2>1, <2>2, <1>2
<1>5. ASSUME NEW j \in Ends(m), m[j] = k PROVE j = e
  <2>1. j \in 1..Len(m) /\ (j = Len(m) \/ m[j + 1] = 0)
    BY DEF Ends
  <2>2. j <= e
    BY <2>1, <1>2, <1>5
  <2> SUFFICES ASSUME j < e PROVE FALSE
    BY <2>1, <2>2, <1>3
  <2>3. j + 1 \in 1..Len(m) /\ m[j + 1] = 0 /\ (j + 1 = e \/ (j < j + 1 /\ j + 1 < e))
    BY <2>1, <1>3
  <2>4. \A l \in 1..Len(m) : j < l /\ l < e => m[l] = m[j]
    BY <2>1, <1>3, <1>5 DEF Shape
  <2> QED BY <2>3, <2>4, <1>3, <1>5
<1> QED BY <1>3, <1>4, <1>5

\* The cut to the response length keeps the shape: every run begins before it.
LEMMA KeptShape ==
  ASSUME RInv, Masks, NEW r \in Row
  PROVE  /\ Len(Kept(r)) \in Nat /\ Len(Kept(r)) <= Len(mask[r]) /\ turns[r] \in Nat
         /\ \A j \in 1..Len(Kept(r)) : Kept(r)[j] = mask[r][j]
         /\ Shape(Kept(r), turns[r])
<1> USE KernelRolloutAssumption
<1> DEFINE m == mask[r]
           K == IF Len(m) < ResponseLength THEN Len(m) ELSE ResponseLength
           c == Kept(r)
<1>r. turns[r] \in Nat /\ Len(m) \in Nat /\ m \in Seq(0..MaxTurns)
  BY RowHas
<1>k. K \in Nat /\ K <= Len(m) /\ K <= ResponseLength /\ (K = Len(m) \/ K = ResponseLength)
  BY <1>r
<1>1. c = SubSeq(m, 1, K)
  BY DEF Kept
<1>s. Shape(m, turns[r])
  BY DEF Masks, MaskFits
<1>e. \A j \in 1..Len(m) : m[j] \in 0..MaxTurns
  BY <1>r, ElementOfSeq
<1> HIDE DEF K, c, m
<1>2. Len(c) = K /\ \A j \in 1..K : c[j] = m[j]
  <2>1. \A j \in 1..K : m[j] \in 0..MaxTurns
    BY <1>e, <1>k, <1>r
  <2>2. /\ Len(c) = IF 1 <= K THEN K - 1 + 1 ELSE 0
        /\ \A j \in 1..K - 1 + 1 : c[j] = m[1 + j - 1]
    BY <2>1, <1>1, <1>k, SubSeqProperties
  <2>3. \A j \in 1..K : j \in 1..K - 1 + 1 /\ 1 + j - 1 = j
    BY <1>k
  <2>4. Len(c) = K
    BY <2>2, <1>k
  <2> QED BY <2>2, <2>3, <2>4
<1>m. /\ \A j \in 1..Len(m) : m[j] \in 0..turns[r]
      /\ \A i, j \in 1..Len(m) : i < j /\ m[i] # 0 /\ m[j] # 0 => m[i] <= m[j]
      /\ \A i, l, j \in 1..Len(m) : i < l /\ l < j /\ m[i] # 0 /\ m[i] = m[j] => m[l] = m[i]
      /\ \A j \in 1..Len(m) : j < Len(m) /\ m[j] # 0 /\ m[j + 1] # 0 => m[j] = m[j + 1]
      /\ \A k \in 1..turns[r] : \E j \in 1..Len(m) : j <= ResponseLength /\ j \in Starts(m) /\ m[j] = k
  BY <1>s DEF Shape
<1>3. \A j \in 1..K : j \in 1..Len(m)
  BY <1>k, <1>r
<1>4. ASSUME NEW j \in 1..K, j < K, c[j] # 0, c[j + 1] # 0 PROVE c[j] = c[j + 1]
  <2>1. j \in 1..Len(m) /\ j < Len(m) /\ j + 1 \in 1..K
    BY <1>4, <1>k, <1>r
  <2> QED BY <2>1, <1>2, <1>4, <1>m
<1>5. ASSUME NEW k \in 1..turns[r]
      PROVE  \E j \in 1..K : j <= ResponseLength /\ j \in Starts(c) /\ c[j] = k
  <2>1. PICK j \in 1..Len(m) : j <= ResponseLength /\ j \in Starts(m) /\ m[j] = k
    BY <1>m
  <2>2. j \in 1..K /\ (j # 1 => j - 1 \in 1..K)
    BY <2>1, <1>k, <1>r
  <2>3. m[j] # 0 /\ (j = 1 \/ m[j - 1] = 0)
    BY <2>1 DEF Starts
  <2>4. j \in Starts(c)
    BY <2>2, <2>3, <1>2 DEF Starts
  <2> QED BY <2>1, <2>2, <2>4, <1>2
<1>6. \A j \in 1..K : c[j] \in 0..turns[r]
  BY <1>2, <1>3, <1>m
<1>7. \A i, j \in 1..K : i < j /\ c[i] # 0 /\ c[j] # 0 => c[i] <= c[j]
  BY <1>2, <1>3, <1>m
<1>8. ASSUME NEW i \in 1..K, NEW l \in 1..K, NEW j \in 1..K, i < l, l < j, c[i] # 0, c[i] = c[j]
      PROVE  c[l] = c[i]
  <2>1. c[i] = m[i] /\ c[l] = m[l] /\ c[j] = m[j]
    BY <1>2
  <2>2. i \in 1..Len(m) /\ l \in 1..Len(m) /\ j \in 1..Len(m)
    BY <1>3
  <2> QED BY <2>1, <2>2, <1>8, <1>m
<1>9. Shape(c, turns[r])
  BY <1>2, <1>4, <1>5, <1>6, <1>7, <1>8 DEF Shape
<1> QED BY <1>2, <1>9, <1>r, <1>k DEF c, m

-----------------------------------------------------------------------------
(***************************************************************************)
(* From the rewards to the credits.                                         *)
(***************************************************************************)

\* What a row brings to the update.
LEMMA RowOfUpdate ==
  ASSUME KInv, scores # <<>>, NEW r \in Row
  PROVE  /\ Len(Kept(r)) \in Nat /\ turns[r] \in Nat /\ Len(rewards[r]) = turns[r]
         /\ \A k \in 1..turns[r] : rewards[r][k] \in Int
         /\ \A j \in 1..Len(Kept(r)) : Kept(r)[j] = mask[r][j] /\ Kept(r)[j] \in 0..turns[r]
         /\ Shape(Kept(r), turns[r])
         /\ Spans(Kept(r)) = 1..turns[r]
         /\ \A j \in 1..Len(Kept(r)) : SpanOf(Kept(r))[j] = Kept(r)[j]
         /\ scores[r] = Redistribute(Kept(r), rewards[r])
<1>k. RInv /\ Masks /\ ScoresAre
  BY DEF KInv
<1>1. /\ Len(Kept(r)) \in Nat /\ turns[r] \in Nat /\ Shape(Kept(r), turns[r])
      /\ \A j \in 1..Len(Kept(r)) : Kept(r)[j] = mask[r][j]
  BY <1>k, KeptShape
<1>2. \A j \in 1..Len(Kept(r)) : Kept(r)[j] \in 0..turns[r]
  BY <1>1 DEF Shape
<1>3. /\ Cardinality(Starts(Kept(r))) = turns[r]
      /\ \A j \in 1..Len(Kept(r)) : SpanOf(Kept(r))[j] = Kept(r)[j]
  BY <1>1, SpansAreTurns
<1>4. Spans(Kept(r)) = 1..turns[r]
  BY <1>3 DEF Spans
<1>5. phase[r] = "terminated" /\ scores[r] = Redistribute(Kept(r), rewards[r])
  BY <1>k DEF ScoresAre
<1>6. Len(rewards[r]) = turns[r]
  BY <1>5, <1>k DEF RInv, Progress, Evaluating
<1>7. \A k \in 1..turns[r] : rewards[r][k] \in Int
  <2>1. \A k \in 1..turns[r] : rewards[r][k] \in Reward
    BY <1>k, <1>6, RowTypes DEF RInv
  <2>2. \A v \in Verdict : RewardOf[v] \in Int
    BY DEF Verdict, RewardOf, Penalty
  <2> QED BY <2>1, <2>2 DEF Reward
<1> QED BY <1>1, <1>2, <1>3, <1>4, <1>5, <1>6, <1>7

\* A reward is on the last token of the turn it was given to, and nothing else
\* is on its other tokens.
LEMMA TurnSums ==
  ASSUME KInv, scores # <<>>, NEW r \in Row, NEW k \in 1..turns[r]
  PROVE  TurnReward(Kept(r), scores[r], k) = rewards[r][k]
<1> DEFINE m == Kept(r)
           s == scores[r]
           P == {j \in 1..Len(m) : SpanOf(m)[j] = k}
<1>r. /\ Len(m) \in Nat /\ turns[r] \in Nat /\ Len(rewards[r]) = turns[r]
      /\ rewards[r][k] \in Int /\ Shape(m, turns[r])
      /\ \A j \in 1..Len(m) : SpanOf(m)[j] = m[j]
      /\ s = Redistribute(m, rewards[r])
  BY RowOfUpdate
<1>0. TurnReward(m, s, k) = SumFunctionOnSet(s, P)
  BY DEF TurnReward
<1> HIDE DEF m, s
<1>1. PICK e \in Ends(m) : m[e] = k /\ \A j \in Ends(m) : m[j] = k => j = e
  BY <1>r, EndsOfTurns
<1>2. e \in P /\ e \in 1..Len(m)
  <2>1. e \in 1..Len(m)
    BY DEF Ends
  <2> QED BY <2>1, <1>1, <1>r
<1>3. \A j \in 1..Len(m) :
        s[j] = IF j \in Ends(m) /\ m[j] <= Len(rewards[r]) THEN rewards[r][m[j]] ELSE 0
  BY <1>r DEF Redistribute
<1>4. s[e] = rewards[r][k]
  BY <1>1, <1>2, <1>3, <1>r
<1>5. \A j \in P \ {e} : s[j] = 0
  <2> TAKE j \in P \ {e}
  <2>1. j \in 1..Len(m) /\ m[j] = k /\ j \notin Ends(m)
    BY <1>r, <1>1
  <2> QED BY <2>1, <1>3
<1>6. IsFiniteSet(P)
  <2>1. IsFiniteSet(1..Len(m))
    BY <1>r, FS_Interval
  <2> QED BY <2>1, FS_Subset
<1> HIDE DEF P
<1>7. SumFunctionOnSet(s, P) = s[e]
  BY <1>2, <1>4, <1>5, <1>6, <1>r, SumOne
<1> QED BY <1>0, <1>4, <1>7 DEF m, s

\* Every turn reaches the update with its reward.
LEMMA KeepsReward == KInv => TurnKeepsItsReward
<1> SUFFICES ASSUME KInv, scores # <<>>, NEW r \in Row
    PROVE  /\ Spans(Kept(r)) = 1..turns[r]
           /\ Len(rewards[r]) = turns[r]
           /\ \A j \in DOMAIN SpanOf(Kept(r)) : SpanOf(Kept(r))[j] = mask[r][j]
           /\ \A k \in 1..turns[r] : TurnReward(Kept(r), scores[r], k) = rewards[r][k]
  BY DEF TurnKeepsItsReward
<1>1. DOMAIN SpanOf(Kept(r)) = 1..Len(Kept(r))
  BY DEF SpanOf
<1> QED BY <1>1, RowOfUpdate, TurnSums

\* The return of a turn is the sum of its reward and the later ones.
LEMMA ReturnIs ==
  ASSUME KInv, scores # <<>>, NEW r \in Row, NEW t \in 1..turns[r]
  PROVE  /\ TurnReturn(Kept(r), scores[r], t) = SumFunctionOnSet(rewards[r], t..turns[r])
         /\ TurnReturn(Kept(r), scores[r], t) \in Int
<1> DEFINE m == Kept(r)
           s == scores[r]
           reward == [k \in Spans(m) |-> TurnReward(m, s, k)]
           P == {k \in Spans(m) : k >= t}
<1>r. /\ Spans(m) = 1..turns[r] /\ turns[r] \in Nat
      /\ \A k \in 1..turns[r] : rewards[r][k] \in Int
      /\ \A k \in 1..turns[r] : TurnReward(m, s, k) = rewards[r][k]
  BY RowOfUpdate, TurnSums
<1>1. TurnReturn(m, s, t) = SumFunctionOnSet(reward, P)
  BY DEF TurnReturn
<1> HIDE DEF m, s
<1>2. P = t..turns[r] /\ \A k \in P : k \in 1..turns[r]
  BY <1>r
<1>3. \A k \in P : reward[k] = rewards[r][k] /\ reward[k] \in Int
  BY <1>r, <1>2
<1>4. IsFiniteSet(P)
  <2>1. t \in Int /\ turns[r] \in Int
    BY <1>r
  <2>2. IsFiniteSet(t..turns[r])
    BY <2>1, FS_Interval
  <2> QED BY <2>2, <1>2
<1> HIDE DEF P, reward
<1>5. SumFunctionOnSet(reward, P) = SumFunctionOnSet(rewards[r], P)
  BY <1>3, <1>4, SumSame
<1>6. SumFunctionOnSet(reward, P) \in Int
  BY <1>3, <1>4, SumInt
<1> QED BY <1>1, <1>2, <1>5, <1>6 DEF m, s

\* What a token of a turn is credited with.
LEMMA CreditOf ==
  ASSUME KInv, credit # <<>>, NEW r \in Row, NEW j \in 1..Len(Kept(r))
  PROVE  /\ scores # <<>>
         /\ Kept(r)[j] = 0 => credit[r][j].returns = 0
         /\ Kept(r)[j] # 0 =>
              /\ credit[r][j].returns = TurnReturn(Kept(r), scores[r], Kept(r)[j])
              /\ credit[r][j].advantage = Advantage(r, Kept(r)[j])
<1> DEFINE m == Kept(r)
           turn == [k \in Spans(m) |-> [returns   |-> TurnReturn(m, scores[r], k),
                                        advantage |-> Advantage(r, k)]]
<1>0. scores # <<>> /\ credit[r] = Credits(r)
  BY DEF KInv, CreditsAre
<1>r. /\ Spans(m) = 1..turns[r] /\ turns[r] \in Nat
      /\ m[j] \in 0..turns[r] /\ SpanOf(m)[j] = m[j]
  BY <1>0, RowOfUpdate
<1>1. credit[r] = [i \in 1..Len(m) |->
        IF SpanOf(m)[i] = 0 THEN [returns |-> 0, advantage |-> 0] ELSE turn[SpanOf(m)[i]]]
  BY <1>0 DEF Credits
<1> HIDE DEF turn, m
<1>2. credit[r][j] = IF m[j] = 0 THEN [returns |-> 0, advantage |-> 0] ELSE turn[m[j]]
  BY <1>1, <1>r DEF m
<1>3. CASE m[j] = 0
  BY <1>0, <1>2, <1>3 DEF m
<1>4. CASE m[j] # 0
  <2>1. m[j] \in Spans(m)
    BY <1>4, <1>r
  <2>2. turn[m[j]] = [returns |-> TurnReturn(m, scores[r], m[j]), advantage |-> Advantage(r, m[j])]
    BY <2>1 DEF turn
  <2> QED BY <2>2, <1>0, <1>2, <1>4 DEF m
<1> QED BY <1>3, <1>4

\* A token is credited with the rewards from its turn on.
LEMMA FollowsTurns == KInv => CreditFollowsTurns
<1> SUFFICES ASSUME KInv, credit # <<>>, NEW r \in Row, NEW j \in 1..Len(Kept(r))
    PROVE  credit[r][j].returns =
             IF mask[r][j] = 0 THEN 0
             ELSE SumFunctionOnSet(rewards[r], mask[r][j]..Len(rewards[r]))
  BY DEF CreditFollowsTurns
<1>0. scores # <<>>
  BY CreditOf
<1>1. /\ Kept(r)[j] = mask[r][j] /\ Kept(r)[j] \in 0..turns[r]
      /\ Len(rewards[r]) = turns[r] /\ turns[r] \in Nat
  BY <1>0, RowOfUpdate
<1>2. CASE mask[r][j] = 0
  BY <1>1, <1>2, CreditOf
<1>3. CASE mask[r][j] # 0
  <2>1. Kept(r)[j] \in 1..turns[r]
    BY <1>1, <1>3
  <2>2. credit[r][j].returns = TurnReturn(Kept(r), scores[r], Kept(r)[j])
    BY <1>1, <1>3, CreditOf
  <2>3. TurnReturn(Kept(r), scores[r], Kept(r)[j]) = SumFunctionOnSet(rewards[r], Kept(r)[j]..turns[r])
    BY <1>0, <2>1, ReturnIs
  <2> QED BY <1>1, <1>3, <2>2, <2>3
<1> QED BY <1>2, <1>3

\* The credit of a turn, as it stands on the turn's last token.
Credited(r, t) == credit[r][CHOOSE j \in Ends(Kept(r)) : SpanOf(Kept(r))[j] = t]

\* It is the return and the advantage of that turn.
LEMMA CreditedIs ==
  ASSUME KInv, credit # <<>>, NEW t, NEW r \in Members(t)
  PROVE  /\ scores # <<>> /\ r \in Row /\ t \in 1..turns[r]
         /\ Credited(r, t).returns = TurnReturn(Kept(r), scores[r], t)
         /\ Credited(r, t).advantage = Advantage(r, t)
<1>0. scores # <<>>
  BY DEF KInv, CreditsAre
<1>1. r \in Row /\ t \in Spans(Kept(r))
  BY DEF Members
<1> DEFINE m == Kept(r)
           e == CHOOSE j \in Ends(m) : SpanOf(m)[j] = t
<1>r. /\ Len(m) \in Nat /\ turns[r] \in Nat /\ Shape(m, turns[r])
      /\ Spans(m) = 1..turns[r]
      /\ \A j \in 1..Len(m) : SpanOf(m)[j] = m[j]
  BY <1>0, <1>1, RowOfUpdate
<1>2. t \in 1..turns[r]
  BY <1>1, <1>r
<1> HIDE DEF m
<1>3. \E j \in Ends(m) : m[j] = t
  BY <1>r, <1>2, EndsOfTurns
<1>4. \A j \in Ends(m) : j \in 1..Len(m) /\ SpanOf(m)[j] = m[j]
  BY <1>r DEF Ends
<1>5. e \in Ends(m) /\ SpanOf(m)[e] = t
  BY <1>3, <1>4
<1>6. e \in 1..Len(m) /\ m[e] = t /\ m[e] # 0
  BY <1>2, <1>4, <1>5
<1>7. Credited(r, t) = credit[r][e]
  BY DEF Credited, m
<1> HIDE DEF e
<1>8. /\ credit[r][e].returns = TurnReturn(m, scores[r], m[e])
      /\ credit[r][e].advantage = Advantage(r, m[e])
  BY <1>1, <1>6, CreditOf DEF m
<1> QED BY <1>0, <1>1, <1>2, <1>6, <1>7, <1>8 DEF m

\* The advantage of a row among several, scaled as the model scales it.
LEMMA AdvantageIs ==
  ASSUME KInv, credit # <<>>, NEW t, NEW r \in Members(t),
         NEW ret, ret = [q \in Row |-> TurnReturn(Kept(q), scores[q], t)]
  PROVE  /\ IsFiniteSet(Members(t)) /\ Cardinality(Members(t)) \in Nat \ {0}
         /\ \A q \in Members(t) : ret[q] \in Int
         /\ SumFunctionOnSet(ret, Members(t)) \in Int
         /\ Cardinality(Members(t)) = 1 => Members(t) = {r} /\ Advantage(r, t) = ret[r]
         /\ Cardinality(Members(t)) # 1 =>
              Advantage(r, t) = Cardinality(Members(t)) * ret[r] - SumFunctionOnSet(ret, Members(t))
<1> USE KernelRolloutAssumption
<1> DEFINE M == Members(t)
           O == Others(r, t)
           c == Cardinality(M)
<1>1. \A q \in M : q \in Row /\ ret[q] \in Int
  <2> TAKE q \in M
  <2>1. scores # <<>> /\ q \in Row /\ t \in 1..turns[q]
    BY CreditedIs
  <2>2. TurnReturn(Kept(q), scores[q], t) \in Int
    BY <2>1, ReturnIs
  <2> QED BY <2>1, <2>2
<1>2. IsFiniteSet(M)
  <2>1. M \subseteq Row
    BY DEF Members
  <2> QED BY <2>1, FS_Subset
<1>3. O = M \ {r}
  BY DEF Others
<1>a. Advantage(r, t) = IF O = {} THEN ret[r]
                        ELSE Cardinality(O) * ret[r] - SumFunctionOnSet(ret, O)
  BY DEF Advantage
<1> HIDE DEF O
<1>4. IsFiniteSet(O) /\ Cardinality(O) = c - 1 /\ c \in Nat /\ Cardinality(O) \in Nat
  BY <1>2, <1>3, FS_RemoveElement, FS_CardinalityType
<1>m. r \in M
  OBVIOUS
<1> HIDE DEF M
<1>5. O = {} <=> c = 1
  <2>1. Cardinality(O) = 0 <=> O = {}
    BY <1>4, FS_EmptySet
  <2> HIDE DEF c
  <2> QED BY <2>1, <1>4
<1>6. /\ SumFunctionOnSet(ret, M) = ret[r] + SumFunctionOnSet(ret, O)
      /\ SumFunctionOnSet(ret, M) \in Int /\ SumFunctionOnSet(ret, O) \in Int
      /\ ret[r] \in Int
  BY <1>1, <1>2, <1>3, <1>4, <1>m, SumAny, SumInt
<1>7. ASSUME c = 1 PROVE M = {r} /\ Advantage(r, t) = ret[r]
  BY <1>3, <1>5, <1>7, <1>a, <1>m
<1>8. ASSUME c # 1 PROVE Advantage(r, t) = c * ret[r] - SumFunctionOnSet(ret, M)
  <2>1. Advantage(r, t) = Cardinality(O) * ret[r] - SumFunctionOnSet(ret, O)
    BY <1>5, <1>8, <1>a
  <2> HIDE DEF c
  <2>2. (c - 1) * ret[r] = c * ret[r] - ret[r]
    BY <1>4, <1>6
  <2>3. c * ret[r] \in Int
    BY <1>4, <1>6
  <2> QED BY <2>1, <2>2, <2>3, <1>4, <1>6
<1>9. c \in Nat \ {0}
  <2> HIDE DEF c
  <2> QED BY <1>4
<1> QED BY <1>1, <1>2, <1>6, <1>7, <1>8, <1>9 DEF M

\* Among the rows that have a turn the advantages cancel.
LEMMA Cancel == KInv => GroupsCancel
<1> SUFFICES ASSUME KInv, credit # <<>>, NEW t \in Turn
    PROVE  LET members == Members(t)
               at      == [r \in members |-> Credited(r, t)]
               summed  == SumFunctionOnSet([r \in members |-> at[r].advantage], members)
           IN  summed = IF Cardinality(members) = 1
                        THEN at[CHOOSE r \in members : TRUE].returns ELSE 0
  BY DEF GroupsCancel, Credited
<1> DEFINE M == Members(t)
           at == [r \in M |-> Credited(r, t)]
           adv == [r \in M |-> at[r].advantage]
           ret == [q \in Row |-> TurnReturn(Kept(q), scores[q], t)]
           c == Cardinality(M)
           d == SumFunctionOnSet(ret, M)
<1> SUFFICES SumFunctionOnSet(adv, M) = IF c = 1 THEN at[CHOOSE r \in M : TRUE].returns ELSE 0
  OBVIOUS
<1>1. \A r \in M : r \in Row /\ at[r].returns = ret[r] /\ adv[r] = Advantage(r, t)
  BY CreditedIs
<1>2. ASSUME NEW r \in M
      PROVE  /\ IsFiniteSet(M) /\ c \in Nat \ {0} /\ ret[r] \in Int /\ d \in Int
             /\ c = 1 => M = {r} /\ adv[r] = ret[r]
             /\ c # 1 => adv[r] = c * ret[r] - d
  <2> HIDE DEF ret, adv
  <2>1. ret = [q \in Row |-> TurnReturn(Kept(q), scores[q], t)]
    BY DEF ret
  <2> QED BY <2>1, <1>1, AdvantageIs
<1> HIDE DEF M, at, adv, ret, c, d
<1>3. CASE M = {}
  BY <1>3, SumEmpty, FS_EmptySet DEF c
<1>4. CASE M # {} /\ c = 1
  <2>1. PICK r \in M : M = {r} /\ adv[r] = ret[r] /\ ret[r] \in Int /\ IsFiniteSet(M)
    BY <1>2, <1>4
  <2>2. SumFunctionOnSet(adv, M) = adv[r]
    BY <2>1, SumOne
  <2>3. (CHOOSE q \in M : TRUE) = r
    BY <2>1
  <2> QED BY <1>1, <1>4, <2>1, <2>2, <2>3
<1>5. CASE M # {} /\ c # 1
  <2>1. IsFiniteSet(M) /\ c \in Int /\ d \in Int
    BY <1>2, <1>5
  <2>2. \A r \in M : ret[r] \in Int /\ adv[r] = c * ret[r] - d
    BY <1>2, <1>5
  <2>3. SumFunctionOnSet(adv, M) = c * d - c * d
    <3>1. SumFunctionOnSet(adv, M) = c * SumFunctionOnSet(ret, M) - Cardinality(M) * d
      BY <2>1, <2>2, SumShift
    <3> QED BY <3>1 DEF c, d
  <2>4. c * d \in Int
    BY <2>1
  <2> QED BY <1>5, <2>3, <2>4
<1> QED BY <1>3, <1>4, <1>5

\* For every group of rows, every number of turns and tokens and whatever
\* KernelGym answers: the reward of each turn reaches the tokens of that turn,
\* later rewards reach earlier turns and never the other way, and the
\* leave-one-out advantages of a turn cancel over the rows that have it.
THEOREM CreditedTurns == Spec => []CreditIsOfTurns
<1>1. Init => KInv
  BY InitRollout, InitMasks DEF KInv
<1>2. Spec => []KInv
  BY <1>1, KNext, PTL DEF Spec
<1>3. KInv => CreditIsOfTurns
  BY KeepsReward, FollowsTurns, Cancel DEF CreditIsOfTurns
<1> QED BY <1>2, <1>3, PTL
-----------------------------------------------------------------------------
(***************************************************************************)
(* The batch filter, for every configuration and every finite batch: how   *)
(* many rows of each kind.                                                 *)
(***************************************************************************)

\* Multiplication by a positive number reflects the order.
LEMMA FactorOrder ==
  ASSUME NEW a \in Nat, NEW b \in Nat, NEW t \in Nat \ {0}, a * t < b * t
  PROVE  a < b
<1>1. CASE b <= a
  <2>1. PICK d \in Nat : a = b + d
    BY <1>1
  <2>2. a * t = b * t + d * t /\ d * t \in Nat
    BY <2>1
  <2> QED BY <2>2
<1> QED BY <1>1

\* The share of the positive rows leaves enough rows of both kinds.
LEMMA ShareFits ==
  ASSUME NEW T \in Nat, NEW p \in Nat \ {0}, NEW n \in Nat \ {0}, T < p + n,
         NEW k \in 0..T,
         2 * (T * p) - 2 * (k * (p + n)) <= p + n,
         2 * (k * (p + n)) - 2 * (T * p) <= p + n
  PROVE  k <= p /\ T - k <= n
<1> DEFINE t == p + n
<1>1. T * p \in Nat /\ T * n \in Nat /\ T * t = T * p + T * n /\ k * t \in Nat
  OBVIOUS
<1>2. PICK d \in Nat : t = T + 1 + d
  <2> WITNESS t - T - 1 \in Nat
  <2> QED OBVIOUS
<1>3. T * p <= t * p - p
  <2>1. t * p = T * p + p + d * p /\ d * p \in Nat
    BY <1>2
  <2> QED BY <2>1
<1>4. T * n <= t * n - n
  <2>1. t * n = T * n + n + d * n /\ d * n \in Nat
    BY <1>2
  <2> QED BY <2>1
<1>5. k <= p
  <2>1. (p + 1) * t = t * p + t /\ t * p \in Nat
    OBVIOUS
  <2>2. k * t < (p + 1) * t
    BY <1>1, <1>3, <2>1
  <2> QED BY <2>2, FactorOrder
<1>6. T - k <= n
  <2>1. (n + 1) * t = t * n + t /\ t * n \in Nat
    OBVIOUS
  <2>2. (T - k) * t = T * t - k * t
    OBVIOUS
  <2>3. (T - k) * t < (n + 1) * t
    BY <1>1, <1>4, <2>1, <2>2
  <2>4. T - k \in Nat
    OBVIOUS
  <2> QED BY <2>3, <2>4, FactorOrder
<1> QED BY <1>5, <1>6

\* The numbers of positive and negative rows that are taken exist.
LEMMA CountsFit ==
  ASSUME NEW T \in Nat \ {0}, NEW p \in Nat, NEW n \in Nat, T < p + n,
         NEW m \in PositiveCounts(T, p, n)
  PROVE  m \in 0..T /\ m <= p /\ T - m <= n
<1>1. CASE p = 0
  BY <1>1 DEF PositiveCounts
<1>2. CASE p # 0 /\ n = 0
  BY <1>2 DEF PositiveCounts
<1>3. CASE p # 0 /\ n # 0
  <2>1. PICK k \in 0..T :
          /\ 2 * (T * p) - 2 * (k * (p + n)) <= p + n
          /\ 2 * (k * (p + n)) - 2 * (T * p) <= p + n
          /\ m = IF T = 1 THEN 0 ELSE IF k = 0 THEN 1 ELSE IF k = T THEN T - 1 ELSE k
    BY <1>3 DEF PositiveCounts
  <2>2. k <= p /\ T - k <= n
    BY <1>3, <2>1, ShareFits
  <2> QED BY <1>3, <2>1, <2>2
<1> QED BY <1>1, <1>2, <1>3

-----------------------------------------------------------------------------
(***************************************************************************)
(* The rows taken from a group.                                             *)
(***************************************************************************)

\* A group and its rows that remain are finite when the batch is.
LEMMA GroupsFinite ==
  ASSUME NEW c, NEW rows, IsFiniteSet(DOMAIN rows), NEW u
  PROVE  /\ Group(rows, u) \subseteq DOMAIN rows
         /\ Remaining(c, rows, u) \subseteq Group(rows, u)
         /\ IsFiniteSet(Remaining(c, rows, u))
         /\ Cardinality(Remaining(c, rows, u)) \in Nat
<1>1. Remaining(c, rows, u) \in SUBSET DOMAIN rows
  BY DEF Remaining, Group
<1>2. IsFiniteSet(Remaining(c, rows, u))
  BY <1>1, FS_Subset
<1> QED BY <1>2, FS_CardinalityType DEF Remaining, Group

\* A selection from a group that is too large has exactly groupSize of its rows,
\* by whichever strategy.
THEOREM SelectsGroupSize ==
  ASSUME NEW c, FilterConfig(c), NEW rows, NEW g, IsFiniteSet(g),
         \A i \in g : rows[i].reward \in Int,
         Cardinality(g) > c.groupSize,
         NEW s \in SelectSamples(c, rows, g)
  PROVE  s \subseteq g /\ Cardinality(s) = c.groupSize
<1> DEFINE pos == Positive(rows, g)
           neg == Negative(rows, g)
           T   == c.groupSize
<1>1. T \in Nat \ {0}
  BY DEF FilterConfig
<1>2. CASE c.strategy = "uniform"
  BY <1>2 DEF SelectSamples, Subsets
<1>3. CASE c.strategy # "uniform"
  <2>1. pos \in SUBSET g /\ neg \in SUBSET g /\ g = pos \cup neg /\ pos \cap neg = {}
    BY DEF Positive, Negative
  <2>2. /\ IsFiniteSet(pos) /\ IsFiniteSet(neg)
        /\ Cardinality(pos) \in Nat /\ Cardinality(neg) \in Nat
    BY <2>1, FS_Subset, FS_CardinalityType
  <2>3. Cardinality(g) = Cardinality(pos) + Cardinality(neg)
    <3>1. Cardinality(pos \cup neg) =
            Cardinality(pos) + Cardinality(neg) - Cardinality(pos \cap neg)
      BY <2>2, FS_Union
    <3>2. Cardinality(pos \cap neg) = 0
      BY <2>1, FS_EmptySet
    <3>3. Cardinality(g) = Cardinality(pos \cup neg)
      BY <2>1
    <3> QED BY <2>2, <3>1, <3>2, <3>3
  <2>4. PICK k \in PositiveCounts(T, Cardinality(pos), Cardinality(neg)) :
          /\ Picked(c, rows, pos, k, s \cap pos)
          /\ Picked(c, rows, neg, T - k, s \cap neg)
    BY <1>3 DEF SelectSamples
  <2>5. k \in 0..T /\ k <= Cardinality(pos) /\ T - k <= Cardinality(neg)
    BY <1>1, <2>2, <2>3, CountsFit
  <2>6. /\ Cardinality(s \cap pos) = k /\ Cardinality(s \cap neg) = T - k
        /\ s \in SUBSET g
    <3>1. Cardinality(s \cap pos) = k
      BY <2>2, <2>4, <2>5 DEF Picked
    <3>2. Cardinality(s \cap neg) = T - k
      BY <1>1, <2>2, <2>4, <2>5 DEF Picked
    <3>3. s \in SUBSET g
      BY <1>3 DEF SelectSamples
    <3> QED BY <3>1, <3>2, <3>3
  <2>7. /\ s = (s \cap pos) \cup (s \cap neg) /\ (s \cap pos) \cap (s \cap neg) = {}
        /\ IsFiniteSet(s \cap pos) /\ IsFiniteSet(s \cap neg)
    BY <2>1, <2>2, <2>6, FS_Subset
  <2>8. Cardinality((s \cap pos) \cup (s \cap neg)) =
          k + (T - k) - Cardinality((s \cap pos) \cap (s \cap neg))
    BY <2>6, <2>7, FS_Union
  <2>9. Cardinality(s) = k + (T - k)
    <3>1. Cardinality((s \cap pos) \cap (s \cap neg)) = 0
      BY <2>7, FS_EmptySet
    <3>2. Cardinality(s) = Cardinality((s \cap pos) \cup (s \cap neg))
      BY <2>7
    <3> QED BY <1>1, <2>5, <2>8, <3>1, <3>2
  <2> QED BY <1>1, <2>5, <2>6, <2>9
<1> QED BY <1>2, <1>3

-----------------------------------------------------------------------------
(***************************************************************************)
(* The groups, and the output.                                              *)
(***************************************************************************)

LEMMA UidsFinite ==
  ASSUME NEW rows, IsFiniteSet(DOMAIN rows)
  PROVE  IsFiniteSet(Uids(rows))
<1> DEFINE f == [i \in DOMAIN rows |-> rows[i].uid]
<1>1. f \in Surjection(DOMAIN rows, Uids(rows))
  BY DEF Surjection, Uids
<1> QED BY <1>1, FS_Surjection

\* The groups that are chosen are selectable and not too many.
LEMMA ChosenFew ==
  ASSUME NEW c, FilterConfig(c), NEW rows, IsFiniteSet(DOMAIN rows),
         NEW G \in ChosenGroups(c, rows)
  PROVE  /\ G \subseteq Selectable(c, rows)
         /\ IsFiniteSet(G)
         /\ c.groups > 0 => Cardinality(G) <= c.groups
<1> DEFINE all  == Selectable(c, rows)
           full == {u \in all : Cardinality(Remaining(c, rows, u)) = c.groupSize}
<1>1. c.groups \in Nat
  BY DEF FilterConfig
<1>2. all \in SUBSET Uids(rows) /\ full \in SUBSET all
  BY DEF Selectable
<1>3. /\ IsFiniteSet(all) /\ IsFiniteSet(full)
      /\ Cardinality(all) \in Nat /\ Cardinality(full) \in Nat
  BY <1>2, UidsFinite, FS_Subset, FS_CardinalityType
<1>4. CASE c.groups = 0 \/ Cardinality(all) <= c.groups
  BY <1>3, <1>4 DEF ChosenGroups
<1>5. CASE ~(c.groups = 0 \/ Cardinality(all) <= c.groups) /\ Cardinality(full) >= c.groups
  <2>1. G \in SUBSET full /\ Cardinality(G) = c.groups
    BY <1>5 DEF ChosenGroups, Subsets
  <2> QED BY <1>1, <1>2, <1>3, <2>1, FS_Subset
<1>6. CASE ~(c.groups = 0 \/ Cardinality(all) <= c.groups) /\ ~(Cardinality(full) >= c.groups)
  <2>1. PICK s \in SUBSET (all \ full) :
          G = full \cup s /\ Cardinality(s) = c.groups - Cardinality(full)
    BY <1>6 DEF ChosenGroups, Subsets
  <2>2. IsFiniteSet(s) /\ full \cap s = {}
    BY <1>2, <1>3, <2>1, FS_Subset
  <2>3. /\ IsFiniteSet(full \cup s)
        /\ Cardinality(full \cup s) =
             Cardinality(full) + Cardinality(s) - Cardinality(full \cap s)
    BY <1>3, <2>2, FS_Union
  <2>4. Cardinality(full \cap s) = 0
    BY <2>2, FS_EmptySet
  <2> QED BY <1>1, <1>2, <1>3, <2>1, <2>3, <2>4
<1> QED BY <1>4, <1>5, <1>6

\* What is selected of a selectable group keeps to the bounds of its size.
LEMMA SelectionSize ==
  ASSUME NEW c, FilterConfig(c), NEW rows, IsFiniteSet(DOMAIN rows),
         \A i \in DOMAIN rows : rows[i].reward \in Int,
         NEW u \in Selectable(c, rows), NEW s \in Selections(c, rows, u)
  PROVE  /\ s \subseteq Group(rows, u)
         /\ Cardinality(s) <= c.groupSize
         /\ Cardinality(s) >= c.minSize \/ Cardinality(s) = c.groupSize
<1> DEFINE g == Remaining(c, rows, u)
<1>1. /\ g \subseteq Group(rows, u) /\ g \subseteq DOMAIN rows
      /\ IsFiniteSet(g) /\ Cardinality(g) \in Nat
  BY GroupsFinite
<1>2. Cardinality(g) >= c.minSize
  BY DEF Selectable
<1>3. c.groupSize \in Nat
  BY DEF FilterConfig
<1>4. CASE Cardinality(g) > c.groupSize
  <2>1. s \in SelectSamples(c, rows, g)
    BY <1>4 DEF Selections
  <2>2. s \subseteq g /\ Cardinality(s) = c.groupSize
    BY <1>1, <1>4, <2>1, SelectsGroupSize
  <2> QED BY <1>1, <1>3, <2>2
<1>5. CASE ~(Cardinality(g) > c.groupSize)
  <2>1. s = g
    BY <1>5 DEF Selections
  <2> QED BY <1>1, <1>2, <1>3, <1>5, <2>1
<1> QED BY <1>4, <1>5

\* The output guarantees of filter_batch hold for every configuration that
\* passes its validation and every finite batch, whatever is drawn at random.
THEOREM FilterGuarantees ==
  ASSUME NEW c, FilterConfig(c), NEW rows, IsFiniteSet(DOMAIN rows),
         \A i \in DOMAIN rows : rows[i].reward \in Int,
         NEW S \in FilterOutcomes(c, rows)
  PROVE  Guaranteed(c, rows, S)
<1>1. PICK G \in ChosenGroups(c, rows) :
        \E f \in [G -> UNION {Selections(c, rows, u) : u \in G}] :
          /\ \A u \in G : f[u] \in Selections(c, rows, u)
          /\ S = UNION {f[u] : u \in G}
  BY DEF FilterOutcomes
<1>2. PICK f : /\ \A u \in G : f[u] \in Selections(c, rows, u)
               /\ S = UNION {f[u] : u \in G}
  BY <1>1
<1>3. /\ G \subseteq Selectable(c, rows) /\ IsFiniteSet(G)
      /\ c.groups > 0 => Cardinality(G) <= c.groups
  BY ChosenFew
<1>4. \A u \in G : f[u] \subseteq Group(rows, u)
  BY <1>2, <1>3, SelectionSize
<1>5. \A u, v : u # v => Group(rows, u) \cap Group(rows, v) = {}
  BY DEF Group
<1>6. \A u \in G : S \cap Group(rows, u) = f[u]
  <2> SUFFICES ASSUME NEW u \in G, NEW i
               PROVE  i \in S /\ i \in Group(rows, u) <=> i \in f[u]
    OBVIOUS
  <2>1. ASSUME i \in S, i \in Group(rows, u) PROVE i \in f[u]
    <3>1. PICK v \in G : i \in f[v]
      BY <1>2, <2>1
    <3>2. i \in Group(rows, v)
      BY <1>4, <3>1
    <3> QED BY <1>5, <2>1, <3>1, <3>2
  <2>2. ASSUME i \in f[u] PROVE i \in S /\ i \in Group(rows, u)
    BY <1>2, <1>4, <2>2
  <2> QED BY <2>1, <2>2
<1> DEFINE uids == {u \in Uids(rows) : S \cap Group(rows, u) # {}}
<1>7. uids \in SUBSET G
  <2> SUFFICES ASSUME NEW u \in uids PROVE u \in G
    OBVIOUS
  <2>1. PICK i : i \in S /\ i \in Group(rows, u)
    OBVIOUS
  <2>2. PICK v \in G : i \in f[v]
    BY <1>2, <2>1
  <2>3. i \in Group(rows, v)
    BY <1>4, <2>2
  <2> QED BY <1>5, <2>1, <2>2, <2>3
<1>8. c.groups > 0 => Cardinality(uids) <= c.groups
  <2>1. Cardinality(uids) <= Cardinality(G) /\ IsFiniteSet(uids)
    BY <1>3, <1>7, FS_Subset
  <2>2. Cardinality(uids) \in Nat /\ Cardinality(G) \in Nat /\ c.groups \in Nat
    BY <1>3, <2>1, FS_CardinalityType DEF FilterConfig
  <2> QED BY <1>3, <2>1, <2>2
<1>9. ASSUME NEW u \in uids
      PROVE  LET size == Cardinality(S \cap Group(rows, u))
             IN  size <= c.groupSize /\ (size >= c.minSize \/ size = c.groupSize)
  <2>1. u \in G /\ S \cap Group(rows, u) = f[u]
    BY <1>6, <1>7
  <2>2. u \in Selectable(c, rows) /\ f[u] \in Selections(c, rows, u)
    BY <1>2, <1>3, <2>1
  <2>3. /\ Cardinality(f[u]) <= c.groupSize
        /\ Cardinality(f[u]) >= c.minSize \/ Cardinality(f[u]) = c.groupSize
    BY <2>2, SelectionSize
  <2> QED BY <2>1, <2>3
<1> QED BY <1>8, <1>9 DEF Guaranteed
=============================================================================
