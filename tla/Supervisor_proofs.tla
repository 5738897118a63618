--------------------------- MODULE Supervisor_proofs ---------------------------
(***************************************************************************)
(* Theorems about Supervisor, for every set of replicas, any number of them  *)
(* initial, mortal or flaky, every miss threshold, and calls that may raise. *)
(***************************************************************************)
EXTENDS Supervisor, SequenceTheorems, TLAPS

CallType == [op : {"add", "remove"}, replica : Replica]

-----------------------------------------------------------------------------
(***************************************************************************)
(* The inductive invariant.                                                 *)
(***************************************************************************)

\* No call is queued twice; an addition is queued only while its promotion
\* waits for it, and a removal only for a replica whose death was handled.
Single == \A i, j \in DOMAIN lbCalls : lbCalls[i] = lbCalls[j] => i = j
Queue ==
  /\ Single
  /\ \A r \in Replica : Queued(Call("add", r)) => promoting[r] = "adding"
  /\ \A r \in Replica : Queued(Call("remove", r)) => r \in handled

\* The admission lock is held by the death that is being handled, or by the
\* one promotion whose addition is under way.
Locking ==
  /\ \A r \in Replica : promoting[r] = "adding" => lock = r
  /\ handling # None <=> lock = Consumer
  /\ step = "idle" <=> handling = None

\* A death goes from declared to pending to the snapshot to handled, once.
Deaths ==
  /\ dead \subseteq supervised /\ probing \subseteq supervised
  /\ pending \subseteq dead /\ batch \subseteq pending /\ handled \subseteq dead
  /\ pending \cap handled \subseteq {handling}
  /\ dead \ pending \subseteq handled \cup lost
  /\ handling # None => handling \in batch \cap handled
  /\ \A r \in Replica \ dead : misses[r] < MissThreshold

\* A replacement task follows a handled death, and what it brings up is a new
\* replica, which is not supervised before the task adds it.
Replacements ==
  /\ \A d \in Replica :
       d \in spawning \/ product[d] # None => d \in handled /\ d # handling
  /\ \A d \in Replica : product[d] \notin Initial
  /\ \A d, e \in Replica : product[d] = product[e] => d = e \/ product[d] = None
  /\ \A r \in supervised : r \in Initial \/ \E d \in Replica : product[d] = r
  /\ \A d \in spawning : product[d] \notin supervised

\* No addition of a replica is under way once its death was handled, and it is
\* routed to only until its removal is executed.
StaysOut ==
  \A r \in handled :
    /\ ~Queued(Call("add", r))
    /\ r \in routed /\ r \notin lost => Queued(Call("remove", r))

\* The progress of a promotion, as far as the load balancer is concerned.
Promoted ==
  \A r \in Replica \ dead :
    /\ promoting[r] = "adding" => r \in routed \/ Queued(Call("add", r))
    /\ promoting[r] = "acked" \/ r \in active => r \in routed

\* The manager knows every replica it has been told of, until it reports it.
Known ==
  \A r \in (supervised \cup registered) \ (dead \cup early) :
    r \in active \cup fresh \cup reports

IInv ==
  /\ TypeOK /\ NoLostDeath /\ Queue /\ Locking /\ Deaths /\ Replacements
  /\ StaysOut /\ Promoted /\ Known

-----------------------------------------------------------------------------
(***************************************************************************)
(* The queue of calls.                                                      *)
(***************************************************************************)

\* The names of the lock's other holders are no replicas.
LEMMA Names ==
  /\ None \notin Replica /\ Consumer \notin Replica /\ None # Consumer
  /\ Initial \subseteq Replica /\ MissThreshold \in Nat \ {0}
BY SupervisorAssumption DEF None, Consumer

\* Calls differ if their operations or their replicas do.
LEMMA CallIs ==
  /\ \A r \in Replica : Call("add", r) \in CallType /\ Call("remove", r) \in CallType
  /\ \A r, s \in Replica : Call("add", r) # Call("remove", s)
  /\ \A op, r, s : Call(op, r) = Call(op, s) => r = s
  /\ \A op, r : Call(op, r).op = op /\ Call(op, r).replica = r
  /\ \A c \in CallType : c.op \in {"add", "remove"} /\ c.replica \in Replica
  /\ \A c \in CallType : c = Call(c.op, c.replica)
BY DEF Call, CallType

\* A call that is sent joins those queued, at most once.
LEMMA Sends ==
  ASSUME lbCalls \in Seq(CallType), NEW c \in CallType,
         lbCalls' = Append(lbCalls, c)
  PROVE  /\ lbCalls' \in Seq(CallType)
         /\ \A d : Queued(d)' <=> Queued(d) \/ d = c
         /\ Single /\ ~Queued(c) => Single'
<1>1. /\ lbCalls' \in Seq(CallType) /\ Len(lbCalls) \in Nat
      /\ DOMAIN lbCalls = 1..Len(lbCalls) /\ DOMAIN lbCalls' = 1..(Len(lbCalls) + 1)
      /\ \A i \in 1..Len(lbCalls) : lbCalls'[i] = lbCalls[i]
      /\ lbCalls'[Len(lbCalls) + 1] = c
  OBVIOUS
<1>2. \A d : Queued(d)' <=> Queued(d) \/ d = c
  BY <1>1 DEF Queued
<1>3. ASSUME Single, ~Queued(c) PROVE Single'
  BY <1>1, <1>3 DEF Queued, Single
<1> QED BY <1>1, <1>2, <1>3

\* The call that is executed leaves the queue, and only that one.
LEMMA Executes ==
  ASSUME lbCalls \in Seq(CallType), lbCalls # <<>>, lbCalls' = Tail(lbCalls)
  PROVE  /\ lbCalls' \in Seq(CallType)
         /\ Head(lbCalls) \in CallType /\ Queued(Head(lbCalls))
         /\ \A d : Queued(d) <=> Queued(d)' \/ d = Head(lbCalls)
         /\ Single => Single' /\ \A d : d = Head(lbCalls) => ~Queued(d)'
<1>1. /\ lbCalls' \in Seq(CallType) /\ Len(lbCalls) \in Nat \ {0}
      /\ DOMAIN lbCalls = 1..Len(lbCalls) /\ DOMAIN lbCalls' = 1..(Len(lbCalls) - 1)
      /\ \A i \in 1..(Len(lbCalls) - 1) : lbCalls'[i] = lbCalls[i + 1]
      /\ Head(lbCalls) = lbCalls[1] /\ lbCalls[1] \in CallType
  OBVIOUS
<1>2. Queued(Head(lbCalls))
  BY <1>1 DEF Queued
<1>3. \A d : Queued(d)' => Queued(d)
  BY <1>1 DEF Queued
<1>4. ASSUME NEW d, Queued(d), d # Head(lbCalls) PROVE Queued(d)'
  <2>1. PICK i \in DOMAIN lbCalls : lbCalls[i] = d
    BY <1>4 DEF Queued
  <2>2. i - 1 \in 1..(Len(lbCalls) - 1) /\ lbCalls'[i - 1] = d
    BY <2>1, <1>1, <1>4
  <2> QED BY <2>2, <1>1 DEF Queued
<1>5. ASSUME Single PROVE Single' /\ \A d : d = Head(lbCalls) => ~Queued(d)'
  <2>1. \A i, j \in 1..Len(lbCalls) : lbCalls[i] = lbCalls[j] => i = j
    BY <1>1, <1>5 DEF Single
  <2>2. \A i \in 1..(Len(lbCalls) - 1) : i + 1 \in 1..Len(lbCalls) /\ i + 1 # 1
    BY <1>1
  <2>3. Single'
    BY <2>1, <2>2, <1>1 DEF Single
  <2>4. \A d : d = Head(lbCalls) => ~Queued(d)'
    BY <2>1, <2>2, <1>1 DEF Queued
  <2> QED BY <2>3, <2>4
<1> QED BY <1>1, <1>2, <1>3, <1>4, <1>5

\* A call that is lost is queued no more, and no other one leaves the queue.
LEMMA Loses ==
  ASSUME lbCalls \in Seq(CallType), NEW c, Lose(c)
  PROVE  /\ lbCalls' \in Seq(CallType)
         /\ \A d : Queued(d) <=> Queued(d)' \/ (d = c /\ Queued(c))
         /\ Single => Single' /\ ~Queued(c)'
<1>1. CASE ~Queued(c) /\ UNCHANGED lbCalls
  <2>1. lbCalls' = lbCalls
    BY <1>1
  <2> QED BY <2>1, <1>1 DEF Queued, Single
<1>2. CASE \E i \in DOMAIN lbCalls : lbCalls[i] = c /\ lbCalls' = RemoveAt(lbCalls, i)
  <2> DEFINE n == Len(lbCalls)
  <2>1. PICK k \in DOMAIN lbCalls : lbCalls[k] = c /\ lbCalls' = RemoveAt(lbCalls, k)
    BY <1>2
  <2>2. /\ n \in Nat \ {0} /\ k \in 1..n /\ DOMAIN lbCalls = 1..n
    BY <2>1
  <2>3. /\ lbCalls' \in Seq(CallType) /\ DOMAIN lbCalls' = 1..(n - 1)
        /\ \A i \in 1..(n - 1) :
             lbCalls'[i] = IF i < k THEN lbCalls[i] ELSE lbCalls[i + 1]
    <3> DEFINE left == SubSeq(lbCalls, 1, k - 1)
               right == SubSeq(lbCalls, k + 1, n)
    <3>1. lbCalls' = left \o right
      BY <2>1 DEF RemoveAt
    <3>0. \A i \in 1..n : lbCalls[i] \in CallType
      BY <2>2
    <3> HIDE DEF n
    <3>2. /\ left \in Seq(CallType) /\ Len(left) = k - 1
          /\ \A i \in 1..(k - 1) : left[i] = lbCalls[i]
      <4>1. \A i \in 1..(k - 1) : lbCalls[i] \in CallType
        BY <3>0, <2>2
      <4>2. left \in Seq(CallType) /\ Len(left) = IF 1 <= k - 1 THEN (k - 1) - 1 + 1 ELSE 0
        BY <4>1, <2>2, SubSeqProperties
      <4>3. \A i \in 1..(k - 1) - 1 + 1 : left[i] = lbCalls[1 + i - 1]
        BY <4>1, <2>2, SubSeqProperties
      <4> HIDE DEF left
      <4> QED BY <4>2, <4>3, <2>2
    <3>3. /\ right \in Seq(CallType) /\ Len(right) = n - k
          /\ \A i \in 1..(n - k) : right[i] = lbCalls[k + i]
      <4>1. \A i \in (k + 1)..n : lbCalls[i] \in CallType
        BY <3>0, <2>2
      <4>2. right \in Seq(CallType) /\ Len(right) = IF k + 1 <= n THEN n - (k + 1) + 1 ELSE 0
        BY <4>1, <2>2, SubSeqProperties
      <4>3. \A i \in 1..n - (k + 1) + 1 : right[i] = lbCalls[(k + 1) + i - 1]
        BY <4>1, <2>2, SubSeqProperties
      <4> HIDE DEF right
      <4>4. n \in Int /\ k \in Int /\ k <= n
        BY <2>2
      <4>5. Len(right) = n - k
        BY <4>2, <4>4
      <4>6. \A i \in 1..(n - k) : i \in 1..n - (k + 1) + 1 /\ (k + 1) + i - 1 = k + i
        BY <4>4
      <4>7. \A i \in 1..(n - k) : right[i] = lbCalls[k + i]
        BY <4>3, <4>6
      <4> QED BY <4>2, <4>5, <4>7
    <3> HIDE DEF left, right
    <3>4. lbCalls' \in Seq(CallType) /\ DOMAIN lbCalls' = 1..(n - 1)
      BY <3>1, <3>2, <3>3, <2>2
    <3>5. \A i \in 1..(n - 1) :
            lbCalls'[i] = IF i <= k - 1 THEN left[i] ELSE right[i - (k - 1)]
      <4>1. Len(left) + Len(right) = n - 1 /\ Len(left) = k - 1
        BY <3>2, <3>3, <2>2
      <4> QED BY <3>1, <4>1, <3>2, <3>3
    <3>6. \A i \in 1..(n - 1) : i >= k => right[i - (k - 1)] = lbCalls[i + 1]
      <4>1. \A i \in 1..(n - 1) : i >= k => i - (k - 1) \in 1..(n - k) /\ k + (i - (k - 1)) = i + 1
        BY <2>2
      <4> QED BY <4>1, <3>3
    <3>7. \A i \in 1..(n - 1) : i < k <=> i <= k - 1 /\ ~(i >= k)
      BY <2>2
    <3>8. \A i \in 1..(n - 1) : i < k => i \in 1..(k - 1)
      BY <2>2
    <3>9. ASSUME NEW i \in 1..(n - 1)
          PROVE  lbCalls'[i] = IF i < k THEN lbCalls[i] ELSE lbCalls[i + 1]
      <4>1. CASE i < k
        BY <4>1, <3>2, <3>5, <3>7, <3>8
      <4>2. CASE ~(i < k)
        <5>1. i >= k /\ ~(i <= k - 1)
          BY <4>2, <2>2
        <5> QED BY <5>1, <4>2, <3>5, <3>6
      <4> QED BY <4>1, <4>2
    <3> QED BY <3>4, <3>9
  <2> HIDE DEF n
  <2>4. \A d : Queued(d)' => Queued(d)
    <3>1. \A i \in 1..(n - 1) : i \in 1..n /\ i + 1 \in 1..n
      BY <2>2
    <3>2. \A i \in 1..(n - 1) : \E j \in 1..n : lbCalls'[i] = lbCalls[j]
      BY <3>1, <2>3
    <3> QED BY <3>2, <2>2, <2>3 DEF Queued
  <2>5. ASSUME NEW d, Queued(d), d # c PROVE Queued(d)'
    <3>1. PICK i \in 1..n : lbCalls[i] = d
      BY <2>2, <2>5 DEF Queued
    <3>2. i # k
      BY <3>1, <2>1, <2>5
    <3>3. CASE i < k
      BY <3>1, <3>3, <2>2, <2>3 DEF Queued
    <3>4. CASE i > k
      <4>1. i - 1 \in 1..(n - 1) /\ lbCalls'[i - 1] = d
        BY <3>1, <3>4, <2>2, <2>3
      <4> QED BY <4>1, <2>3 DEF Queued
    <3> QED BY <3>2, <3>3, <3>4, <2>2
  <2>6. ASSUME Single PROVE Single' /\ ~Queued(c)'
    <3> DEFINE at(i) == IF i < k THEN i ELSE i + 1
    <3>1. \A i \in 1..(n - 1) : at(i) \in 1..n /\ at(i) # k /\ lbCalls'[i] = lbCalls[at(i)]
      BY <2>2, <2>3
    <3>2. \A i, j \in 1..(n - 1) : at(i) = at(j) => i = j
      BY <2>2
    <3> HIDE DEF at
    <3>3. \A i, j \in 1..n : lbCalls[i] = lbCalls[j] => i = j
      BY <2>2, <2>6 DEF Single
    <3>4. Single'
      BY <3>1, <3>2, <3>3, <2>3 DEF Single
    <3>5. ~Queued(c)'
      BY <3>1, <3>3, <2>1, <2>2, <2>3 DEF Queued
    <3> QED BY <3>4, <3>5
  <2>7. Queued(c)
    BY <2>1 DEF Queued
  <2> QED BY <2>3, <2>4, <2>5, <2>6, <2>7
<1> QED BY <1>1, <1>2 DEF Lose

-----------------------------------------------------------------------------
(***************************************************************************)
(* Type correctness.                                                        *)
(***************************************************************************)

\* The frames of the actions, to be expanded together.
USE DEF heartRest, deathRest, taskRest, promoteRest, tracker, consumer, tasks,
        balancer, manager

LEMMA InitType == Init => TypeOK
<1> SUFFICES ASSUME Init PROVE TypeOK
  OBVIOUS
<1>1. MissThreshold \in Nat \ {0} /\ Initial \subseteq Replica
  BY Names
<1>2. lbCalls \in Seq([op : {"add", "remove"}, replica : Replica])
  BY DEF Init
<1>3. misses \in [Replica -> 0..MissThreshold]
  BY <1>1 DEF Init
<1>4. product \in [Replica -> Replica \cup {None}]
  BY DEF Init
<1>5. promoting \in [Replica -> {"no", "asked", "adding", "acked"}]
  BY DEF Init
<1> QED BY <1>1, <1>2, <1>3, <1>4, <1>5 DEF Init, TypeOK

LEMMA StepType == IInv /\ Next => TypeOK'
<1> SUFFICES ASSUME TypeOK, IInv, Next PROVE TypeOK'
  BY DEF IInv
<1>0. lbCalls \in Seq(CallType)
  BY DEF TypeOK, CallType
<1> USE Names
<1>1. CASE Tick
  BY <1>1 DEF Tick, TypeOK
<1>2. CASE TakeDeaths
  BY <1>2 DEF TakeDeaths, TypeOK
<1>3. CASE RemovalDone \/ NotifyManager \/ FinishDeath
  <2>1. CASE RemovalDone
    BY <2>1 DEF RemovalDone, TypeOK
  <2>2. CASE NotifyManager
    BY <2>2 DEF NotifyManager, TypeOK
  <2>3. CASE FinishDeath
    <3>1. handling \in Replica
      BY <2>3 DEF FinishDeath, IInv, Locking, TypeOK
    <3> QED BY <2>3, <3>1 DEF FinishDeath, TypeOK
  <2> QED BY <1>3, <2>1, <2>2, <2>3
<1>4. CASE RemovalFails
  <2>1. lbCalls' \in Seq(CallType)
    BY <1>0, <1>4, Loses DEF RemovalFails
  <2>2. handling \in Replica
    BY <1>4 DEF RemovalFails, IInv, Locking, TypeOK
  <2> QED BY <1>4, <2>1, <2>2 DEF RemovalFails, TypeOK, CallType
<1>5. CASE Stop \/ CancelProbes \/ CancelConsumer
  BY <1>5 DEF Stop, CancelProbes, CancelConsumer, TypeOK
<1>6. CASE Execute
  <2>1. lbCalls' \in Seq(CallType) /\ Head(lbCalls) \in CallType
    BY <1>0, <1>6, Executes DEF Execute
  <2>2. Head(lbCalls).replica \in Replica
    BY <2>1 DEF CallType
  <2> QED BY <1>6, <2>1, <2>2 DEF Execute, TypeOK, CallType
<1>7. ASSUME NEW r \in Replica, ProbeOk(r) PROVE TypeOK'
  BY <1>7 DEF ProbeOk, TypeOK
<1>8. ASSUME NEW r \in Replica, ProbeMiss(r) PROVE TypeOK'
  <2>1. r \notin dead => misses[r] + 1 \in 0..MissThreshold
    BY DEF IInv, Deaths, TypeOK
  <2> QED BY <1>8, <2>1 DEF ProbeMiss, Enqueue, TypeOK
<1>9. ASSUME NEW r \in Replica, ReportFailure(r) PROVE TypeOK'
  <2>1. misses' \in [Replica -> 0..MissThreshold]
    <3>1. misses' = misses \/ misses' = [misses EXCEPT ![r] = MissThreshold]
      BY <1>9 DEF ReportFailure
    <3>2. MissThreshold \in 0..MissThreshold
      OBVIOUS
    <3> QED BY <3>1, <3>2 DEF TypeOK
  <2>2. dead' \subseteq Replica /\ pending' \subseteq Replica /\ tokens' \in Nat
    BY <1>9 DEF ReportFailure, Enqueue, TypeOK
  <2> QED BY <1>9, <2>1, <2>2 DEF ReportFailure, TypeOK
<1>10. ASSUME NEW r \in Replica, StartDeath(r) PROVE TypeOK'
  <2>1. lbCalls' \in Seq(CallType)
    BY <1>0, <1>10, CallIs, Sends DEF StartDeath
  <2> QED BY <1>10, <2>1 DEF StartDeath, TypeOK, CallType
<1>11. ASSUME NEW d \in Replica, NEW n \in Replica, Spawn(d, n) PROVE TypeOK'
  BY <1>11 DEF Spawn, TypeOK
<1>12. ASSUME NEW d \in Replica, SpawnFails(d) PROVE TypeOK'
  BY <1>12 DEF SpawnFails, TypeOK
<1>13. ASSUME NEW d \in Replica, RegisterPending(d) \/ RegistrationFails(d) PROVE TypeOK'
  BY <1>13 DEF RegisterPending, RegistrationFails, TypeOK
<1>14. ASSUME NEW d \in Replica, AddReplica(d) PROVE TypeOK'
  BY <1>14 DEF AddReplica, TypeOK
<1>15. ASSUME NEW n \in Replica, AskPromotion(n) \/ EndPromotion(n) \/ Publish(n) PROVE TypeOK'
  BY <1>15 DEF AskPromotion, EndPromotion, Publish, TypeOK
<1>16. ASSUME NEW n \in Replica, StartPromotion(n) PROVE TypeOK'
  <2>1. lbCalls' \in Seq(CallType)
    BY <1>0, <1>16, CallIs, Sends DEF StartPromotion
  <2> QED BY <1>16, <2>1 DEF StartPromotion, TypeOK, CallType
<1>17. ASSUME NEW n \in Replica, PromotionFails(n) PROVE TypeOK'
  <2>1. lbCalls' \in Seq(CallType)
    BY <1>0, <1>17, Loses DEF PromotionFails
  <2> QED BY <1>17, <2>1 DEF PromotionFails, TypeOK, CallType
<1>18. ASSUME NEW r \in Replica, SyncFails(r) \/ Die(r) PROVE TypeOK'
  BY <1>18 DEF SyncFails, Die, TypeOK
<1> QED BY <1>1, <1>2, <1>3, <1>4, <1>5, <1>6, <1>7, <1>8, <1>9, <1>10, <1>11, <1>12,
           <1>13, <1>14, <1>15, <1>16, <1>17, <1>18
        DEF Next, Consume, Watch, Replace, Admission

-----------------------------------------------------------------------------
(***************************************************************************)
(* Every step keeps the invariant: one lemma per part of it.                 *)
(***************************************************************************)

\* The lock: one holder at a time.
LEMMA StepLocking == IInv /\ Next => Locking'
<1> SUFFICES ASSUME TypeOK, Locking, Next PROVE Locking'
  BY DEF IInv
<1> USE Names DEF Locking
<1>1. CASE UNCHANGED <<promoting, lock, handling, step>>
  BY <1>1
<1>2. CASE RemovalDone \/ RemovalFails \/ NotifyManager
  BY <1>2 DEF RemovalDone, RemovalFails, NotifyManager
<1>3. CASE FinishDeath
  BY <1>3 DEF FinishDeath
<1>4. CASE CancelConsumer
  BY <1>4 DEF CancelConsumer
<1>5. ASSUME NEW r \in Replica, StartDeath(r) PROVE Locking'
  BY <1>5 DEF StartDeath
<1>6. ASSUME NEW n \in Replica, AskPromotion(n) \/ Publish(n) PROVE Locking'
  BY <1>6 DEF AskPromotion, Publish, TypeOK
<1>7. ASSUME NEW n \in Replica, StartPromotion(n) PROVE Locking'
  BY <1>7 DEF StartPromotion, TypeOK
<1>8. ASSUME NEW n \in Replica, EndPromotion(n) \/ PromotionFails(n) PROVE Locking'
  <2>1. promoting[n] = "adding" /\ lock' = None /\ UNCHANGED <<handling, step>>
    BY <1>8 DEF EndPromotion, PromotionFails
  <2>2. \A r \in Replica : promoting'[r] # "adding"
    BY <1>8, <2>1 DEF EndPromotion, PromotionFails, TypeOK
  <2> QED BY <2>1, <2>2
<1>9. CASE Tick \/ TakeDeaths \/ Stop \/ CancelProbes \/ Execute
  BY <1>1, <1>9 DEF Tick, TakeDeaths, Stop, CancelProbes, Execute
<1>10. ASSUME NEW r \in Replica, ProbeOk(r) \/ ProbeMiss(r) \/ ReportFailure(r) \/ SyncFails(r) \/ Die(r)
       PROVE  Locking'
  BY <1>1, <1>10 DEF ProbeOk, ProbeMiss, ReportFailure, SyncFails, Die
<1>11. ASSUME NEW d \in Replica, Replace(d) PROVE Locking'
  BY <1>1, <1>11
     DEF Replace, Spawn, SpawnFails, RegisterPending, RegistrationFails, AddReplica
<1> QED BY <1>2, <1>3, <1>4, <1>5, <1>6, <1>7, <1>8, <1>9, <1>10, <1>11
        DEF Next, Consume, Watch, Admission

\* The queue of calls agrees with the promotions and the deaths.
LEMMA StepQueue == IInv /\ Next => Queue'
<1> SUFFICES ASSUME IInv, Next PROVE Queue'
  OBVIOUS
<1>0. TypeOK /\ Queue /\ Locking /\ Deaths /\ lbCalls \in Seq(CallType)
  BY DEF IInv, TypeOK, CallType
<1> USE Names, <1>0
<1>1. CASE UNCHANGED <<lbCalls, promoting>> /\ handled \subseteq handled'
  BY <1>1 DEF Queue, Single, Queued
<1>2. CASE Tick \/ TakeDeaths \/ RemovalDone \/ NotifyManager \/ FinishDeath \/ Stop
             \/ CancelProbes \/ CancelConsumer
  BY <1>1, <1>2 DEF Tick, TakeDeaths, RemovalDone, NotifyManager, FinishDeath, Stop,
                    CancelProbes, CancelConsumer
<1>3. ASSUME NEW r \in Replica, ProbeOk(r) \/ ProbeMiss(r) \/ ReportFailure(r) \/ SyncFails(r) \/ Die(r)
      PROVE  Queue'
  BY <1>1, <1>3 DEF ProbeOk, ProbeMiss, ReportFailure, SyncFails, Die
<1>4. ASSUME NEW d \in Replica, Replace(d) PROVE Queue'
  BY <1>1, <1>4
     DEF Replace, Spawn, SpawnFails, RegisterPending, RegistrationFails, AddReplica
<1>5. CASE RemovalFails
  <2>1. /\ \A d : Queued(d)' => Queued(d)
        /\ Single'
    BY <1>5, Loses DEF RemovalFails, Queue
  <2>2. UNCHANGED <<promoting, handled>>
    BY <1>5 DEF RemovalFails
  <2> QED BY <2>1, <2>2 DEF Queue
<1>6. CASE Execute
  <2>1. /\ \A d : Queued(d)' => Queued(d)
        /\ Single'
    BY <1>6, Executes DEF Execute, Queue
  <2>2. UNCHANGED <<promoting, handled>>
    BY <1>6 DEF Execute
  <2> QED BY <2>1, <2>2 DEF Queue
<1>7. ASSUME NEW r \in Replica, StartDeath(r) PROVE Queue'
  <2>1. r \notin handled
    BY <1>7 DEF StartDeath, Deaths
  <2>2. Call("remove", r) \in CallType /\ ~Queued(Call("remove", r))
    BY <2>1, CallIs DEF Queue
  <2>3. (\A d : Queued(d)' <=> Queued(d) \/ d = Call("remove", r)) /\ Single'
    BY <1>7, <2>2, Sends DEF StartDeath, Queue
  <2>4. UNCHANGED promoting /\ handled' = handled \cup {r}
    BY <1>7 DEF StartDeath
  <2> QED BY <2>3, <2>4, CallIs DEF Queue
<1>8. ASSUME NEW n \in Replica, AskPromotion(n) \/ Publish(n) PROVE Queue'
  <2>1. UNCHANGED <<lbCalls, handled>> /\ promoting[n] # "adding"
    BY <1>8 DEF AskPromotion, Publish
  <2>2. \A r \in Replica : promoting[r] = "adding" => promoting'[r] = "adding"
    BY <1>8, <2>1 DEF AskPromotion, Publish, TypeOK
  <2> QED BY <2>1, <2>2 DEF Queue, Single, Queued
<1>9. ASSUME NEW n \in Replica, StartPromotion(n) PROVE Queue'
  <2>1. promoting[n] = "asked" /\ UNCHANGED handled
    BY <1>9 DEF StartPromotion
  <2>2. CASE n \notin supervised \/ n \in dead
    <3>1. UNCHANGED lbCalls
      BY <1>9, <2>2 DEF StartPromotion
    <3>2. \A r \in Replica : promoting[r] = "adding" => promoting'[r] = "adding"
      BY <1>9, <2>1, <2>2 DEF StartPromotion, TypeOK
    <3> QED BY <2>1, <3>1, <3>2 DEF Queue, Single, Queued
  <2>3. CASE ~(n \notin supervised \/ n \in dead)
    <3>1. Call("add", n) \in CallType /\ ~Queued(Call("add", n))
      BY <2>1, CallIs DEF Queue
    <3>2. lbCalls' = Append(lbCalls, Call("add", n))
      BY <1>9, <2>3 DEF StartPromotion
    <3>3. (\A d : Queued(d)' <=> Queued(d) \/ d = Call("add", n)) /\ Single'
      BY <3>1, <3>2, Sends DEF Queue
    <3>4. promoting' = [promoting EXCEPT ![n] = "adding"]
      BY <1>9, <2>3 DEF StartPromotion
    <3>5. \A r \in Replica : r = n \/ promoting[r] = "adding" => promoting'[r] = "adding"
      BY <3>4 DEF TypeOK
    <3> QED BY <2>1, <3>3, <3>5, CallIs DEF Queue
  <2> QED BY <2>2, <2>3
<1>10. ASSUME NEW n \in Replica, EndPromotion(n) PROVE Queue'
  <2>1. UNCHANGED <<lbCalls, handled>> /\ ~Queued(Call("add", n))
    BY <1>10 DEF EndPromotion
  <2>2. \A r \in Replica : r # n => promoting'[r] = promoting[r]
    BY <1>10 DEF EndPromotion, TypeOK
  <2> QED BY <2>1, <2>2 DEF Queue, Single, Queued
<1>11. ASSUME NEW n \in Replica, PromotionFails(n) PROVE Queue'
  <2>1. /\ \A d : Queued(d)' => Queued(d)
        /\ Single' /\ ~Queued(Call("add", n))'
    <3>1. ASSUME NEW c, c = Call("add", n)
          PROVE  (\A d : Queued(d)' => Queued(d)) /\ Single' /\ ~Queued(c)'
      BY <1>11, <3>1, Loses DEF PromotionFails, Queue
    <3> QED BY <3>1 DEF Call
  <2>2. \A r \in Replica : r # n => promoting'[r] = promoting[r]
    BY <1>11 DEF PromotionFails, TypeOK
  <2>3. UNCHANGED handled
    BY <1>11 DEF PromotionFails
  <2> QED BY <2>1, <2>2, <2>3 DEF Queue
<1> QED BY <1>2, <1>3, <1>4, <1>5, <1>6, <1>7, <1>8, <1>9, <1>10, <1>11
        DEF Next, Consume, Watch, Admission

\* The drain of the queue never drops a death: it happens before the snapshot.
LEMMA StepNoLost == IInv /\ Next => NoLostDeath'
<1> SUFFICES ASSUME TypeOK, NoLostDeath, Deaths, Next PROVE NoLostDeath'
  BY DEF IInv
<1> USE DEF NoLostDeath
<1>1. CASE UNCHANGED <<stopped, pending, batch, tokens>>
  BY <1>1
<1>2. CASE TakeDeaths \/ FinishDeath \/ Stop \/ CancelConsumer
  BY <1>2 DEF TakeDeaths, FinishDeath, Stop, CancelConsumer
<1>3. ASSUME NEW r \in Replica, ProbeMiss(r) \/ ReportFailure(r) PROVE NoLostDeath'
  <2>1. UNCHANGED <<stopped, pending, batch, tokens>> \/ tokens' = tokens + 1
    BY <1>3 DEF ProbeMiss, ReportFailure, Enqueue
  <2> QED BY <2>1 DEF TypeOK
<1>4. CASE Tick \/ RemovalDone \/ RemovalFails \/ NotifyManager \/ CancelProbes \/ Execute
  BY <1>1, <1>4 DEF Tick, RemovalDone, RemovalFails, NotifyManager, CancelProbes, Execute
<1>5. ASSUME NEW r \in Replica, ProbeOk(r) \/ StartDeath(r) \/ SyncFails(r) \/ Die(r)
      PROVE  NoLostDeath'
  BY <1>1, <1>5 DEF ProbeOk, StartDeath, SyncFails, Die
<1>6. ASSUME NEW d \in Replica, Replace(d) PROVE NoLostDeath'
  BY <1>1, <1>6
     DEF Replace, Spawn, SpawnFails, RegisterPending, RegistrationFails, AddReplica
<1>7. ASSUME NEW n \in Replica, Admission(n) PROVE NoLostDeath'
  BY <1>1, <1>7
     DEF Admission, AskPromotion, StartPromotion, EndPromotion, PromotionFails, Publish
<1> QED BY <1>2, <1>3, <1>4, <1>5, <1>6, <1>7 DEF Next, Consume, Watch

\* A replica that is added was never dead: add_replica revives nobody.
LEMMA AddsTheLiving ==
  ASSUME IInv, NEW d \in Replica, AddReplica(d)
  PROVE  product[d] \in Replica \ supervised /\ UNCHANGED dead
<1>1. product[d] \in Replica
  BY DEF AddReplica, IInv, TypeOK
<1>2. product[d] \notin supervised
  BY DEF AddReplica, IInv, Replacements
<1>3. product[d] \notin dead
  BY <1>2 DEF IInv, Deaths
<1> QED BY <1>1, <1>2, <1>3 DEF AddReplica

\* What a replica that becomes dead disturbs.
LEMMA Declares ==
  ASSUME IInv, NEW r \in Replica, ProbeMiss(r) \/ ReportFailure(r)
  PROVE  \/ UNCHANGED <<dead, pending>> /\ \A s \in Replica \ dead : misses'[s] < MissThreshold
         \/ /\ r \in supervised \ dead
            /\ dead' = dead \cup {r} /\ pending' = pending \cup {r}
            /\ \A s \in Replica \ {r} : misses'[s] = misses[s]
<1> USE Names
<1>1. TypeOK /\ probing \subseteq supervised /\ \A s \in Replica \ dead : misses[s] < MissThreshold
  BY DEF IInv, Deaths
<1>2. CASE ProbeMiss(r)
  <2>1. CASE r \in dead
    BY <1>1, <1>2, <2>1 DEF ProbeMiss
  <2>2. CASE r \notin dead
    <3>1. r \in supervised /\ misses' = [misses EXCEPT ![r] = @ + 1]
      BY <1>1, <1>2, <2>2 DEF ProbeMiss
    <3>2. misses'[r] = misses[r] + 1 /\ \A s \in Replica \ {r} : misses'[s] = misses[s]
      BY <1>1, <3>1 DEF TypeOK
    <3>3. CASE misses[r] + 1 >= MissThreshold
      BY <1>2, <2>2, <3>1, <3>2, <3>3 DEF ProbeMiss, Enqueue
    <3>4. CASE ~(misses[r] + 1 >= MissThreshold)
      <4>1. UNCHANGED <<dead, pending>>
        BY <1>2, <2>2, <3>4 DEF ProbeMiss
      <4>2. misses[r] \in Nat
        BY <1>1 DEF TypeOK
      <4>3. misses'[r] < MissThreshold
        BY <4>2, <3>2, <3>4
      <4> QED BY <1>1, <4>1, <4>3, <3>2
    <3> QED BY <3>3, <3>4
  <2> QED BY <2>1, <2>2
<1>3. CASE ReportFailure(r)
  <2>1. CASE r \notin supervised \/ r \in dead \cup pending
    BY <1>1, <1>3, <2>1 DEF ReportFailure
  <2>2. CASE ~(r \notin supervised \/ r \in dead \cup pending)
    <3>1. \A s \in Replica \ {r} : misses'[s] = misses[s]
      BY <1>1, <1>3, <2>2 DEF ReportFailure, TypeOK
    <3> QED BY <1>3, <2>2, <3>1 DEF ReportFailure, Enqueue
  <2> QED BY <2>1, <2>2
<1> QED BY <1>2, <1>3

\* A death is handled once.
LEMMA StepDeaths == IInv /\ Next => Deaths'
<1> SUFFICES ASSUME IInv, Next PROVE Deaths'
  OBVIOUS
<1>0. TypeOK /\ Deaths /\ Locking
  BY DEF IInv
<1> USE Names, <1>0 DEF Deaths
<1>1. CASE UNCHANGED <<supervised, misses, dead, pending, probing, batch, handling, handled, lost>>
  BY <1>1
<1>2. CASE Tick \/ CancelProbes
  BY <1>2 DEF Tick, CancelProbes
<1>3. CASE TakeDeaths
  <2>1. handling = None
    BY <1>3 DEF TakeDeaths
  <2> QED BY <1>3, <2>1 DEF TakeDeaths
<1>4. CASE RemovalDone \/ NotifyManager \/ Stop \/ Execute
  BY <1>1, <1>4 DEF RemovalDone, NotifyManager, Stop, Execute
<1>5. CASE RemovalFails
  BY <1>5 DEF RemovalFails
<1>6. CASE FinishDeath
  <2>1. handling \in handled
    BY <1>6 DEF FinishDeath, Locking
  <2> QED BY <1>6, <2>1 DEF FinishDeath
<1>7. CASE CancelConsumer
  <2>1. PICK r \in batch : handling \in {None, r} /\ pending' = pending \ {r}
    BY <1>7 DEF CancelConsumer
  <2>2. /\ batch' = {} /\ handling' = None /\ lost' = lost \cup batch
        /\ UNCHANGED <<supervised, misses, dead, probing, handled>>
    BY <1>7 DEF CancelConsumer
  <2> QED BY <2>1, <2>2
<1>8. ASSUME NEW r \in Replica, ProbeOk(r) PROVE Deaths'
  <2>1. UNCHANGED <<supervised, dead, pending, batch, handling, handled, lost>>
        /\ probing' \subseteq probing
    BY <1>8 DEF ProbeOk
  <2>2. \A s \in Replica \ dead : misses'[s] < MissThreshold
    BY <1>8 DEF ProbeOk, TypeOK
  <2> QED BY <2>1, <2>2
<1>9. ASSUME NEW r \in Replica, ProbeMiss(r) \/ ReportFailure(r) PROVE Deaths'
  <2>1. /\ UNCHANGED <<supervised, batch, handling, handled, lost>>
        /\ probing' \subseteq probing
    BY <1>9 DEF ProbeMiss, ReportFailure
  <2> QED BY <1>9, <2>1, Declares
<1>10. ASSUME NEW r \in Replica, StartDeath(r) PROVE Deaths'
  <2>1. /\ r \in batch /\ handling = None /\ handling' = r /\ handled' = handled \cup {r}
        /\ UNCHANGED <<supervised, misses, dead, pending, probing, batch, lost>>
    BY <1>10 DEF StartDeath
  <2>2. None \notin pending
    BY DEF TypeOK
  <2> QED BY <2>1, <2>2
<1>11. ASSUME NEW r \in Replica, SyncFails(r) \/ Die(r) PROVE Deaths'
  BY <1>1, <1>11 DEF SyncFails, Die
<1>12. ASSUME NEW d \in Replica, AddReplica(d) PROVE Deaths'
  <2>1. /\ UNCHANGED <<dead, pending, probing, batch, handling, handled, lost>>
        /\ supervised \subseteq supervised'
    BY <1>12, AddsTheLiving DEF AddReplica
  <2>2. \A s \in Replica \ dead : misses'[s] < MissThreshold
    BY <1>12 DEF AddReplica, TypeOK
  <2> QED BY <2>1, <2>2
<1>13. ASSUME NEW d \in Replica, NEW n \in Replica,
              Spawn(d, n) \/ SpawnFails(d) \/ RegisterPending(d) \/ RegistrationFails(d)
       PROVE  Deaths'
  BY <1>1, <1>13 DEF Spawn, SpawnFails, RegisterPending, RegistrationFails
<1>14. ASSUME NEW n \in Replica, Admission(n) PROVE Deaths'
  BY <1>1, <1>14
     DEF Admission, AskPromotion, StartPromotion, EndPromotion, PromotionFails, Publish
<1> QED BY <1>2, <1>3, <1>4, <1>5, <1>6, <1>7, <1>8, <1>9, <1>10, <1>11, <1>12, <1>13, <1>14
        DEF Next, Consume, Watch, Replace

\* What a replacement brings up is new, and each task brings up its own.
LEMMA StepReplacements == IInv /\ Next => Replacements'
<1> SUFFICES ASSUME IInv, Next PROVE Replacements'
  OBVIOUS
<1>0. TypeOK /\ Replacements /\ Deaths /\ Locking
  BY DEF IInv
<1> USE Names, <1>0 DEF Replacements
<1>1. CASE UNCHANGED <<supervised, spawning, product, handling, handled>>
  BY <1>1
<1>2. CASE Tick \/ TakeDeaths \/ RemovalDone \/ RemovalFails \/ NotifyManager \/ Stop
             \/ CancelProbes \/ Execute
  BY <1>1, <1>2 DEF Tick, TakeDeaths, RemovalDone, RemovalFails, NotifyManager, Stop,
                    CancelProbes, Execute
<1>3. ASSUME NEW r \in Replica, ProbeOk(r) \/ ProbeMiss(r) \/ ReportFailure(r) \/ SyncFails(r) \/ Die(r)
      PROVE  Replacements'
  BY <1>1, <1>3 DEF ProbeOk, ProbeMiss, ReportFailure, SyncFails, Die
<1>4. ASSUME NEW n \in Replica, Admission(n) PROVE Replacements'
  BY <1>1, <1>4
     DEF Admission, AskPromotion, StartPromotion, EndPromotion, PromotionFails, Publish
<1>5. ASSUME NEW r \in Replica, StartDeath(r) PROVE Replacements'
  <2>1. /\ r \notin handled /\ handling' = r /\ handled' = handled \cup {r}
        /\ UNCHANGED <<supervised, spawning, product>>
    BY <1>5 DEF StartDeath, Deaths
  <2> QED BY <2>1
<1>6. CASE FinishDeath
  <2>1. /\ handling \in handled /\ handling \in Replica /\ handling' = None
        /\ spawning' = spawning \cup {handling} /\ UNCHANGED <<supervised, product, handled>>
    BY <1>6 DEF FinishDeath, Locking, Deaths, TypeOK
  <2>2. product[handling] = None /\ None \notin supervised
    BY <2>1 DEF TypeOK
  <2> QED BY <2>1, <2>2
<1>7. CASE CancelConsumer
  <2>1. handling' = None /\ UNCHANGED <<supervised, spawning, product, handled>>
    BY <1>7 DEF CancelConsumer
  <2> QED BY <2>1
<1>8. ASSUME NEW d \in Replica, NEW n \in Replica, Spawn(d, n) PROVE Replacements'
  <2>1. /\ d \in spawning /\ product[d] = None
        /\ n \notin Initial /\ n \notin {product[e] : e \in Replica}
        /\ UNCHANGED <<supervised, spawning, handling, handled>>
    BY <1>8 DEF Spawn, NewIds
  <2>2. product'[d] = n /\ \A e \in Replica \ {d} : product'[e] = product[e]
    BY <1>8 DEF Spawn, TypeOK
  <2>3. n \notin supervised
    BY <2>1
  <2>4. \A r \in supervised : r \in Initial \/ \E e \in Replica : product'[e] = r
    <3> SUFFICES ASSUME NEW r \in supervised, r \notin Initial
                 PROVE  \E e \in Replica : product'[e] = r
      OBVIOUS
    <3>1. PICK e \in Replica : product[e] = r
      OBVIOUS
    <3>2. e # d
      BY <3>1, <2>1 DEF TypeOK
    <3> QED BY <3>1, <3>2, <2>2
  <2>5. \A e \in Replica : product'[e] # None => product[e] # None \/ e = d
    BY <2>2
  <2>6. \A e \in Replica : e \in spawning \/ product'[e] # None => e \in handled /\ e # handling
    BY <2>1, <2>5
  <2>7. \A e \in Replica : product'[e] \notin Initial
    BY <2>1, <2>2
  <2>8. \A e, f \in Replica : product'[e] = product'[f] => e = f \/ product'[e] = None
    BY <2>1, <2>2
  <2>9. \A e \in spawning : product'[e] \notin supervised
    BY <2>1, <2>2, <2>3 DEF TypeOK
  <2> QED BY <2>1, <2>4, <2>6, <2>7, <2>8, <2>9
<1>9. ASSUME NEW d \in Replica, SpawnFails(d) \/ RegisterPending(d) \/ RegistrationFails(d)
      PROVE  Replacements'
  <2>1. spawning' \subseteq spawning /\ UNCHANGED <<supervised, product, handling, handled>>
    BY <1>9 DEF SpawnFails, RegisterPending, RegistrationFails
  <2> QED BY <2>1
<1>10. ASSUME NEW d \in Replica, AddReplica(d) PROVE Replacements'
  <2>1. /\ d \in spawning /\ spawning' = spawning \ {d}
        /\ supervised' = supervised \cup {product[d]}
        /\ UNCHANGED <<product, handling, handled>>
    BY <1>10 DEF AddReplica
  <2>2. product[d] # None
    BY <1>10, AddsTheLiving
  <2>3. \A e \in spawning' : product[e] # product[d]
    BY <2>1, <2>2 DEF TypeOK
  <2> QED BY <2>1, <2>3
<1> QED BY <1>2, <1>3, <1>4, <1>5, <1>6, <1>7, <1>8, <1>9, <1>10
        DEF Next, Consume, Watch, Replace

\* What on_dead took out of the traffic stays out.
LEMMA StepStaysOut == IInv /\ Next => StaysOut'
<1> SUFFICES ASSUME IInv, Next PROVE StaysOut'
  OBVIOUS
<1>0. /\ TypeOK /\ StaysOut /\ Queue /\ Deaths /\ Locking /\ lbCalls \in Seq(CallType)
      /\ handled \subseteq Replica
  BY DEF IInv, TypeOK, CallType
<1> USE Names, <1>0 DEF StaysOut
<1>1. CASE UNCHANGED <<handled, lbCalls, routed>> /\ lost \subseteq lost'
  BY <1>1 DEF Queued
<1>2. CASE Tick \/ TakeDeaths \/ RemovalDone \/ NotifyManager \/ FinishDeath \/ Stop
             \/ CancelProbes \/ CancelConsumer
  BY <1>1, <1>2 DEF Tick, TakeDeaths, RemovalDone, NotifyManager, FinishDeath, Stop,
                    CancelProbes, CancelConsumer
<1>3. ASSUME NEW r \in Replica, ProbeOk(r) \/ ProbeMiss(r) \/ ReportFailure(r) \/ SyncFails(r) \/ Die(r)
      PROVE  StaysOut'
  BY <1>1, <1>3 DEF ProbeOk, ProbeMiss, ReportFailure, SyncFails, Die
<1>4. ASSUME NEW d \in Replica, Replace(d) PROVE StaysOut'
  BY <1>1, <1>4
     DEF Replace, Spawn, SpawnFails, RegisterPending, RegistrationFails, AddReplica
<1>5. ASSUME NEW n \in Replica, AskPromotion(n) \/ EndPromotion(n) \/ Publish(n) PROVE StaysOut'
  BY <1>1, <1>5 DEF AskPromotion, EndPromotion, Publish
<1>6. CASE RemovalFails
  <2>1. \A c : Queued(c) <=> Queued(c)' \/ (c = Call("remove", handling) /\ Queued(c))
    <3>1. ASSUME NEW x, x = Call("remove", handling)
          PROVE  \A c : Queued(c) <=> Queued(c)' \/ (c = x /\ Queued(x))
      BY <1>6, <3>1, Loses DEF RemovalFails
    <3> QED BY <3>1
  <2>2. lost' = lost \cup {handling} /\ UNCHANGED <<handled, routed>>
    BY <1>6 DEF RemovalFails
  <2>3. \A r : Call("remove", r) = Call("remove", handling) => r = handling
    BY CallIs
  <2>4. ASSUME NEW r \in handled
        PROVE  /\ ~Queued(Call("add", r))'
               /\ r \in routed /\ r \notin lost' => Queued(Call("remove", r))'
    <3>1. ASSUME NEW a, a = Call("add", r) PROVE ~Queued(a)'
      BY <2>1, <3>1
    <3>2. ASSUME NEW c, c = Call("remove", r), r \in routed, r \notin lost' PROVE Queued(c)'
      BY <2>1, <2>2, <2>3, <3>2
    <3> QED BY <3>1, <3>2 DEF Call
  <2> QED BY <2>2, <2>4
<1>7. CASE Execute
  <2> DEFINE c == Head(lbCalls)
  <2>1. /\ c \in CallType /\ Queued(c)
        /\ \A d : Queued(d) <=> Queued(d)' \/ d = c
    BY <1>7, Executes DEF Execute
  <2>2. /\ routed' = IF c.op = "add" THEN routed \cup {c.replica} ELSE routed \ {c.replica}
        /\ UNCHANGED <<handled, lost>>
    BY <1>7 DEF Execute
  <2> HIDE DEF c
  <2>3. ASSUME NEW r \in handled
        PROVE  /\ ~Queued(Call("add", r))'
               /\ r \in routed' /\ r \notin lost' => Queued(Call("remove", r))'
    <3>1. ASSUME NEW a, a = Call("add", r) PROVE ~Queued(a)'
      BY <2>1, <3>1
    <3>2. c # Call("add", r)
      BY <2>1
    <3>3. ASSUME NEW x, x = Call("remove", r), r \in routed', r \notin lost' PROVE Queued(x)'
      <4>1. r \in routed
        BY <2>1, <2>2, <3>2, <3>3, CallIs
      <4>2. Queued(x)
        BY <4>1, <2>2, <3>3
      <4>3. x # c
        BY <2>1, <2>2, <3>3, CallIs
      <4> QED BY <4>2, <4>3, <2>1
    <3> QED BY <3>1, <3>3 DEF Call
  <2> QED BY <2>2, <2>3
<1>8. ASSUME NEW r \in Replica, StartDeath(r) PROVE StaysOut'
  <2>1. /\ lbCalls' = Append(lbCalls, Call("remove", r)) /\ handled' = handled \cup {r}
        /\ lock = None /\ UNCHANGED <<routed, lost>>
    BY <1>8 DEF StartDeath
  <2>2. \A d : Queued(d)' <=> Queued(d) \/ d = Call("remove", r)
    BY <2>1, CallIs, Sends
  <2>3. ~Queued(Call("add", r))
    BY <2>1 DEF Queue, Locking
  <2> QED BY <2>1, <2>2, <2>3, CallIs
<1>9. ASSUME NEW n \in Replica, StartPromotion(n) PROVE StaysOut'
  <2>1. UNCHANGED <<handled, routed, lost>>
    BY <1>9 DEF StartPromotion
  <2>2. CASE UNCHANGED lbCalls
    BY <2>1, <2>2, <1>1
  <2>3. CASE n \notin dead /\ lbCalls' = Append(lbCalls, Call("add", n))
    <3>1. \A d : Queued(d)' <=> Queued(d) \/ d = Call("add", n)
      BY <2>3, CallIs, Sends
    <3>2. n \notin handled
      BY <2>3 DEF Deaths
    <3> QED BY <2>1, <3>1, <3>2, CallIs
  <2> QED BY <1>9, <2>2, <2>3 DEF StartPromotion
<1>10. ASSUME NEW n \in Replica, PromotionFails(n) PROVE StaysOut'
  <2>1. \A d : Queued(d) <=> Queued(d)' \/ (d = Call("add", n) /\ Queued(d))
    <3>1. ASSUME NEW x, x = Call("add", n)
          PROVE  \A c : Queued(c) <=> Queued(c)' \/ (c = x /\ Queued(x))
      BY <1>10, <3>1, Loses DEF PromotionFails
    <3> QED BY <3>1 DEF Call
  <2>2. UNCHANGED <<handled, routed, lost>>
    BY <1>10 DEF PromotionFails
  <2> QED BY <2>1, <2>2, CallIs
<1> QED BY <1>2, <1>3, <1>4, <1>5, <1>6, <1>7, <1>8, <1>9, <1>10
        DEF Next, Consume, Watch, Admission

\* A promotion is acknowledged only after its addition was executed, and what
\* removes a replica from the traffic is its death.
LEMMA StepPromoted == IInv /\ Next => Promoted'
<1> SUFFICES ASSUME IInv, Next PROVE Promoted'
  OBVIOUS
<1>0. /\ TypeOK /\ Promoted /\ Queue /\ Deaths /\ Locking /\ lbCalls \in Seq(CallType)
      /\ handled \subseteq dead
  BY DEF IInv, TypeOK, CallType, Deaths
<1> USE Names, <1>0 DEF Promoted
<1>1. CASE UNCHANGED <<promoting, lbCalls, routed>> /\ active' \subseteq active /\ dead \subseteq dead'
  BY <1>1 DEF Queued
<1>2. CASE Tick \/ TakeDeaths \/ RemovalDone \/ NotifyManager \/ FinishDeath \/ Stop
             \/ CancelProbes \/ CancelConsumer
  BY <1>1, <1>2 DEF Tick, TakeDeaths, RemovalDone, NotifyManager, FinishDeath, Stop,
                    CancelProbes, CancelConsumer
<1>3. ASSUME NEW r \in Replica, ProbeOk(r) \/ ProbeMiss(r) \/ ReportFailure(r) \/ SyncFails(r) \/ Die(r)
      PROVE  Promoted'
  BY <1>1, <1>3 DEF ProbeOk, ProbeMiss, ReportFailure, Enqueue, SyncFails, Die
<1>4. ASSUME NEW d \in Replica, Replace(d) PROVE Promoted'
  <2>1. CASE AddReplica(d)
    BY <1>1, <2>1, AddsTheLiving DEF AddReplica
  <2> QED BY <1>1, <1>4, <2>1 DEF Replace, Spawn, SpawnFails, RegisterPending, RegistrationFails
<1>5. CASE RemovalFails
  <2>1. \A r \in Replica : Queued(Call("add", r)) => Queued(Call("add", r))'
    <3>1. ASSUME NEW x, x = Call("remove", handling)
          PROVE  \A c : Queued(c) /\ c # x => Queued(c)'
      BY <1>5, <3>1, Loses DEF RemovalFails
    <3>2. handling \in Replica
      BY <1>5 DEF RemovalFails, Locking, TypeOK
    <3>3. ASSUME NEW r \in Replica, NEW a, a = Call("add", r), Queued(a) PROVE Queued(a)'
      BY <3>1, <3>2, <3>3, CallIs
    <3> QED BY <3>3 DEF Call
  <2>2. UNCHANGED <<promoting, routed, active, dead>>
    BY <1>5 DEF RemovalFails
  <2> QED BY <2>1, <2>2
<1>6. CASE Execute
  <2> DEFINE c == Head(lbCalls)
  <2>1. /\ c \in CallType /\ Queued(c)
        /\ \A d : Queued(d) => Queued(d)' \/ d = c
    BY <1>6, Executes DEF Execute
  <2>2. /\ routed' = IF c.op = "add" THEN routed \cup {c.replica} ELSE routed \ {c.replica}
        /\ UNCHANGED <<promoting, active, dead>>
    BY <1>6 DEF Execute
  <2> HIDE DEF c
  <2>3. ASSUME NEW r \in Replica \ dead PROVE r \in routed => r \in routed'
    <3>1. c # Call("remove", r)
      BY <2>1, <2>3 DEF Queue
    <3> QED BY <3>1, <2>1, <2>2, CallIs
  <2>4. ASSUME NEW r \in Replica \ dead, NEW a, a = Call("add", r), Queued(a)
        PROVE  r \in routed' \/ Queued(a)'
    BY <2>1, <2>2, <2>4, CallIs
  <2> QED BY <2>2, <2>3, <2>4 DEF Call
<1>7. ASSUME NEW r \in Replica, StartDeath(r) PROVE Promoted'
  <2>1. \A d : Queued(d) => Queued(d)'
    BY <1>7, CallIs, Sends DEF StartDeath
  <2>2. UNCHANGED <<promoting, routed, active, dead>>
    BY <1>7 DEF StartDeath
  <2> QED BY <2>1, <2>2
<1>8. ASSUME NEW n \in Replica, AskPromotion(n) PROVE Promoted'
  <2>1. UNCHANGED <<lbCalls, routed, active, dead>>
    BY <1>8 DEF AskPromotion
  <2>2. \A r \in Replica : promoting'[r] = promoting[r] \/ promoting'[r] = "asked"
    BY <1>8 DEF AskPromotion, TypeOK
  <2> QED BY <2>1, <2>2 DEF Queued
<1>9. ASSUME NEW n \in Replica, StartPromotion(n) PROVE Promoted'
  <2>1. UNCHANGED <<routed, active, dead>>
    BY <1>9 DEF StartPromotion
  <2>2. CASE n \notin supervised \/ n \in dead
    <3>1. UNCHANGED lbCalls /\ promoting' = [promoting EXCEPT ![n] = "no"]
      BY <1>9, <2>2 DEF StartPromotion
    <3>2. \A r \in Replica : promoting'[r] = promoting[r] \/ promoting'[r] = "no"
      BY <3>1 DEF TypeOK
    <3> QED BY <2>1, <3>1, <3>2 DEF Queued
  <2>3. CASE ~(n \notin supervised \/ n \in dead)
    <3>1. /\ lbCalls' = Append(lbCalls, Call("add", n))
          /\ promoting' = [promoting EXCEPT ![n] = "adding"]
      BY <1>9, <2>3 DEF StartPromotion
    <3>2. \A d : Queued(d)' <=> Queued(d) \/ d = Call("add", n)
      BY <3>1, CallIs, Sends
    <3>3. \A r \in Replica : promoting'[r] = IF r = n THEN "adding" ELSE promoting[r]
      BY <3>1 DEF TypeOK
    <3> QED BY <2>1, <3>2, <3>3
  <2> QED BY <2>2, <2>3
<1>10. ASSUME NEW n \in Replica, EndPromotion(n) PROVE Promoted'
  <2>1. /\ promoting[n] = "adding" /\ ~Queued(Call("add", n))
        /\ UNCHANGED <<lbCalls, routed, active, dead>>
    BY <1>10 DEF EndPromotion
  <2>2. \A r \in Replica : r # n => promoting'[r] = promoting[r]
    BY <1>10 DEF EndPromotion, TypeOK
  <2>3. promoting'[n] # "adding"
    BY <1>10 DEF EndPromotion, TypeOK
  <2>4. n \notin dead => n \in routed
    BY <2>1
  <2> QED BY <2>1, <2>2, <2>3, <2>4 DEF Queued
<1>11. ASSUME NEW n \in Replica, PromotionFails(n) PROVE Promoted'
  <2>1. \A r \in Replica \ {n} : Queued(Call("add", r)) => Queued(Call("add", r))'
    <3>1. ASSUME NEW x, x = Call("add", n)
          PROVE  \A c : Queued(c) /\ c # x => Queued(c)'
      BY <1>11, <3>1, Loses DEF PromotionFails
    <3>2. ASSUME NEW r \in Replica \ {n}, NEW a, a = Call("add", r), Queued(a) PROVE Queued(a)'
      BY <3>1, <3>2, CallIs
    <3> QED BY <3>2 DEF Call
  <2>2. \A r \in Replica : promoting'[r] = IF r = n THEN "no" ELSE promoting[r]
    BY <1>11 DEF PromotionFails, TypeOK
  <2>3. UNCHANGED <<routed, active, dead>>
    BY <1>11 DEF PromotionFails
  <2> QED BY <2>1, <2>2, <2>3
<1>12. ASSUME NEW n \in Replica, Publish(n) PROVE Promoted'
  <2>1. /\ promoting[n] = "acked" /\ active' \subseteq active \cup {n}
        /\ UNCHANGED <<lbCalls, routed, dead>>
    BY <1>12 DEF Publish
  <2>2. \A r \in Replica : promoting'[r] = promoting[r] \/ promoting'[r] = "no"
    BY <1>12 DEF Publish, TypeOK
  <2> QED BY <2>1, <2>2 DEF Queued
<1> QED BY <1>2, <1>3, <1>4, <1>5, <1>6, <1>7, <1>8, <1>9, <1>10, <1>11, <1>12
        DEF Next, Consume, Watch, Admission

\* The manager drops a replica only with a report, a death or an admission.
LEMMA StepKnown == IInv /\ Next => Known'
<1> SUFFICES ASSUME IInv, Next PROVE Known'
  OBVIOUS
<1>0. TypeOK /\ Known /\ Deaths
  BY DEF IInv
<1> USE <1>0 DEF Known
<1>1. CASE /\ UNCHANGED <<supervised, registered>>
           /\ dead \subseteq dead' /\ early \subseteq early'
           /\ active \cup fresh \cup reports \subseteq active' \cup fresh' \cup reports'
  BY <1>1
<1>2. CASE Tick \/ TakeDeaths \/ RemovalDone \/ RemovalFails \/ FinishDeath \/ Stop
             \/ CancelProbes \/ CancelConsumer \/ Execute
  BY <1>1, <1>2 DEF Tick, TakeDeaths, RemovalDone, RemovalFails, FinishDeath, Stop,
                    CancelProbes, CancelConsumer, Execute
<1>3. CASE NotifyManager
  <2>1. handling \in dead
    BY <1>3 DEF NotifyManager, IInv, Locking, Deaths
  <2> QED BY <1>3, <2>1 DEF NotifyManager
<1>4. ASSUME NEW r \in Replica, ProbeOk(r) \/ ProbeMiss(r) \/ StartDeath(r) \/ SyncFails(r) \/ Die(r)
      PROVE  Known'
  BY <1>1, <1>4 DEF ProbeOk, ProbeMiss, Enqueue, StartDeath, SyncFails, Die
<1>5. ASSUME NEW r \in Replica, ReportFailure(r) PROVE Known'
  <2>1. /\ reports' = reports \ {r}
        /\ early' = IF r \in supervised THEN early ELSE early \cup {r}
        /\ UNCHANGED <<supervised, registered, active, fresh>>
    BY <1>5 DEF ReportFailure
  <2>2. r \in supervised => r \in dead'
    BY <1>5 DEF ReportFailure, Enqueue, Deaths
  <2>3. dead \subseteq dead'
    BY <1>5 DEF ReportFailure, Enqueue
  <2> QED BY <2>1, <2>2, <2>3
<1>6. ASSUME NEW d \in Replica, NEW n \in Replica, Spawn(d, n) \/ SpawnFails(d) PROVE Known'
  BY <1>1, <1>6 DEF Spawn, SpawnFails
<1>7. ASSUME NEW d \in Replica, RegisterPending(d) \/ RegistrationFails(d) PROVE Known'
  BY <1>7 DEF RegisterPending, RegistrationFails
<1>8. ASSUME NEW d \in Replica, AddReplica(d) PROVE Known'
  <2>1. /\ product[d] \in registered /\ supervised' = supervised \cup {product[d]}
        /\ UNCHANGED <<registered, early, active, fresh, reports>>
    BY <1>8 DEF AddReplica
  <2> QED BY <1>8, <2>1, AddsTheLiving
<1>9. ASSUME NEW n \in Replica,
             AskPromotion(n) \/ StartPromotion(n) \/ EndPromotion(n) \/ PromotionFails(n)
      PROVE  Known'
  BY <1>1, <1>9 DEF AskPromotion, StartPromotion, EndPromotion, PromotionFails
<1>10. ASSUME NEW n \in Replica, Publish(n) PROVE Known'
  BY <1>10 DEF Publish
<1> QED BY <1>2, <1>3, <1>4, <1>5, <1>6, <1>7, <1>8, <1>9, <1>10
        DEF Next, Consume, Watch, Replace, Admission

-----------------------------------------------------------------------------
(***************************************************************************)
(* The invariant, and the properties it gives.                              *)
(***************************************************************************)

LEMMA InitIInv == Init => IInv
<1> SUFFICES ASSUME Init PROVE IInv
  OBVIOUS
<1> USE Names
<1>1. TypeOK
  BY InitType
<1>2. \A c : ~Queued(c)
  BY DEF Init, Queued
<1>3. Single
  BY DEF Init, Single
<1>4. /\ \A r \in Replica : misses[r] = 0 /\ product[r] = None /\ promoting[r] = "no"
      /\ handled = {} /\ spawning = {}
  BY DEF Init
<1>5. NoLostDeath /\ Locking /\ Deaths /\ Known
  BY <1>4 DEF Init, NoLostDeath, Locking, Deaths, Known
<1>6. Replacements
  <2>1. \A r \in supervised : r \in Initial
    BY DEF Init
  <2>2. None \notin Initial
    OBVIOUS
  <2> QED BY <1>4, <2>1, <2>2 DEF Replacements
<1>7. Queue /\ StaysOut
  BY <1>2, <1>3, <1>4 DEF Queue, StaysOut
<1>8. Promoted
  BY <1>4 DEF Init, Promoted
<1> QED BY <1>1, <1>5, <1>6, <1>7, <1>8 DEF IInv

LEMMA StepIInv == IInv /\ [Next]_vars => IInv'
<1>1. IInv /\ Next => IInv'
  BY StepType, StepNoLost, StepQueue, StepLocking, StepDeaths, StepReplacements,
     StepStaysOut, StepPromoted, StepKnown
  DEF IInv
<1>2. ASSUME IInv, UNCHANGED vars PROVE IInv'
  <2> USE <1>2 DEF vars
  <2>1. TypeOK' /\ NoLostDeath' /\ Locking' /\ Deaths' /\ Replacements' /\ Known'
    BY DEF IInv, TypeOK, NoLostDeath, Locking, Deaths, Replacements, Known
  <2>2. Queue' /\ StaysOut' /\ Promoted'
    BY DEF IInv, Queue, Single, StaysOut, Promoted, Queued
  <2> QED BY <2>1, <2>2 DEF IInv
<1> QED BY <1>1, <1>2

LEMMA Invariant == Spec => []IInv
BY InitIInv, StepIInv, PTL DEF Spec

\* No wake-up of the consumer is lost between the drain of the queue, the
\* snapshot and the deaths declared in between: a death that is pending is in
\* the snapshot, or a token will wake the consumer up again.
THEOREM DeathsAreTaken == Spec => []NoLostDeath
<1>1. IInv => NoLostDeath
  BY DEF IInv
<1> QED BY <1>1, Invariant, PTL

\* A replica whose death was handled stays out of the traffic, whatever
\* promotion raced with it and whenever the load balancer executes the calls.
THEOREM RemovalsAreFinal == Spec => []HandledStaysOut
<1>1. IInv => HandledStaysOut
  BY DEF IInv, HandledStaysOut, StaysOut, Deaths
<1> QED BY <1>1, Invariant, PTL

\* What the Supervisor, the load balancer and the manager hold agrees: active
\* replicas are routed to, and supervised ones are members of the manager.
THEOREM ComponentsAgree == Spec => []Managed
<1>1. IInv => Managed
  <2> SUFFICES ASSUME IInv PROVE Managed
    OBVIOUS
  <2>1. ActiveIsRouted
    BY DEF IInv, TypeOK, Promoted, ActiveIsRouted
  <2>2. SupervisedIsManaged
    BY DEF IInv, Known, SupervisedIsManaged
  <2> QED BY <2>1, <2>2 DEF IInv, Managed
<1> QED BY <1>1, Invariant, PTL

\* on_dead runs once for a replica, whatever misses and reports declare it.
THEOREM DeathsAreHandledOnce == Spec => HandledOnce
<1>1. IInv /\ [Next]_vars => [\A r \in handled : handling' = r => handling = r]_vars
  <2> SUFFICES ASSUME IInv, Next, NEW r \in handled, handling' = r PROVE handling = r
    OBVIOUS
  <2>1. r \in Replica /\ Deaths /\ None \notin Replica
    BY Names DEF IInv, TypeOK
  <2>2. CASE UNCHANGED handling \/ handling' = None
    BY <2>1, <2>2
  <2>3. ASSUME NEW s \in Replica, StartDeath(s) PROVE FALSE
    BY <2>1, <2>3 DEF StartDeath, Deaths
  <2>4. CASE Tick \/ Consume \/ Execute
    BY <2>2, <2>4 DEF Tick, Consume, Execute, TakeDeaths, RemovalDone, RemovalFails,
       NotifyManager, FinishDeath, Stop, CancelProbes, CancelConsumer
  <2>5. ASSUME NEW s \in Replica,
               ProbeOk(s) \/ ProbeMiss(s) \/ ReportFailure(s) \/ SyncFails(s) \/ Die(s)
        PROVE  handling = r
    BY <2>2, <2>5 DEF ProbeOk, ProbeMiss, ReportFailure, SyncFails, Die
  <2>6. ASSUME NEW s \in Replica, Replace(s) \/ Admission(s) PROVE handling = r
    BY <2>2, <2>6
       DEF Replace, Spawn, SpawnFails, RegisterPending, RegistrationFails, AddReplica,
           Admission, AskPromotion, StartPromotion, EndPromotion, PromotionFails, Publish
  <2> QED BY <2>3, <2>4, <2>5, <2>6 DEF Next, Watch
<1> QED BY <1>1, Invariant, PTL DEF Spec, HandledOnce
=============================================================================
