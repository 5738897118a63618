------------------------- MODULE TokenRecovery_proofs -------------------------
(***************************************************************************)
(* What is stored of a rollout follows its engines token by token, and a    *)
(* step repeated after a restart is trained with the responses it was       *)
(* trained with before: proofs about TokenRecovery, for every batch, length *)
(* of a response, number of steps and of faults.                            *)
(*                                                                         *)
(* Both theorems are conditional on CatchesUp, the model's assumption that  *)
(* the queue is empty by the time a step has been trained.  Without it an   *)
(* item of a step may be stored in the next one, and both properties fail.  *)
(***************************************************************************)
EXTENDS TokenRecovery, FiniteSetTheorems, FunctionTheorems, TLAPS

\* An item of the queue, a record of TokensDict, and a file.
Item    == [req : Req, step : Step, life : Nat, fin : BOOLEAN]
Record  == [toks : Seq(Nat), fin : BOOLEAN, step : 0 .. MaxStep]
Stored  == [Req -> Record]
Kept    == {NoFile, Torn} \cup {File(d) : d \in Stored}
\* Before a rollout, during it, and with nothing on its way to TokensDict.
Setup   == {"clear", "wipe", "iter", "load", "begin"}
Rolling == {"rollout", "prepare", "drain", "rebuild", "train"}
Quiet   == queue = <<>> /\ hand = NoItem

\* The type of every variable the proof reads.
Scalars ==
  /\ step \in 1 .. MaxStep + 1 /\ ckpt \in 0 .. MaxStep /\ iter \in 0 .. MaxStep
  /\ pc \in Setup \cup Rolling \cup {"raised", "failed", "ended"}
  /\ life \in Nat /\ saving \in BOOLEAN /\ isFinished \in BOOLEAN
  /\ rebuilds \in 0 .. MaxRebuilds + 1 /\ reschedules \in 0 .. MaxReschedules
  /\ copying \in 0 .. MaxStep
Streams == engine \in [Req -> Seq(Nat)] /\ queue \in Seq(Item) /\ hand \in Item \cup {NoItem}
Records ==
  /\ stored \in Stored /\ tokens \in [iter : 0 .. MaxStep, data : Stored]
  /\ done \in [Step -> Kept] /\ known \in [Step -> 0 .. MaxStep]
  /\ passed \in [Step -> {NoFile} \cup {File(e) : e \in [Req -> Seq(Nat)]}]
Types == Scalars /\ Streams /\ Records

\* Where the trainer is in its step, and what is on its way there.
Control ==
  /\ pc \in Setup \cup {"ended"} => Quiet
  /\ pc \in Setup \cup Rolling => step <= MaxStep /\ ckpt < step
  /\ pc \in {"load", "begin"} \cup Rolling => iter = step
  /\ pc \in {"drain", "rebuild"} => step = ckpt + 1
  /\ pc = "rebuild" => queue = <<>>
  /\ pc \in {"rollout", "prepare", "drain", "rebuild"} => rebuilds <= MaxRebuilds
  /\ saving => iter # 0
  /\ iter <= step /\ copying <= iter
  /\ pc \in {"iter", "load"} => stored = Fresh
  /\ pc = "clear" =>
       \/ stored = Fresh
       \/ iter = step - 1 /\ iter # 0 /\ \A r \in Req : stored[r].toks = engine[r]
  /\ pc = "train" => \A r \in Req : Len(engine[r]) = Length
  /\ \A r \in Req : Len(engine[r]) <= Length

\* What is stored and what is on its way make up what the engine has; the last
\* token of a request is marked.
FollowsOf(r) ==
  LET n == Len(stored[r].toks) IN
  /\ Len(engine[r]) = n + Nth(r, Len(Flight))
  /\ stored[r].toks = SubSeq(engine[r], 1, n)
  /\ \A j \in 1 .. Len(Flight) : Flight[j].req = r =>
       /\ Flight[j].life = engine[r][n + Nth(r, j)]
       /\ Flight[j].fin = (n + Nth(r, j) = Length)
Follows ==
  /\ pc \in Rolling \/ ~ Quiet => \A r \in Req : FollowsOf(r)
  /\ \A j \in 1 .. Len(Flight) : Flight[j].step = iter

\* Records of step k: no longer than a response, finished when that long.
Sound(d, k) ==
  \A r \in Req : /\ Len(d[r].toks) <= Length
                 /\ d[r].fin = (Len(d[r].toks) = Length)
                 /\ d[r].step \in {0, k}
Finished(d) == \A r \in Req : d[r].fin
Data ==
  /\ Sound(stored, iter)
  /\ Sound(tokens.data, tokens.iter)
  /\ \A k \in Step : done[k].kind = "file" => Sound(done[k].data, k) /\ Finished(done[k].data)

\* The rollout of a step beyond which the trainer has gone, and which a restart
\* may repeat.
Passed(k)  == passed[k] # NoFile /\ ckpt < k
Same(d, k) == Passed(k) => \A r \in Req : d[r].toks = passed[k].data[r]
Files ==
  /\ FinishedKept
  /\ \A k \in Step : known[k] <= k
  /\ \A k \in Step : done[k].kind = "file" => Same(done[k].data, k)
  /\ copying # 0 => /\ tokens.iter = copying /\ Finished(tokens.data)
                    /\ Same(tokens.data, copying)
Running == pc = "begin" \/ pc \in Rolling \/ (pc = "clear" /\ stored # Fresh)
Underway ==
  /\ Running => /\ done[iter].kind = "file" => done[iter].data = stored
                /\ copying # 0 /\ copying = iter => tokens.data = stored
  /\ iter # 0 /\ Passed(iter) => /\ Quiet /\ (Finished(stored) => Same(stored, iter))
                                 /\ pc = "begin" \/ pc \in Rolling => Finished(stored)

\* Inductive with Types.  TokensFollow needs Follows and Data; StepsRepeat needs
\* Files, and Underway, which ties a repeated rollout to the one on disk.
RecInv == Control /\ Follows /\ Data /\ Files /\ Underway

-----------------------------------------------------------------------------
(* How many of the first items of a sequence are of a request.              *)
Of(q, r, j) == Cardinality({i \in 1 .. j : q[i].req = r})

\* The number of such items is a natural number.
LEMMA OfFinite ==
  ASSUME NEW q, NEW r, NEW j \in Nat
  PROVE  IsFiniteSet({i \in 1 .. j : q[i].req = r}) /\ Of(q, r, j) \in Nat
<1>1. IsFiniteSet(1 .. j)
  BY 1 \in Int, j \in Int, FS_Interval
<1>2. {i \in 1 .. j : q[i].req = r} \subseteq 1 .. j
  OBVIOUS
<1> QED BY <1>1, <1>2, FS_Subset, FS_CardinalityType DEF Of

\* Among no items there is none.
LEMMA OfZero == ASSUME NEW q, NEW r PROVE Of(q, r, 0) = 0
<1>1. {i \in 1 .. 0 : q[i].req = r} = {}
  OBVIOUS
<1> QED BY <1>1, FS_EmptySet DEF Of

\* The number depends on the first j items only.
LEMMA OfPrefix ==
  ASSUME NEW q, NEW p, NEW r, NEW j \in Nat, \A i \in 1 .. j : q[i] = p[i]
  PROVE  Of(q, r, j) = Of(p, r, j)
<1>1. {i \in 1 .. j : q[i].req = r} = {i \in 1 .. j : p[i].req = r}
  OBVIOUS
<1> QED BY <1>1 DEF Of

\* One item more.
LEMMA OfNext ==
  ASSUME NEW q, NEW r, NEW j \in Nat
  PROVE  Of(q, r, j + 1) = Of(q, r, j) + (IF q[j + 1].req = r THEN 1 ELSE 0)
<1> DEFINE S == {i \in 1 .. j : q[i].req = r}
           T == {i \in 1 .. (j + 1) : q[i].req = r}
<1>0. Of(q, r, j) = Cardinality(S) /\ Of(q, r, j + 1) = Cardinality(T)
  BY DEF Of
<1>1. IsFiniteSet(S) /\ j + 1 \notin S /\ Cardinality(S) \in Nat
  <2>1. IsFiniteSet(S)
    BY OfFinite
  <2>2. j + 1 \notin S
    OBVIOUS
  <2> QED BY <2>1, <2>2, FS_CardinalityType
<1>2. CASE q[j + 1].req = r
  <2>1. T = S \cup {j + 1}
    BY <1>2
  <2>2. Cardinality(S \cup {j + 1}) = Cardinality(S) + 1
    BY <1>1, FS_AddElement
  <2> QED BY <1>0, <1>2, <2>1, <2>2
<1>3. CASE q[j + 1].req # r
  <2>1. T = S
    BY <1>3
  <2> HIDE DEF S, T
  <2> QED BY <1>0, <1>1, <1>3, <2>1
<1> QED BY <1>2, <1>3

\* More items, no fewer of the request.
LEMMA OfMonotone ==
  ASSUME NEW q, NEW r, NEW i \in Nat, NEW j \in Nat, i <= j
  PROVE  Of(q, r, i) <= Of(q, r, j)
<1> DEFINE S == {k \in 1 .. i : q[k].req = r}
           T == {k \in 1 .. j : q[k].req = r}
<1>1. IsFiniteSet(T)
  BY OfFinite
<1>2. S \in SUBSET T
  OBVIOUS
<1>3. Cardinality(S) <= Cardinality(T)
  BY <1>1, <1>2, FS_Subset
<1> QED BY <1>3 DEF Of

\* p is q without its first item, up to j.
Shifted(q, p, j) == \A i \in 1 .. j : p[i] = q[i + 1]
\* Without its first item a sequence has one less of that item's request.
LEMMA OfShift ==
  ASSUME NEW q, NEW p, NEW r, NEW j \in Nat, Shifted(q, p, j)
  PROVE  Of(q, r, j + 1) = Of(p, r, j) + (IF q[1].req = r THEN 1 ELSE 0)
<1> USE DEF Shifted
<1> DEFINE S == {i \in 1 .. j : p[i].req = r}
           T == {i \in 2 .. (j + 1) : q[i].req = r}
           f == [i \in S |-> i + 1]
<1>1. IsFiniteSet(S)
  BY OfFinite
<1>2. f \in Bijection(S, T)
  <2>1. f \in [S -> T]
    OBVIOUS
  <2>2. \A a, b \in S : f[a] = f[b] => a = b
    OBVIOUS
  <2>3. ASSUME NEW t \in T PROVE \E s \in S : f[s] = t
    <3>1. t - 1 \in S /\ f[t - 1] = t
      BY <2>3
    <3> QED BY <3>1
  <2> HIDE DEF S, T, f
  <2> QED BY <2>1, <2>2, <2>3, Fun_IsBij
<1>3. IsFiniteSet(T) /\ Cardinality(T) = Cardinality(S) /\ Cardinality(S) \in Nat
  BY <1>1, <1>2, FS_Bijection, FS_CardinalityType DEF ExistsBijection
<1>4. CASE q[1].req = r
  <2>1. {i \in 1 .. (j + 1) : q[i].req = r} = T \cup {1} /\ 1 \notin T
    BY <1>4
  <2>2. Cardinality(T \cup {1}) = Cardinality(T) + 1
    BY <2>1, <1>3, FS_AddElement
  <2> QED BY <1>3, <1>4, <2>1, <2>2 DEF Of
<1>5. CASE q[1].req # r
  <2>1. {i \in 1 .. (j + 1) : q[i].req = r} = T
    BY <1>5
  <2> QED BY <1>3, <1>5, <2>1 DEF Of
<1> QED BY <1>4, <1>5

\* The items on their way, from the queue and its consumer.
LEMMA FlightIs ==
  ASSUME Types
  PROVE  /\ Flight \in Seq(Item) /\ (Quiet <=> Len(Flight) = 0)
         /\ hand = NoItem => Flight = queue
         /\ hand # NoItem => /\ Len(Flight) = Len(queue) + 1 /\ Flight[1] = hand
                             /\ \A i \in 1 .. Len(queue) : Flight[i + 1] = queue[i]
<1>1. queue \in Seq(Item) /\ hand \in Item \cup {NoItem}
  BY DEF Types, Streams
<1>2. CASE hand = NoItem
  <2>1. Flight = queue
    BY <1>1, <1>2 DEF Flight
  <2> QED BY <1>1, <1>2, <2>1 DEF Quiet
<1>3. CASE hand # NoItem
  <2>1. hand \in Item /\ Flight = <<hand>> \o queue
    BY <1>1, <1>3 DEF Flight
  <2>2. <<hand>> \in Seq(Item) /\ Len(<<hand>>) = 1 /\ <<hand>>[1] = hand
    BY <2>1
  <2> HIDE DEF Item
  <2>3. Flight \in Seq(Item) /\ Len(Flight) = Len(queue) + 1 /\ Flight[1] = hand
        /\ \A i \in 1 .. Len(queue) : Flight[i + 1] = queue[i]
    BY <1>1, <2>1, <2>2
  <2> QED BY <1>1, <1>3, <2>3 DEF Quiet
<1> QED BY <1>2, <1>3

\* Nth counts the items on their way.
LEMMA NthIs == \A r, j : Nth(r, j) = Of(Flight, r, j)
BY DEF Nth, Of

-----------------------------------------------------------------------------
(* Types.                                                                   *)

\* What the files and an empty store hold.
LEMMA FileTypes ==
  /\ Fresh \in Stored /\ NoFile \in Kept /\ Torn \in Kept
  /\ \A d \in Stored : File(d) \in Kept /\ File(d).data = d /\ File(d).kind = "file"
  /\ NoFile.kind = "none" /\ Torn.kind = "torn"
  /\ \A f \in Kept : /\ f.data \in Stored /\ f.kind \in {"none", "torn", "file"}
                     /\ f.kind = "none" => f = NoFile
  /\ \A r \in Req : Fresh[r] = Blank /\ Fresh[r].toks = <<>> /\ Fresh[r].fin = FALSE
                    /\ Fresh[r].step = 0
<1>1. Blank \in Record /\ Blank.toks = <<>> /\ Blank.fin = FALSE /\ Blank.step = 0
  BY RecoveryAssumption DEF Blank, Record
<1>2. Fresh \in Stored /\ \A r \in Req : Fresh[r] = Blank
  BY <1>1 DEF Fresh, Stored
<1>3. /\ NoFile.kind = "none" /\ NoFile.data = Fresh /\ Torn.kind = "torn" /\ Torn.data = Fresh
      /\ \A d : File(d).kind = "file" /\ File(d).data = d
  BY DEF NoFile, Torn, File
<1>4. \A f \in Kept : f = NoFile \/ f = Torn \/ \E d \in Stored : f = File(d)
  BY DEF Kept
<1> QED BY <1>2, <1>1, <1>3, <1>4 DEF Kept

\* NoItem is no item.
LEMMA NoItemIs == NoItem \notin Item
BY DEF NoItem, Item, Step

\* The initial state is well typed.
LEMMA InitTypes == Init => Types
<1> SUFFICES ASSUME Init PROVE Types
  OBVIOUS
<1>1. /\ engine \in [Req -> Seq(Nat)] /\ queue \in Seq(Item) /\ hand \in Item \cup {NoItem}
      /\ stored \in Stored /\ tokens \in [iter : 0 .. MaxStep, data : Stored]
      /\ done \in [Step -> Kept] /\ known \in [Step -> 0 .. MaxStep]
      /\ passed \in [Step -> {NoFile} \cup {File(e) : e \in [Req -> Seq(Nat)]}]
  BY FileTypes, RecoveryAssumption DEF Init
<1>2. /\ step \in 1 .. MaxStep + 1 /\ ckpt \in 0 .. MaxStep /\ iter \in 0 .. MaxStep
      /\ pc \in Setup /\ life \in Nat /\ saving \in BOOLEAN /\ isFinished \in BOOLEAN
      /\ rebuilds \in 0 .. MaxRebuilds + 1 /\ reschedules \in 0 .. MaxReschedules
      /\ copying \in 0 .. MaxStep
  <2>1. /\ step = 1 /\ ckpt = 0 /\ iter = 0 /\ pc = "clear" /\ life = 1 /\ saving = FALSE
        /\ isFinished = FALSE /\ rebuilds = 0 /\ reschedules = 0 /\ copying = 0
    BY DEF Init
  <2>2. saving \in BOOLEAN /\ isFinished \in BOOLEAN
    BY <2>1
  <2>3. pc \in Setup
    BY <2>1 DEF Setup
  <2> QED BY <2>1, <2>2, <2>3, RecoveryAssumption
<1> QED BY <1>1, <1>2 DEF Types, Scalars, Streams, Records

\* A step keeps the scalars in their ranges.
LEMMA ScalarsStep == ASSUME Types, Control, Next PROVE Scalars'
<1> USE RecoveryAssumption DEF trainer, rollout, dict, disk, Types, Scalars, Control, Setup, Rolling
<1>1. CASE Trainer
  <2>1. CASE ClearWait \/ Wipe \/ UpdateIter \/ TryLoad \/ Begin
    <3>1. CASE ClearWait
      BY <3>1 DEF ClearWait
    <3>2. CASE Wipe
      BY <3>2 DEF Wipe
    <3>3. CASE UpdateIter
      BY <3>3 DEF UpdateIter
    <3>4. CASE TryLoad
      BY <3>4 DEF TryLoad
    <3>5. CASE Begin
      BY <3>5 DEF Begin
    <3> QED BY <2>1, <3>1, <3>2, <3>3, <3>4, <3>5
  <2>2. CASE RolloutEnds \/ PreRebuild \/ Drained
    BY <2>2 DEF RolloutEnds, PreRebuild, Drained
  <2>3. CASE Rebuild
    BY <2>3 DEF Rebuild, LoadedStep
  <2>4. CASE Train
    BY <2>4 DEF Train
  <2>5. CASE Reschedule
    <3>1. CASE reschedules = MaxReschedules
      <4>1. /\ pc' = "failed" /\ rebuilds' = 0
            /\ UNCHANGED <<step, life, reschedules, iter, isFinished, saving, copying, ckpt>>
        BY <2>5, <3>1 DEF Reschedule
      <4> QED BY <4>1
    <3>2. CASE reschedules # MaxReschedules
      <4>1. /\ pc' \in {"ended", "clear"} /\ rebuilds' = 0
            /\ reschedules' = reschedules + 1 /\ step' = ckpt + 1 /\ life' = life + 1
            /\ iter' = 0 /\ isFinished' = FALSE /\ saving' = FALSE /\ copying' = 0
            /\ ckpt' = ckpt
        BY <2>5, <3>2 DEF Reschedule
      <4>2. saving' \in BOOLEAN /\ isFinished' \in BOOLEAN
        BY <4>1
      <4>3. /\ step' \in 1 .. MaxStep + 1 /\ ckpt' \in 0 .. MaxStep /\ iter' \in 0 .. MaxStep
            /\ life' \in Nat /\ rebuilds' \in 0 .. MaxRebuilds + 1
            /\ reschedules' \in 0 .. MaxReschedules /\ copying' \in 0 .. MaxStep
        BY <3>2, <4>1
      <4> QED BY <4>1, <4>2, <4>3
    <3> QED BY <3>1, <3>2
  <2> QED BY <1>1, <2>1, <2>2, <2>3, <2>4, <2>5 DEF Trainer
<1>2. CASE Tokens
  <2>1. CASE Take \/ Update
    BY <2>1 DEF Take, Update
  <2>2. CASE AutoSave
    BY <2>2 DEF AutoSave
  <2>3. CASE AutoSaved
    BY <2>3 DEF AutoSaved
  <2> QED BY <1>2, <2>1, <2>2, <2>3 DEF Tokens
<1>3. CASE Faulty
  <2>1. CASE RolloutFault
    BY <2>1 DEF RolloutFault, Caught
  <2>2. CASE RebuildFault
    BY <2>2 DEF RebuildFault, Caught
  <2>3. CASE TrainFault
    BY <2>3 DEF TrainFault
  <2>4. CASE AlarmFires
    BY <2>4 DEF AlarmFires, Caught
  <2> QED BY <1>3, <2>1, <2>2, <2>3, <2>4 DEF Faulty
<1>4. ASSUME NEW r \in Req, Emit(r) PROVE Scalars'
  BY <1>4 DEF Emit
<1> QED BY <1>1, <1>2, <1>3, <1>4 DEF Next

\* A step keeps the types of the engines' tokens, of the queue and of the item in hand.
LEMMA StreamsStep == ASSUME Types, Control, Next PROVE Streams'
<1> USE DEF Types, Streams
<1>1. CASE UNCHANGED <<engine, queue, hand>>
  BY <1>1
<1>2. CASE Begin \/ Rebuild
  <2>1. engine' = Resent /\ UNCHANGED <<queue, hand>>
    BY <1>2 DEF Begin, Rebuild, Dispatch
  <2>2. \A r \in Req : stored[r].toks \in Seq(Nat)
    BY DEF Records, Stored, Record
  <2> QED BY <2>1, <2>2 DEF Resent
<1>3. CASE Reschedule
  <2>1. UNCHANGED <<engine, queue, hand>> \/
          (engine' = [r \in Req |-> <<>>] /\ queue' = <<>> /\ hand' = NoItem)
    BY <1>3 DEF Reschedule, rollout
  <2>2. <<>> \in Seq(Item) /\ <<>> \in Seq(Nat)
    <3> HIDE DEF Item
    <3> QED OBVIOUS
  <2>3. [r \in Req |-> <<>>] \in [Req -> Seq(Nat)]
    BY <2>2
  <2> HIDE DEF Item
  <2> QED BY <2>1, <2>2, <2>3
<1>4. CASE Take
  <2>1. /\ queue # <<>> /\ hand' = Head(queue) /\ queue' = Tail(queue) /\ engine' = engine
    BY <1>4 DEF Take
  <2>2. Head(queue) \in Item /\ Tail(queue) \in Seq(Item)
    <3> HIDE DEF Item
    <3> QED BY <2>1
  <2> QED BY <2>1, <2>2
<1>5. CASE Update
  BY <1>5 DEF Update
<1>6. ASSUME NEW r \in Req, Emit(r) PROVE Streams'
  <2>1. /\ pc \in {"rollout", "prepare"} /\ hand' = hand
        /\ engine' = [engine EXCEPT ![r] = Append(@, life)]
        /\ queue' = Append(queue, [req |-> r, step |-> step, life |-> life,
                                   fin |-> Len(engine'[r]) = Length])
    BY <1>6 DEF Emit
  <2>2. life \in Nat /\ step \in Step
    BY <2>1 DEF Scalars, Control, Rolling, Step
  <2>3. [req |-> r, step |-> step, life |-> life, fin |-> Len(engine'[r]) = Length] \in Item
    BY <2>2 DEF Item
  <2>4. queue' \in Seq(Item)
    <3> HIDE DEF Item
    <3> QED BY <2>1, <2>3
  <2>5. engine' \in [Req -> Seq(Nat)]
    BY <2>1, <2>2
  <2> QED BY <2>1, <2>4, <2>5
<1>7. \/ UNCHANGED <<engine, queue, hand>> \/ Begin \/ Rebuild \/ Reschedule \/ Take \/ Update
      \/ \E r \in Req : Emit(r)
  BY DEF Next, Trainer, Tokens, Faulty, ClearWait, Wipe, UpdateIter, TryLoad, RolloutEnds,
         PreRebuild, Drained, Train, AutoSave, AutoSaved, RolloutFault, RebuildFault,
         TrainFault, AlarmFires, rollout
<1> QED BY <1>1, <1>2, <1>3, <1>4, <1>5, <1>6, <1>7

\* A step keeps the types of what is stored, saved and remembered.
LEMMA RecordsStep == ASSUME Types, Control, Next PROVE Records'
<1>t. Records
  BY DEF Types
<1>1. stored' \in Stored
  <2>1. CASE Wipe \/ Reschedule
    <3>1. stored' \in {stored, Fresh}
      BY <2>1 DEF Wipe, Reschedule, dict
    <3> QED BY <3>1, <1>t, FileTypes DEF Records
  <2>2. CASE TryLoad
    <3>1. stored' \in {stored, done[iter].data, tokens.data} /\ pc = "load"
      BY <2>2 DEF TryLoad
    <3>2. iter \in Step
      BY <3>1, RecoveryAssumption DEF Types, Scalars, Control, Setup, Step
    <3>3. done[iter].data \in Stored
      BY <3>2, <1>t, FileTypes DEF Records
    <3> QED BY <3>1, <3>3, <1>t DEF Records
  <2>3. CASE Update
    <3>1. hand # NoItem /\ stored' =
            [stored EXCEPT ![hand.req] = [toks |-> Append(@.toks, hand.life),
                                          fin |-> hand.fin, step |-> hand.step]]
      BY <2>3 DEF Update
    <3>2. /\ hand.req \in Req /\ hand.life \in Nat /\ hand.fin \in BOOLEAN
          /\ hand.step \in 0 .. MaxStep
      BY <3>1, RecoveryAssumption DEF Types, Streams, Item, Step
    <3>3. Append(stored[hand.req].toks, hand.life) \in Seq(Nat)
      BY <3>2, <1>t DEF Records, Stored, Record
    <3>4. [toks |-> Append(stored[hand.req].toks, hand.life), fin |-> hand.fin,
           step |-> hand.step] \in Record
      BY <3>2, <3>3 DEF Record
    <3> HIDE DEF Record
    <3> QED BY <3>1, <3>2, <3>4, <1>t DEF Records, Stored
  <2>4. stored' = stored \/ Wipe \/ Reschedule \/ TryLoad \/ Update
    BY DEF Next, Trainer, Tokens, Faulty, ClearWait, UpdateIter, RolloutEnds, Begin, Rebuild,
           PreRebuild, Drained, Train, Take, AutoSave, AutoSaved, RolloutFault, RebuildFault,
           TrainFault, AlarmFires, Emit, dict
  <2> QED BY <2>1, <2>2, <2>3, <2>4, <1>t DEF Records
<1>2. /\ tokens' \in [iter : 0 .. MaxStep, data : Stored]
      /\ done' \in [Step -> Kept] /\ known' \in [Step -> 0 .. MaxStep]
  <2>1. CASE Wipe
    <3>1. tokens' = tokens
          /\ known' = [k \in Step |-> IF k \in Expired THEN 0 ELSE known[k]]
          /\ done' = [k \in Step |-> IF \E j \in Expired : known[j] = k THEN NoFile ELSE done[k]]
      BY <2>1 DEF Wipe
    <3> QED BY <3>1, <1>t, FileTypes, RecoveryAssumption DEF Records
  <2>2. CASE AutoSave
    <3>1. tokens' = [iter |-> iter, data |-> stored] /\ known' = known
          /\ done' \in {done, [done EXCEPT ![iter] = Torn]}
      BY <2>2 DEF AutoSave
    <3> QED BY <3>1, <1>t, FileTypes DEF Records, Types, Scalars
  <2>3. CASE AutoSaved
    <3>1. tokens' = tokens /\ known' = [known EXCEPT ![iter] = copying]
          /\ done' = [done EXCEPT ![copying] = File(tokens.data)]
      BY <2>3 DEF AutoSaved
    <3> QED BY <3>1, <1>t, FileTypes DEF Records, Types, Scalars
  <2>4. CASE Reschedule
    <3>1. UNCHANGED <<tokens, done>> /\ (known' = known \/ known' = [k \in Step |-> 0])
      BY <2>4 DEF Reschedule, disk, dict
    <3> QED BY <3>1, <1>t, RecoveryAssumption DEF Records
  <2>5. UNCHANGED <<tokens, done, known>> \/ Wipe \/ AutoSave \/ AutoSaved \/ Reschedule
    BY DEF Next, Trainer, Tokens, Faulty, ClearWait, UpdateIter, TryLoad, RolloutEnds, Begin,
           Rebuild, PreRebuild, Drained, Train, Take, Update, RolloutFault, RebuildFault,
           TrainFault, AlarmFires, Emit, dict, disk
  <2> QED BY <2>1, <2>2, <2>3, <2>4, <2>5, <1>t DEF Records
<1>3. passed' \in [Step -> {NoFile} \cup {File(e) : e \in [Req -> Seq(Nat)]}]
  <2>1. passed' \in {passed, [passed EXCEPT ![step - 1] = File(engine)]}
    BY DEF Next, Trainer, Tokens, Faulty, ClearWait, Wipe, UpdateIter, TryLoad, RolloutEnds,
           Begin, Rebuild, PreRebuild, Drained, Train, Reschedule, Take, Update, AutoSave,
           AutoSaved, RolloutFault, RebuildFault, TrainFault, AlarmFires, Emit
  <2> QED BY <2>1, <1>t DEF Records, Types, Streams
<1> QED BY <1>1, <1>2, <1>3 DEF Records

\* A step keeps every type.
LEMMA TypesStep == ASSUME Types, Control, Next PROVE Types'
BY ScalarsStep, StreamsStep, RecordsStep DEF Types

-----------------------------------------------------------------------------
(* Control.                                                                 *)

\* A sequence is the whole of itself.
LEMMA WholeSubSeq == \A s \in Seq(Nat) : SubSeq(s, 1, Len(s)) = s
OBVIOUS

\* With nothing on its way, what is stored is what the engine has.
LEMMA QuietFollows ==
  ASSUME Types, Quiet, NEW r \in Req, FollowsOf(r)
  PROVE  stored[r].toks = engine[r]
<1>1. Len(Flight) = 0
  BY FlightIs
<1>2. Nth(r, 0) = 0
  BY NthIs, OfZero
<1>3. engine[r] \in Seq(Nat) /\ Len(stored[r].toks) \in Nat
  BY DEF Types, Streams, Records, Stored, Record
<1>4. Len(engine[r]) = Len(stored[r].toks)
  BY <1>1, <1>2, <1>3 DEF FollowsOf
<1>5. stored[r].toks = SubSeq(engine[r], 1, Len(stored[r].toks))
  BY DEF FollowsOf
<1> QED BY <1>3, <1>4, <1>5, WholeSubSeq

\* A step keeps the relations between the trainer's place and the rest.
LEMMA ControlStep == ASSUME Types, RecInv, CatchesUp, Next PROVE Control'
<1> USE RecoveryAssumption DEF trainer, rollout, dict, disk, Control, Setup, Rolling, Quiet
<1>i. /\ Control /\ Scalars
      /\ \A r \in Req : Len(engine[r]) <= Length /\ Len(stored[r].toks) <= Length
  BY DEF RecInv, Types, Data, Sound
<1>r. Begin \/ Rebuild => \A r \in Req : engine'[r] = stored[r].toks
  BY DEF Begin, Rebuild, Dispatch, Resent
<1>caught.
  ASSUME pc \in {"rollout", "prepare", "drain", "rebuild"}, Caught,
         UNCHANGED <<step, ckpt, iter, copying, saving, queue, hand, stored, engine>>
  PROVE  Control'
  <2>1. pc' \in {"prepare", "raised"} /\ (pc' = "prepare" => rebuilds' <= MaxRebuilds)
    BY <1>caught DEF Caught, Types, Scalars
  <2> QED BY <1>caught, <2>1, <1>i
<1>1. CASE ClearWait
  BY <1>1, <1>i DEF ClearWait
<1>2. CASE Wipe
  BY <1>2, <1>i DEF Wipe
<1>3. CASE UpdateIter
  BY <1>3, <1>i DEF UpdateIter, Scalars
<1>4. CASE TryLoad
  BY <1>4, <1>i DEF TryLoad
<1>5. CASE Begin
  <2>1. /\ pc = "begin" /\ pc' = "rollout" /\ saving' = TRUE /\ rebuilds' = 0
        /\ UNCHANGED <<step, ckpt, iter, copying, queue, hand, stored>>
    BY <1>5 DEF Begin
  <2>2. \A r \in Req : Len(engine'[r]) <= Length
    BY <1>5, <1>i, <1>r
  <2>3. iter # 0 /\ 0 <= MaxRebuilds
    BY <2>1, <1>i DEF Scalars
  <2> QED BY <2>1, <2>2, <2>3, <1>i
<1>6. CASE RolloutEnds
  BY <1>6, <1>i DEF RolloutEnds
<1>7. CASE PreRebuild
  BY <1>7, <1>i DEF PreRebuild
<1>8. CASE Drained
  BY <1>8, <1>i DEF Drained
<1>9. CASE Rebuild
  BY <1>9, <1>i, <1>r DEF Rebuild, LoadedStep, Scalars
<1>10. CASE Train
  <2>1. Quiet /\ \A r \in Req : stored[r].toks = engine[r]
    BY <1>10, QuietFollows DEF Train, RecInv, Follows
  <2> QED BY <1>10, <1>i, <2>1 DEF Train, Scalars
<1>11. CASE Reschedule
  <2>1. CASE reschedules = MaxReschedules
    BY <1>11, <1>i, <2>1 DEF Reschedule
  <2>2. CASE reschedules # MaxReschedules
    BY <1>11, <1>i, <2>2 DEF Reschedule, Scalars
  <2> QED BY <2>1, <2>2
<1>12. CASE Take
  BY <1>12, <1>i DEF Take
<1>13. CASE Update
  BY <1>13, <1>i DEF Update
<1>14. CASE AutoSave
  <2>1. /\ copying' \in {copying, iter}
        /\ UNCHANGED <<pc, step, ckpt, iter, saving, queue, hand, stored, engine, rebuilds>>
    BY <1>14 DEF AutoSave
  <2>2. copying' <= iter
    BY <2>1, <1>i DEF Scalars
  <2> QED BY <2>1, <2>2, <1>i
<1>15. CASE AutoSaved
  <2>1. /\ copying' = 0
        /\ UNCHANGED <<pc, step, ckpt, iter, saving, queue, hand, stored, engine, rebuilds>>
    BY <1>15 DEF AutoSaved
  <2> QED BY <2>1, <1>i DEF Scalars
<1>16. CASE RolloutFault
  <2>1. /\ pc \in {"rollout", "rebuild"} /\ Caught
        /\ UNCHANGED <<step, ckpt, iter, copying, saving, queue, hand, stored, engine>>
    BY <1>16 DEF RolloutFault
  <2> QED BY <2>1, <1>caught
<1>17. CASE RebuildFault
  <2>1. /\ pc \in {"rollout", "rebuild"} /\ Caught
        /\ UNCHANGED <<step, ckpt, iter, copying, saving, queue, hand, stored, engine>>
    BY <1>17 DEF RebuildFault
  <2> QED BY <2>1, <1>caught
<1>18. CASE TrainFault
  BY <1>18, <1>i DEF TrainFault
<1>19. CASE AlarmFires
  <2>0. UNCHANGED <<step, ckpt, iter, copying, saving, queue, hand, stored, engine>>
    BY <1>19 DEF AlarmFires
  <2>1. CASE pc \in {"rollout", "prepare", "drain", "rebuild"}
    BY <1>19, <2>0, <2>1, <1>caught DEF AlarmFires
  <2>2. CASE pc \notin {"rollout", "prepare", "drain", "rebuild"}
    BY <1>19, <2>0, <2>2, <1>i DEF AlarmFires
  <2> QED BY <2>1, <2>2
<1>20. ASSUME NEW r \in Req, Emit(r) PROVE Control'
  <2>1. /\ pc \in {"rollout", "prepare"} /\ Len(engine[r]) < Length
        /\ engine' = [engine EXCEPT ![r] = Append(@, life)]
        /\ UNCHANGED <<trainer, hand, dict, disk>>
    BY <1>20 DEF Emit
  <2>2. \A q \in Req : Len(engine'[q]) <= Length
    BY <2>1, <1>i DEF Types, Streams, Scalars
  <2> QED BY <2>1, <2>2, <1>i
<1> QED BY <1>1, <1>2, <1>3, <1>4, <1>5, <1>6, <1>7, <1>8, <1>9, <1>10, <1>11, <1>12, <1>13,
           <1>14, <1>15, <1>16, <1>17, <1>18, <1>19, <1>20 DEF Next, Trainer, Tokens, Faulty

-----------------------------------------------------------------------------
(* What is stored follows the engines.                                      *)

\* FollowsOf, of an engine's tokens e, the stored ones s and the items f.
Chain(e, s, f, r) ==
  LET n == Len(s) IN
  /\ Len(e) = n + Of(f, r, Len(f))
  /\ s = SubSeq(e, 1, n)
  /\ \A j \in 1 .. Len(f) : f[j].req = r =>
       /\ f[j].life = e[n + Of(f, r, j)]
       /\ f[j].fin = (n + Of(f, r, j) = Length)

\* FollowsOf is Chain of the state, before a step and after it.
LEMMA FollowsIsChain ==
  \A r : /\ FollowsOf(r) <=> Chain(engine[r], stored[r].toks, Flight, r)
         /\ FollowsOf(r)' <=> Chain(engine'[r], stored'[r].toks, Flight', r)
BY DEF FollowsOf, Chain, Nth, Of

\* An engine that was sent what is stored, and nothing on its way.
LEMMA ChainStart == ASSUME NEW r, NEW s \in Seq(Nat) PROVE Chain(s, s, <<>>, r)
<1>1. Of(<<>>, r, 0) = 0
  BY OfZero
<1>2. Len(<<>>) = 0
  OBVIOUS
<1> QED BY <1>1, <1>2, WholeSubSeq DEF Chain

\* An item of another request is added to the queue.
LEMMA ChainPast ==
  ASSUME NEW r, NEW e \in Seq(Nat), NEW s \in Seq(Nat), NEW f \in Seq(Item), NEW x \in Item,
         Chain(e, s, f, r), x.req # r
  PROVE  Chain(e, s, Append(f, x), r)
<1> DEFINE g == Append(f, x)
<1>1. Len(g) = Len(f) + 1 /\ g[Len(f) + 1] = x /\ \A i \in 1 .. Len(f) : g[i] = f[i]
  <2> HIDE DEF Item
  <2> QED OBVIOUS
<1>2. Len(f) \in Nat
  OBVIOUS
<1> HIDE DEF g
<1>3. \A j \in 0 .. Len(f) : Of(g, r, j) = Of(f, r, j)
  <2> TAKE j \in 0 .. Len(f)
  <2>1. j \in Nat /\ \A i \in 1 .. j : g[i] = f[i]
    BY <1>1, <1>2
  <2> QED BY <2>1, OfPrefix
<1>4. Of(g, r, Len(g)) = Of(f, r, Len(f))
  <2>1. Of(g, r, Len(f) + 1) = Of(g, r, Len(f)) + 0
    <3>1. g[Len(f) + 1].req # r
      BY <1>1
    <3> QED BY <1>2, <3>1, OfNext
  <2>2. Of(f, r, Len(f)) \in Nat
    BY <1>2, OfFinite
  <2>3. Of(g, r, Len(f)) = Of(f, r, Len(f))
    BY <1>2, <1>3
  <2> QED BY <1>1, <2>1, <2>2, <2>3
<1>5. ASSUME NEW j \in 1 .. Len(g), g[j].req = r
      PROVE  /\ g[j].life = e[Len(s) + Of(g, r, j)]
             /\ g[j].fin = (Len(s) + Of(g, r, j) = Length)
  <2>1. j \in 1 .. Len(f) /\ j \in 0 .. Len(f)
    BY <1>1, <1>2, <1>5
  <2>2. g[j] = f[j] /\ Of(g, r, j) = Of(f, r, j)
    BY <1>1, <1>3, <2>1
  <2> QED BY <1>5, <2>1, <2>2 DEF Chain
<1> QED BY <1>4, <1>5 DEF Chain, g

\* A token of the request is sampled, and goes to the queue.
LEMMA ChainSample ==
  ASSUME NEW r, NEW e \in Seq(Nat), NEW s \in Seq(Nat), NEW f \in Seq(Item), NEW x \in Item,
         Chain(e, s, f, r), x.req = r, x.fin = (Len(e) + 1 = Length)
  PROVE  Chain(Append(e, x.life), s, Append(f, x), r)
<1> DEFINE g == Append(f, x)
           d == Append(e, x.life)
<1>1. Len(g) = Len(f) + 1 /\ g[Len(f) + 1] = x /\ \A i \in 1 .. Len(f) : g[i] = f[i]
  <2> HIDE DEF Item
  <2> QED OBVIOUS
<1>2. Len(f) \in Nat /\ Len(s) \in Nat /\ Len(e) \in Nat
  OBVIOUS
<1>d. /\ d \in Seq(Nat) /\ Len(d) = Len(e) + 1 /\ d[Len(e) + 1] = x.life
      /\ \A i \in 1 .. Len(e) : d[i] = e[i]
  <2>1. x.life \in Nat
    BY DEF Item
  <2> QED BY <2>1
<1> HIDE DEF g, d
<1>3. \A j \in 0 .. Len(f) : Of(g, r, j) = Of(f, r, j) /\ Of(f, r, j) <= Of(f, r, Len(f))
                             /\ Of(f, r, j) \in Nat
  <2> TAKE j \in 0 .. Len(f)
  <2>1. j \in Nat /\ j <= Len(f) /\ \A i \in 1 .. j : g[i] = f[i]
    BY <1>1, <1>2
  <2> QED BY <1>2, <2>1, OfPrefix, OfMonotone, OfFinite
<1>c. Len(e) = Len(s) + Of(f, r, Len(f)) /\ s = SubSeq(e, 1, Len(s))
  BY DEF Chain
<1>4. Of(g, r, Len(f) + 1) = Of(f, r, Len(f)) + 1
  <2>1. Of(g, r, Len(f) + 1) = Of(g, r, Len(f)) + 1
    BY <1>1, <1>2, OfNext
  <2>2. Len(f) \in 0 .. Len(f)
    BY <1>2
  <2> QED BY <1>3, <2>1, <2>2
<1>f. Of(f, r, Len(f)) \in Nat
  BY <1>2, OfFinite
<1>5. Len(d) = Len(s) + Of(g, r, Len(g))
  BY <1>1, <1>2, <1>d, <1>c, <1>4, <1>f
<1>6. s = SubSeq(d, 1, Len(s))
  <2>1. Len(s) <= Len(e)
    BY <1>2, <1>c, <1>f
  <2>2. SubSeq(d, 1, Len(s)) = SubSeq(e, 1, Len(s))
    BY <1>2, <1>d, <2>1
  <2> QED BY <1>c, <2>2
<1>7. ASSUME NEW j \in 1 .. Len(g), g[j].req = r
      PROVE  /\ g[j].life = d[Len(s) + Of(g, r, j)]
             /\ g[j].fin = (Len(s) + Of(g, r, j) = Length)
  <2>1. CASE j \in 1 .. Len(f)
    <3>1. g[j] = f[j] /\ Of(g, r, j) = Of(f, r, j) /\ Of(f, r, j) \in Nat
          /\ Of(f, r, j) <= Of(f, r, Len(f))
      BY <1>1, <1>2, <1>3, <2>1
    <3>2. Of(f, r, j) >= 1
      <4>1. j - 1 \in Nat /\ j - 1 \in 0 .. Len(f) /\ (j - 1) + 1 = j
        BY <1>2, <2>1
      <4>2. Of(f, r, (j - 1) + 1) = Of(f, r, j - 1) + 1
        <5>1. f[(j - 1) + 1].req = r
          BY <1>7, <3>1, <4>1
        <5> QED BY <4>1, <5>1, OfNext
      <4>3. Of(f, r, j - 1) \in Nat
        BY <1>3, <4>1
      <4> QED BY <4>1, <4>2, <4>3
    <3>3. Len(s) + Of(f, r, j) \in 1 .. Len(e)
      BY <1>2, <1>c, <1>f, <3>1, <3>2
    <3>4. f[j].life = e[Len(s) + Of(f, r, j)] /\ f[j].fin = (Len(s) + Of(f, r, j) = Length)
      BY <1>7, <2>1, <3>1 DEF Chain
    <3> QED BY <1>d, <3>1, <3>3, <3>4
  <2>2. CASE j = Len(f) + 1
    <3>1. g[j] = x /\ Len(s) + Of(g, r, j) = Len(e) + 1
      BY <1>1, <1>2, <1>c, <1>4, <1>f, <2>2
    <3> QED BY <1>d, <3>1
  <2> QED BY <1>1, <1>2, <2>1, <2>2
<1> QED BY <1>5, <1>6, <1>7 DEF Chain, g, d

\* x, the next item to be stored, is marked when it is the last one of a response.
Marked(e, s, x) == x.fin = (Len(s) + 1 = Length) /\ Len(s) < Len(e)
\* The first item is stored: f[1] is the item g lacks.
LEMMA ChainStored ==
  ASSUME NEW r, NEW e \in Seq(Nat), NEW s \in Seq(Nat), NEW f \in Seq(Item), NEW g \in Seq(Item),
         Len(f) = Len(g) + 1, Shifted(f, g, Len(g)), Chain(e, s, f, r)
  PROVE  /\ f[1].req # r => Chain(e, s, g, r)
         /\ f[1].req = r => /\ Chain(e, Append(s, f[1].life), g, r)
                            /\ Marked(e, s, f[1])
<1>0. \A i \in 1 .. Len(g) : f[i + 1] = g[i]
  BY DEF Shifted
<1>1. Len(g) \in Nat /\ Len(s) \in Nat /\ Len(e) \in Nat /\ 1 \in 1 .. Len(f)
  OBVIOUS
<1>2. \A j \in 0 .. Len(g) :
        Of(f, r, j + 1) = Of(g, r, j) + (IF f[1].req = r THEN 1 ELSE 0)
  <2> TAKE j \in 0 .. Len(g)
  <2>1. j \in Nat
    BY <1>1
  <2>2. Shifted(f, g, j)
    BY <1>0, <1>1, <2>1 DEF Shifted
  <2> QED BY <2>1, <2>2, OfShift
<1>3. \A j \in 0 .. Len(g) : Of(g, r, j) \in Nat
  <2> TAKE j \in 0 .. Len(g)
  <2>1. j \in Nat
    BY <1>1
  <2> QED BY <2>1, OfFinite
<1>4. Len(g) \in 0 .. Len(g) /\ \A j \in 1 .. Len(g) : j \in 0 .. Len(g) /\ j + 1 \in 1 .. Len(f)
  BY <1>1
<1>5. /\ Len(e) = Len(s) + Of(f, r, Len(g) + 1) /\ s = SubSeq(e, 1, Len(s))
      /\ \A j \in 1 .. Len(f) : f[j].req = r =>
           /\ f[j].life = e[Len(s) + Of(f, r, j)]
           /\ f[j].fin = (Len(s) + Of(f, r, j) = Length)
  BY DEF Chain
<1>6. CASE f[1].req # r
  <2>1. \A j \in 0 .. Len(g) : Of(f, r, j + 1) = Of(g, r, j)
    BY <1>2, <1>3, <1>6
  <2>2. Len(e) = Len(s) + Of(g, r, Len(g))
    BY <1>4, <1>5, <2>1
  <2>3. ASSUME NEW j \in 1 .. Len(g), g[j].req = r
        PROVE  /\ g[j].life = e[Len(s) + Of(g, r, j)]
               /\ g[j].fin = (Len(s) + Of(g, r, j) = Length)
    <3>1. g[j] = f[j + 1] /\ j + 1 \in 1 .. Len(f) /\ Of(g, r, j) = Of(f, r, j + 1)
      BY <1>0, <1>4, <2>1
    <3> QED BY <1>5, <2>3, <3>1
  <2> QED BY <1>5, <1>6, <2>2, <2>3 DEF Chain
<1>7. CASE f[1].req = r
  <2> DEFINE t == Append(s, f[1].life)
  <2>1. \A j \in 0 .. Len(g) : Of(f, r, j + 1) = Of(g, r, j) + 1
    BY <1>2, <1>7
  <2>0. Of(f, r, 1) = 1
    <3>1. Of(f, r, 0 + 1) = Of(f, r, 0) + 1
      <4>1. f[0 + 1].req = r
        BY <1>7
      <4> QED BY <4>1, OfNext
    <3> QED BY <3>1, OfZero
  <2>2. f[1].life = e[Len(s) + 1] /\ f[1].fin = (Len(s) + 1 = Length)
    <3>1. f[1].life = e[Len(s) + Of(f, r, 1)] /\ f[1].fin = (Len(s) + Of(f, r, 1) = Length)
      BY <1>1, <1>5, <1>7
    <3> QED BY <2>0, <3>1
  <2>3. Len(e) = Len(s) + (Of(g, r, Len(g)) + 1) /\ Len(s) < Len(e)
    <3>1. Len(e) = Len(s) + Of(f, r, Len(g) + 1)
      BY <1>5
    <3>2. Of(f, r, Len(g) + 1) = Of(g, r, Len(g)) + 1 /\ Of(g, r, Len(g)) \in Nat
      BY <1>3, <1>4, <2>1
    <3> QED BY <1>1, <3>1, <3>2
  <2>4. f[1].life \in Nat
    <3>1. f[1] \in Item
      <4> HIDE DEF Item
      <4> QED BY <1>1
    <3> QED BY <3>1 DEF Item
  <2>5. Len(t) = Len(s) + 1 /\ t = SubSeq(e, 1, Len(s) + 1)
    BY <1>1, <1>5, <2>2, <2>3, <2>4
  <2> HIDE DEF t
  <2>6. Len(e) = Len(t) + Of(g, r, Len(g)) /\ t = SubSeq(e, 1, Len(t))
    <3>1. Of(g, r, Len(g)) \in Nat
      BY <1>3, <1>4
    <3>2. Len(e) = Len(t) + Of(g, r, Len(g))
      BY <1>1, <2>3, <2>5, <3>1
    <3> QED BY <2>5, <3>2
  <2>7. ASSUME NEW j \in 1 .. Len(g), g[j].req = r
        PROVE  /\ g[j].life = e[Len(t) + Of(g, r, j)]
               /\ g[j].fin = (Len(t) + Of(g, r, j) = Length)
    <3>1. g[j] = f[j + 1] /\ j + 1 \in 1 .. Len(f) /\ Of(f, r, j + 1) = Of(g, r, j) + 1
          /\ Of(g, r, j) \in Nat
      BY <1>0, <1>3, <1>4, <2>1
    <3>2. Len(s) + Of(f, r, j + 1) = Len(t) + Of(g, r, j)
      BY <1>1, <2>5, <3>1
    <3> QED BY <1>5, <2>7, <3>1, <3>2
  <2>8. Chain(e, t, g, r)
    BY <2>6, <2>7 DEF Chain
  <2> QED BY <1>7, <2>2, <2>3, <2>8 DEF t, Marked
<1> QED BY <1>6, <1>7

\* Empty records are sound for every step.
LEMMA FreshSound == \A k : Sound(Fresh, k)
<1> TAKE k
<1> SUFFICES ASSUME NEW r \in Req
             PROVE  /\ Len(Fresh[r].toks) <= Length
                    /\ Fresh[r].fin = (Len(Fresh[r].toks) = Length)
                    /\ Fresh[r].step \in {0, k}
  BY DEF Sound
<1>1. Fresh[r].toks = <<>> /\ Fresh[r].fin = FALSE /\ Fresh[r].step = 0
  BY FileTypes
<1>2. Len(Fresh[r].toks) = 0 /\ 0 # Length /\ 0 <= Length
  BY <1>1, RecoveryAssumption
<1>3. Fresh[r].fin = (Len(Fresh[r].toks) = Length)
  BY <1>1, <1>2
<1> QED BY <1>1, <1>2, <1>3

\* The invariant holds at the start.
LEMMA InitRec == Init => RecInv
<1> SUFFICES ASSUME Init PROVE RecInv
  OBVIOUS
<1> USE RecoveryAssumption
<1>i. /\ step = 1 /\ ckpt = 0 /\ iter = 0 /\ pc = "clear" /\ saving = FALSE /\ copying = 0
      /\ engine = [r \in Req |-> <<>>] /\ queue = <<>> /\ hand = NoItem /\ stored = Fresh
      /\ tokens = [iter |-> 0, data |-> Fresh] /\ done = [k \in Step |-> NoFile]
      /\ known = [k \in Step |-> 0] /\ passed = [k \in Step |-> NoFile]
  BY DEF Init
<1>t. Types
  BY InitTypes
<1>1. Control
  <2>1. \A r \in Req : Len(engine[r]) = 0
    BY <1>i
  <2>2. Quiet
    BY <1>i DEF Quiet
  <2>3. pc \notin {"load", "begin"} /\ pc \notin Rolling /\ pc \notin {"iter", "load"}
    BY <1>i DEF Rolling
  <2> QED BY <1>i, <2>1, <2>2, <2>3 DEF Control
<1>2. Follows
  <2>1. pc \notin Rolling /\ Quiet
    BY <1>i DEF Rolling, Quiet
  <2>2. Len(Flight) = 0
    BY <1>t, <2>1, FlightIs
  <2> QED BY <2>1, <2>2 DEF Follows
<1>3. Data
  <2> QED BY <1>i, FreshSound, FileTypes DEF Data
<1>4. Files
  BY <1>i, FileTypes DEF Files, FinishedKept, Step
<1>5. Underway
  <2>1. ~ Running
    BY <1>i DEF Running, Rolling
  <2> QED BY <1>i, <2>1 DEF Underway
<1> QED BY <1>1, <1>2, <1>3, <1>4, <1>5 DEF RecInv

\* The items on their way are those of the queue and its consumer.
LEMMA FlightFrame == UNCHANGED <<queue, hand>> => Flight' = Flight
BY DEF Flight

\* Nothing is on its way when the queue and the hand are empty.
LEMMA QuietFlight ==
  ASSUME Quiet'
  PROVE  Flight' = <<>> /\ \A j \in 1 .. Len(Flight') : Flight'[j].step = iter'
<1>1. Flight' = <<>> \o <<>>
  BY DEF Flight, Quiet
<1> QED BY <1>1

\* A step that touches neither tokens, items nor records, and begins no rollout.
LEMMA FollowsFrame ==
  ASSUME RecInv, UNCHANGED <<engine, queue, hand, stored, iter>>,
         pc' \in Rolling => pc \in Rolling
  PROVE  Follows'
<1>1. Flight' = Flight /\ (Quiet' <=> Quiet)
  BY FlightFrame DEF Quiet
<1>2. \A r : FollowsOf(r)' <=> FollowsOf(r)
  BY <1>1, FollowsIsChain
<1>3. Follows
  BY DEF RecInv
<1>4. pc' \in Rolling \/ ~ Quiet' => \A r \in Req : FollowsOf(r)'
  BY <1>1, <1>2, <1>3 DEF Follows
<1>5. \A j \in 1 .. Len(Flight') : Flight'[j].step = iter'
  BY <1>1, <1>3 DEF Follows
<1> QED BY <1>4, <1>5 DEF Follows

\* Outside a rollout nothing is asked of an empty queue.
LEMMA FollowsQuiet == ASSUME Quiet', pc' \notin Rolling PROVE Follows'
BY QuietFlight DEF Follows

\* Every step keeps what is stored behind the engines.
LEMMA FollowsStep == ASSUME Types, RecInv, CatchesUp, Next, Types' PROVE Follows'
<1> USE DEF trainer, rollout, dict, disk
<1>i. Control /\ Follows
  BY DEF RecInv
<1>q. pc \in Setup => Quiet
  BY <1>i DEF Control
<1>1. CASE ClearWait \/ Wipe \/ UpdateIter \/ TryLoad
  <2>1. pc \in Setup /\ pc' \in Setup \cup {"raised"} /\ UNCHANGED <<queue, hand>>
    BY <1>1 DEF ClearWait, Wipe, UpdateIter, TryLoad, Setup
  <2>2. Quiet' /\ pc' \notin Rolling
    BY <1>q, <2>1 DEF Quiet, Setup, Rolling
  <2> QED BY <2>2, FollowsQuiet
<1>2. CASE Begin \/ Rebuild
  <2>1. engine' = Resent /\ stored' = stored /\ UNCHANGED <<queue, hand>>
    BY <1>2 DEF Begin, Rebuild, Dispatch
  <2>2. Quiet
    BY <1>2, <1>i, <1>q DEF Begin, Rebuild, Control, Quiet, Setup
  <2>3. Quiet'
    BY <2>1, <2>2 DEF Quiet
  <2>4. Flight' = <<>>
    BY <2>3, QuietFlight
  <2>5. ASSUME NEW r \in Req PROVE FollowsOf(r)'
    <3>1. engine'[r] = stored[r].toks /\ stored'[r].toks = stored[r].toks
          /\ stored[r].toks \in Seq(Nat)
      BY <2>1 DEF Resent, Types, Records, Stored, Record
    <3>2. Chain(engine'[r], stored'[r].toks, Flight', r)
      BY <2>4, <3>1, ChainStart
    <3> QED BY <3>2, FollowsIsChain
  <2> QED BY <2>3, <2>5, QuietFlight DEF Follows
<1>3. CASE RolloutEnds \/ PreRebuild \/ Drained \/ AutoSave \/ AutoSaved \/ RolloutFault
           \/ RebuildFault \/ TrainFault \/ AlarmFires
  <2>1. UNCHANGED <<engine, queue, hand, stored, iter>>
    BY <1>3 DEF RolloutEnds, PreRebuild, Drained, AutoSave, AutoSaved, RolloutFault,
           RebuildFault, TrainFault, AlarmFires
  <2>2. pc' \in Rolling => pc \in Rolling
    BY <1>3 DEF RolloutEnds, PreRebuild, Drained, AutoSave, AutoSaved, RolloutFault,
           RebuildFault, TrainFault, AlarmFires, Caught, Rolling
  <2> QED BY <2>1, <2>2, FollowsFrame
<1>4. CASE Train
  <2>1. Quiet' /\ pc' \notin Rolling
    BY <1>4 DEF Train, Quiet, Rolling
  <2> QED BY <2>1, FollowsQuiet
<1>5. CASE Reschedule
  <2>1. CASE reschedules = MaxReschedules
    <3>1. UNCHANGED <<engine, queue, hand, stored, iter>> /\ pc' = "failed"
      BY <1>5, <2>1 DEF Reschedule
    <3> QED BY <3>1, FollowsFrame DEF Rolling
  <2>2. CASE reschedules # MaxReschedules
    <3>1. queue' = <<>> /\ hand' = NoItem /\ pc' \in {"ended", "clear"}
      BY <1>5, <2>2 DEF Reschedule
    <3> QED BY <3>1, FollowsQuiet DEF Quiet, Rolling
  <2> QED BY <2>1, <2>2
<1>6. CASE Take
  <2>1. /\ hand = NoItem /\ queue # <<>> /\ hand' = Head(queue) /\ queue' = Tail(queue)
        /\ UNCHANGED <<pc, engine, stored, iter>>
    BY <1>6 DEF Take
  <2>2. queue \in Seq(Item) /\ Flight = queue
    BY <2>1, FlightIs DEF Types, Streams
  <2>3. Head(queue) \in Item /\ <<Head(queue)>> \o Tail(queue) = queue
    <3> HIDE DEF Item
    <3> QED BY <2>1, <2>2
  <2>4. hand' # NoItem
    BY <2>1, <2>3, NoItemIs
  <2>5. Flight' = Flight
    BY <2>1, <2>2, <2>3, <2>4 DEF Flight
  <2>6. \A r \in Req : FollowsOf(r)
    BY <1>i, <2>1 DEF Follows, Quiet
  <2>7. \A r \in Req : FollowsOf(r)'
    BY <2>1, <2>5, <2>6, FollowsIsChain
  <2> QED BY <1>i, <2>1, <2>5, <2>7 DEF Follows
<1>7. CASE Update
  <2>1. /\ hand # NoItem /\ hand' = NoItem /\ UNCHANGED <<pc, engine, queue, iter>>
        /\ stored' = [stored EXCEPT ![hand.req] =
              [toks |-> Append(@.toks, hand.life), fin |-> hand.fin, step |-> hand.step]]
    BY <1>7 DEF Update
  <2>2. /\ Flight \in Seq(Item) /\ Len(Flight) = Len(queue) + 1 /\ Flight[1] = hand
        /\ \A i \in 1 .. Len(queue) : Flight[i + 1] = queue[i]
    BY <2>1, FlightIs
  <2>s. Shifted(Flight, queue, Len(queue))
    BY <2>2 DEF Shifted
  <2>3. queue \in Seq(Item) /\ hand \in Item
    BY <2>1 DEF Types, Streams
  <2>4. Flight' = queue
    <3>1. Flight' = <<>> \o queue
      BY <2>1 DEF Flight
    <3> HIDE DEF Item
    <3> QED BY <2>3, <3>1
  <2>5. ASSUME NEW r \in Req PROVE FollowsOf(r)'
    <3>1. FollowsOf(r)
      BY <1>i, <2>1 DEF Follows, Quiet
    <3>2. Chain(engine[r], stored[r].toks, Flight, r)
      BY <3>1, FollowsIsChain
    <3>3. engine[r] \in Seq(Nat) /\ stored[r].toks \in Seq(Nat)
      BY DEF Types, Streams, Records, Stored, Record
    <3>4. /\ hand.req # r => Chain(engine[r], stored[r].toks, queue, r)
          /\ hand.req = r => Chain(engine[r], Append(stored[r].toks, hand.life), queue, r)
      BY <2>2, <2>3, <2>s, <3>2, <3>3, ChainStored
    <3>5. stored'[r].toks = IF hand.req = r THEN Append(stored[r].toks, hand.life)
                            ELSE stored[r].toks
      BY <2>1 DEF Types, Records, Stored
    <3>6. Chain(engine'[r], stored'[r].toks, Flight', r)
      BY <2>1, <2>4, <3>4, <3>5
    <3> QED BY <3>6, FollowsIsChain
  <2>6. \A j \in 1 .. Len(Flight') : Flight'[j].step = iter'
    <3>1. \A j \in 1 .. Len(queue) : j + 1 \in 1 .. Len(Flight)
      <4> HIDE DEF Item
      <4> QED BY <2>2, <2>3
    <3> QED BY <1>i, <2>1, <2>2, <2>4, <3>1 DEF Follows
  <2> QED BY <2>5, <2>6 DEF Follows
<1>8. ASSUME NEW r \in Req, Emit(r) PROVE Follows'
  <2> DEFINE x == [req |-> r, step |-> step, life |-> life, fin |-> Len(engine'[r]) = Length]
  <2>1. /\ pc \in {"rollout", "prepare"} /\ engine' = [engine EXCEPT ![r] = Append(@, life)]
        /\ queue' = Append(queue, x) /\ UNCHANGED <<pc, hand, stored, iter, step, life>>
    BY <1>8 DEF Emit
  <2>2. iter = step /\ step \in Step /\ life \in Nat
    BY <1>i, <2>1 DEF Control, Rolling, Types, Scalars, Step
  <2>3. x \in Item
    BY <2>2 DEF Item
  <2>4. queue \in Seq(Item) /\ Flight \in Seq(Item)
    BY FlightIs DEF Types, Streams
  <2>5. engine[r] \in Seq(Nat) /\ engine'[r] = Append(engine[r], life)
        /\ Len(engine'[r]) = Len(engine[r]) + 1
    BY <2>1, <2>2 DEF Types, Streams
  <2>6. x.req = r /\ x.step = iter /\ x.life = life /\ x.fin = (Len(engine[r]) + 1 = Length)
    BY <2>2, <2>5
  <2> HIDE DEF x
  <2>7. Flight' = Append(Flight, x)
    <3>1. CASE hand = NoItem
      <4>1. Flight = queue
        BY <3>1, FlightIs
      <4>2. Flight' = <<>> \o Append(queue, x)
        BY <2>1, <3>1 DEF Flight
      <4> HIDE DEF Item
      <4> QED BY <2>3, <2>4, <4>1, <4>2
    <3>2. CASE hand # NoItem
      <4>1. Flight = <<hand>> \o queue /\ Flight' = <<hand>> \o Append(queue, x)
        BY <2>1, <3>2 DEF Flight
      <4>2. hand \in Item
        BY <3>2 DEF Types, Streams
      <4> HIDE DEF Item
      <4> QED BY <2>3, <2>4, <4>1, <4>2
    <3> QED BY <3>1, <3>2
  <2>8. ASSUME NEW p \in Req PROVE FollowsOf(p)'
    <3>1. Chain(engine[p], stored[p].toks, Flight, p)
      BY <1>i, <2>1, FollowsIsChain DEF Follows, Rolling
    <3>2. engine[p] \in Seq(Nat) /\ stored[p].toks \in Seq(Nat)
      BY DEF Types, Streams, Records, Stored, Record
    <3>3. CASE p = r
      <4>1. Chain(Append(engine[p], x.life), stored[p].toks, Append(Flight, x), p)
        BY <2>3, <2>4, <2>6, <3>1, <3>2, <3>3, ChainSample
      <4>2. Chain(engine'[p], stored'[p].toks, Flight', p)
        BY <2>1, <2>5, <2>6, <2>7, <3>3, <4>1
      <4> QED BY <4>2, FollowsIsChain
    <3>4. CASE p # r
      <4>1. Chain(engine[p], stored[p].toks, Append(Flight, x), p)
        BY <2>3, <2>4, <2>6, <3>1, <3>2, <3>4, ChainPast
      <4>2. engine'[p] = engine[p]
        BY <2>1, <3>4 DEF Types, Streams
      <4>3. Chain(engine'[p], stored'[p].toks, Flight', p)
        BY <2>1, <2>7, <4>1, <4>2
      <4> QED BY <4>3, FollowsIsChain
    <3> QED BY <3>3, <3>4
  <2>9. \A j \in 1 .. Len(Flight') : Flight'[j].step = iter'
    <3>1. \A j \in 1 .. Len(Flight') :
            Flight'[j] = x \/ (j \in 1 .. Len(Flight) /\ Flight'[j] = Flight[j])
      <4> HIDE DEF Item
      <4> QED BY <2>3, <2>4, <2>7
    <3> QED BY <1>i, <2>1, <2>6, <3>1 DEF Follows
  <2> QED BY <2>8, <2>9 DEF Follows
<1> QED BY <1>1, <1>2, <1>3, <1>4, <1>5, <1>6, <1>7, <1>8 DEF Next, Trainer, Tokens, Faulty

-----------------------------------------------------------------------------
(* Records.                                                                 *)

\* Every step leaves sound records of the iteration in TokensDict.
LEMMA StoredSound == ASSUME Types, RecInv, Next, Types' PROVE Sound(stored, iter)'
<1>i. Sound(stored, iter) /\ Control
  BY DEF RecInv, Data
<1>1. CASE stored' = Fresh
  BY <1>1, FreshSound DEF Sound
<1>2. CASE UNCHANGED <<stored, iter>>
  BY <1>2, <1>i DEF Sound
<1>3. CASE UpdateIter
  BY <1>3, <1>1, <1>i DEF UpdateIter, Control
<1>4. CASE TryLoad
  <2>1. pc = "load" /\ iter' = iter /\ iter = step /\ stored = Fresh /\ iter \in Step
    BY <1>4, <1>i DEF TryLoad, Control, Setup, Types, Scalars, Step
  <2>2. \/ stored' = stored
        \/ stored' = done[iter].data /\ done[iter].kind = "file"
        \/ stored' = tokens.data /\ tokens.iter = iter
    BY <1>4 DEF TryLoad
  <2>3. CASE stored' = stored
    BY <1>1, <2>1, <2>3
  <2>4. CASE stored' = done[iter].data /\ done[iter].kind = "file"
    <3>1. Sound(done[iter].data, iter)
      BY <2>1, <2>4 DEF RecInv, Data
    <3> QED BY <2>1, <2>4, <3>1 DEF Sound
  <2>5. CASE stored' = tokens.data /\ tokens.iter = iter
    <3>1. Sound(tokens.data, iter)
      BY <2>5 DEF RecInv, Data
    <3> QED BY <2>1, <2>5, <3>1 DEF Sound
  <2> QED BY <2>2, <2>3, <2>4, <2>5
<1>5. CASE Update
  <2>1. /\ hand # NoItem /\ iter' = iter
        /\ stored' = [stored EXCEPT ![hand.req] =
              [toks |-> Append(@.toks, hand.life), fin |-> hand.fin, step |-> hand.step]]
    BY <1>5 DEF Update
  <2>2. /\ Flight \in Seq(Item) /\ Len(Flight) = Len(queue) + 1 /\ Flight[1] = hand
        /\ \A i \in 1 .. Len(queue) : Flight[i + 1] = queue[i]
    BY <2>1, FlightIs
  <2>s. Shifted(Flight, queue, Len(queue))
    BY <2>2 DEF Shifted
  <2>3. queue \in Seq(Item) /\ hand \in Item
    BY <2>1 DEF Types, Streams
  <2>4. hand.step = iter
    <3>1. 1 \in 1 .. Len(Flight)
      <4> HIDE DEF Item
      <4> QED BY <2>2, <2>3
    <3> QED BY <2>2, <3>1 DEF RecInv, Follows
  <2> SUFFICES ASSUME NEW r \in Req
               PROVE  /\ Len(stored'[r].toks) <= Length
                      /\ stored'[r].fin = (Len(stored'[r].toks) = Length)
                      /\ stored'[r].step \in {0, iter'}
    BY DEF Sound
  <2>5. CASE hand.req = r
    <3>1. stored'[r].toks = Append(stored[r].toks, hand.life)
          /\ stored'[r].fin = hand.fin /\ stored'[r].step = hand.step
      BY <2>1, <2>5 DEF Types, Records, Stored
    <3>2. FollowsOf(r)
      BY <2>1 DEF RecInv, Follows, Quiet
    <3>3. engine[r] \in Seq(Nat) /\ stored[r].toks \in Seq(Nat) /\ hand.life \in Nat
      BY <2>3 DEF Types, Streams, Records, Stored, Record, Item
    <3>4. hand.fin = (Len(stored[r].toks) + 1 = Length) /\ Len(stored[r].toks) < Len(engine[r])
      <4>1. Chain(engine[r], stored[r].toks, Flight, r)
        BY <3>2, FollowsIsChain
      <4>2. /\ Flight[1].fin = (Len(stored[r].toks) + 1 = Length)
            /\ Len(stored[r].toks) < Len(engine[r])
        <5>1. Flight[1].req = r /\ Len(Flight) = Len(queue) + 1
          BY <2>2, <2>5
        <5>2. Flight \in Seq(Item) /\ queue \in Seq(Item)
          BY <2>2, <2>3
        <5> HIDE DEF Item
        <5>3. Marked(engine[r], stored[r].toks, Flight[1])
          BY <2>s, <3>3, <4>1, <5>1, <5>2, ChainStored
        <5> QED BY <5>3 DEF Marked
      <4> QED BY <2>2, <4>2
    <3>5. Len(engine[r]) <= Length
      BY <1>i DEF Control
    <3>6. Len(stored'[r].toks) = Len(stored[r].toks) + 1
      BY <3>1, <3>3
    <3>7. Len(stored[r].toks) + 1 <= Length
      BY <3>3, <3>4, <3>5, RecoveryAssumption
    <3> QED BY <2>1, <2>4, <3>1, <3>4, <3>6, <3>7
  <2>6. CASE hand.req # r
    <3>1. stored'[r] = stored[r]
      BY <2>1, <2>6 DEF Types, Records, Stored
    <3> QED BY <1>i, <2>1, <3>1 DEF Sound
  <2> QED BY <2>5, <2>6
<1>6. UNCHANGED <<stored, iter>> \/ stored' = Fresh \/ UpdateIter \/ TryLoad \/ Update
  BY DEF Next, Trainer, Tokens, Faulty, ClearWait, Wipe, Begin, RolloutEnds, PreRebuild, Drained,
         Rebuild, Train, Reschedule, Take, AutoSave, AutoSaved, RolloutFault, RebuildFault,
         TrainFault, AlarmFires, Emit, dict
<1> QED BY <1>1, <1>2, <1>3, <1>4, <1>5, <1>6

\* Every step leaves sound records in TokensDict, in what is saved and in the files.
LEMMA DataStep == ASSUME Types, RecInv, Next, Types' PROVE Data'
<1>d. Data /\ Files
  BY DEF RecInv
<1>1. Sound(stored, iter)'
  BY StoredSound
<1>2. Sound(tokens.data, tokens.iter)'
  <2>1. UNCHANGED tokens \/ tokens' = [iter |-> iter, data |-> stored]
    BY DEF Next, Trainer, Tokens, Faulty, ClearWait, Wipe, UpdateIter, TryLoad, Begin,
           RolloutEnds, PreRebuild, Drained, Rebuild, Train, Reschedule, Take, Update, AutoSave,
           AutoSaved, RolloutFault, RebuildFault, TrainFault, AlarmFires, Emit, disk
  <2>2. CASE UNCHANGED tokens
    BY <1>d, <2>2 DEF Data, Sound
  <2>3. CASE tokens' = [iter |-> iter, data |-> stored]
    <3>1. tokens'.iter = iter /\ tokens'.data = stored
      BY <2>3
    <3> QED BY <1>d, <3>1 DEF Data, Sound
  <2> QED BY <2>1, <2>2, <2>3
<1>3. ASSUME NEW k \in Step, done'[k].kind = "file"
      PROVE  Sound(done'[k].data, k) /\ Finished(done'[k].data)
  <2>1. CASE Wipe
    <3>1. done'[k] \in {NoFile, done[k]}
      BY <2>1 DEF Wipe
    <3>2. done'[k] = done[k]
      BY <1>3, <3>1, FileTypes
    <3> QED BY <1>d, <1>3, <3>2 DEF Data
  <2>2. CASE AutoSave
    <3>1. done' = done \/ done' = [done EXCEPT ![iter] = Torn]
      BY <2>2 DEF AutoSave
    <3>2. done'[k] = done[k]
      BY <1>3, <3>1, FileTypes DEF Types, Records
    <3> QED BY <1>d, <1>3, <3>2 DEF Data
  <2>3. CASE AutoSaved
    <3>1. copying # 0 /\ done' = [done EXCEPT ![copying] = File(tokens.data)]
      BY <2>3 DEF AutoSaved
    <3>2. CASE k = copying
      <4>1. done'[k] = File(tokens.data) /\ tokens.data \in Stored
        BY <3>1, <3>2 DEF Types, Records
      <4>2. done'[k].data = tokens.data
        BY <4>1, FileTypes
      <4> QED BY <1>d, <3>1, <3>2, <4>2 DEF Data, Files
    <3>3. CASE k # copying
      BY <1>d, <1>3, <3>1, <3>3 DEF Data, Types, Records
    <3> QED BY <3>2, <3>3
  <2>4. UNCHANGED done \/ Wipe \/ AutoSave \/ AutoSaved
    BY DEF Next, Trainer, Tokens, Faulty, ClearWait, UpdateIter, TryLoad, Begin, RolloutEnds,
           PreRebuild, Drained, Rebuild, Train, Reschedule, Take, Update, RolloutFault,
           RebuildFault, TrainFault, AlarmFires, Emit, disk
  <2> QED BY <1>d, <1>3, <2>1, <2>2, <2>3, <2>4 DEF Data
<1> QED BY <1>1, <1>2, <1>3 DEF Data

-----------------------------------------------------------------------------
(* Files.                                                                   *)

\* A checkpoint only adds to the steps that are not repeated.
LEMMA CheckpointGrows == ASSUME Types, Control, Next PROVE ckpt <= ckpt' /\ ckpt \in Nat
<1>1. ckpt' = ckpt \/ Train
  BY DEF Next, Trainer, Tokens, Faulty, ClearWait, Wipe, UpdateIter, TryLoad, Begin,
         RolloutEnds, PreRebuild, Drained, Rebuild, Reschedule, Take, Update, AutoSave,
         AutoSaved, RolloutFault, RebuildFault, TrainFault, AlarmFires, Emit, disk
<1>2. ckpt \in Nat /\ step \in Nat
  BY RecoveryAssumption DEF Types, Scalars
<1>3. CASE Train
  <2>1. ckpt' \in {ckpt, step} /\ ckpt < step
    BY <1>3 DEF Train, Control, Setup, Rolling
  <2> QED BY <1>2, <2>1
<1> QED BY <1>1, <1>2, <1>3

\* A step of the trainer that a restart may repeat could be repeated before.
LEMMA PassedStays ==
  ASSUME Types, Control, Next, NEW k \in Step, passed'[k] = passed[k]
  PROVE  Passed(k)' => Passed(k)
<1>1. ckpt <= ckpt' /\ ckpt \in Nat /\ ckpt' \in Nat
  <2>1. Scalars'
    BY ScalarsStep
  <2> QED BY <2>1, CheckpointGrows, RecoveryAssumption DEF Scalars
<1>2. k \in Nat
  BY DEF Step
<1> QED BY <1>1, <1>2 DEF Passed

\* Files' for a step that touches neither the files nor the history.
LEMMA FilesFrame ==
  ASSUME Types, RecInv, Next, UNCHANGED <<tokens, done, passed>>,
         known' = known \/ known' = [k \in Step |-> 0], copying' \in {0, copying}
  PROVE  Files'
<1>f. Files /\ Control
  BY DEF RecInv
<1>p. \A k \in Step : Passed(k)' => Passed(k)
  BY <1>f, PassedStays
<1>1. FinishedKept'
  <2>1. FinishedKept' <=> \A k \in Step : Passed(k)' => done'[k] # NoFile
    BY DEF FinishedKept, Passed
  <2>2. \A k \in Step : Passed(k) => done[k] # NoFile
    BY <1>f DEF Files, FinishedKept, Passed
  <2> QED BY <1>p, <2>1, <2>2
<1>2. \A k \in Step : known'[k] <= k
  <2>1. \A k \in Step : 0 <= k /\ known[k] <= k
    BY <1>f, RecoveryAssumption DEF Files, Step
  <2> QED BY <2>1
<1>3. \A k \in Step : done'[k].kind = "file" => Same(done[k].data, k)'
  BY <1>f, <1>p DEF Files, Same
<1>4. copying' # 0 => /\ tokens'.iter = copying' /\ Finished(tokens.data)'
                      /\ Same(tokens.data, copying)'
  <2> SUFFICES ASSUME copying' # 0 PROVE /\ tokens'.iter = copying' /\ Finished(tokens.data)'
                                         /\ Same(tokens.data, copying)'
    OBVIOUS
  <2>1. copying' = copying /\ copying # 0 /\ copying \in Step
    BY RecoveryAssumption DEF Types, Scalars, Step
  <2> QED BY <1>f, <1>p, <2>1 DEF Files, Finished, Same
<1> QED BY <1>1, <1>2, <1>3, <1>4 DEF Files

\* Every step keeps the files of the steps a restart may repeat.
LEMMA FilesStep == ASSUME Types, RecInv, Next, Types' PROVE Files'
<1> USE DEF trainer, rollout, dict, disk
<1>f. Files /\ Control /\ Underway
  BY DEF RecInv
<1>a. /\ done \in [Step -> Kept] /\ known \in [Step -> 0 .. MaxStep] /\ DOMAIN passed = Step
      /\ copying \in 0 .. MaxStep /\ iter \in 0 .. MaxStep /\ iter \in Nat /\ copying \in Nat
      /\ \A k : k \in Step <=> (k \in 0 .. MaxStep /\ k # 0)
  <2>1. DOMAIN passed = Step
    BY DEF Types, Records
  <2>2. \A k : k \in Step <=> (k \in 0 .. MaxStep /\ k # 0)
    BY RecoveryAssumption DEF Step
  <2> QED BY <2>1, <2>2, RecoveryAssumption DEF Types, Scalars, Records
<1>1. CASE UNCHANGED <<tokens, done, passed>>
           /\ (known' = known \/ known' = [k \in Step |-> 0]) /\ copying' \in {0, copying}
  BY <1>1, FilesFrame
<1>2. CASE ClearWait
  <2>1. CASE Present = {}
    BY <1>2, <2>1, FilesFrame DEF ClearWait
  <2>2. CASE Present # {}
    <3>1. /\ pc = "clear" /\ copying = 0 /\ HasFile
          /\ passed' = [passed EXCEPT ![step - 1] = File(engine)]
          /\ UNCHANGED <<tokens, done, known, copying, ckpt>>
      BY <1>2, <2>2 DEF ClearWait
    <3>2. stored # Fresh
      <4>1. PICK r \in Req : stored[r] # Blank
        BY <2>2 DEF Present
      <4> QED BY <4>1, FileTypes
    <3>3. iter = step - 1 /\ iter \in Step /\ \A r \in Req : stored[r].toks = engine[r]
      BY <1>f, <1>a, <3>1, <3>2 DEF Control
    <3>4. done[iter] # NoFile
      BY <3>1, FileTypes DEF HasFile
    <3>5. /\ passed'[iter] = File(engine) /\ File(engine).data = engine
          /\ \A k \in Step : k # iter => passed'[k] = passed[k]
      BY <1>a, <3>1, <3>3 DEF File
    <3>6. FinishedKept'
      BY <1>f, <3>1, <3>4, <3>5 DEF Files, FinishedKept
    <3>7. ASSUME NEW k \in Step, done'[k].kind = "file" PROVE Same(done[k].data, k)'
      <4>1. CASE k = iter
        <5>1. done[iter].data = stored
          BY <1>f, <3>1, <3>2, <3>7, <4>1 DEF Underway, Running
        <5> QED BY <3>1, <3>3, <3>5, <4>1, <5>1 DEF Same
      <4>2. CASE k # iter
        BY <1>f, <3>1, <3>5, <3>7, <4>2 DEF Files, Same, Passed
      <4> QED BY <4>1, <4>2
    <3> QED BY <1>f, <3>1, <3>6, <3>7 DEF Files
  <2> QED BY <2>1, <2>2
<1>3. CASE Wipe
  <2>1. /\ UNCHANGED <<tokens, copying, ckpt, passed>>
        /\ known' = [k \in Step |-> IF k \in Expired THEN 0 ELSE known[k]]
        /\ done' = [k \in Step |-> IF \E j \in Expired : known[j] = k THEN NoFile ELSE done[k]]
    BY <1>3 DEF Wipe
  <2>2. ASSUME NEW k \in Step, ckpt < k PROVE done'[k] = done[k]
    <3>1. ASSUME NEW j \in Expired PROVE known[j] # k
      <4>1. known[j] <= j /\ j <= ckpt /\ known[j] \in Nat /\ j \in Nat
        BY <1>f, <1>a DEF Files, Expired, Step
      <4> QED BY <2>2, <4>1 DEF Types, Scalars, Step
    <3> QED BY <2>1, <3>1
  <2>3. FinishedKept'
    BY <1>f, <2>1, <2>2 DEF Files, FinishedKept
  <2>4. \A k \in Step : known'[k] <= k
    BY <1>f, <2>1 DEF Files, Step
  <2>5. ASSUME NEW k \in Step, done'[k].kind = "file" PROVE Same(done[k].data, k)'
    <3>1. done'[k] = done[k]
      BY <2>1, <2>5, FileTypes
    <3> QED BY <1>f, <2>1, <2>5, <3>1 DEF Files, Same, Passed
  <2>6. copying' # 0 => /\ tokens'.iter = copying' /\ Finished(tokens.data)'
                        /\ Same(tokens.data, copying)'
    BY <1>f, <2>1 DEF Files, Finished, Same, Passed
  <2> QED BY <2>3, <2>4, <2>5, <2>6 DEF Files
<1>4. CASE AutoSave
  <2>1. /\ saving /\ copying = 0 /\ tokens' = [iter |-> iter, data |-> stored]
        /\ UNCHANGED <<known, ckpt, passed, stored, iter>>
        /\ \/ AllFinished /\ copying' = iter /\ done' = [done EXCEPT ![iter] = Torn]
           \/ UNCHANGED <<copying, done>>
    BY <1>4 DEF AutoSave
  <2>2. tokens'.iter = iter /\ tokens'.data = stored /\ iter \in Step
    BY <1>f, <1>a, <2>1 DEF Control
  <2>3. FinishedKept'
    <3>1. Torn # NoFile
      BY FileTypes
    <3> QED BY <1>f, <1>a, <2>1, <2>2, <3>1 DEF Files, FinishedKept
  <2>4. ASSUME NEW k \in Step, done'[k].kind = "file" PROVE Same(done[k].data, k)'
    <3>1. done'[k] = done[k]
      BY <1>a, <2>1, <2>4, FileTypes
    <3> QED BY <1>f, <2>1, <2>4, <3>1 DEF Files, Same, Passed
  <2>5. copying' # 0 => /\ tokens'.iter = copying' /\ Finished(tokens.data)'
                        /\ Same(tokens.data, copying)'
    <3> SUFFICES ASSUME copying' # 0 PROVE /\ tokens'.iter = copying' /\ Finished(tokens.data)'
                                           /\ Same(tokens.data, copying)'
      OBVIOUS
    <3>1. AllFinished /\ copying' = iter
      BY <2>1
    <3>2. Finished(stored)
      BY <3>1 DEF AllFinished, Finished
    <3>3. Passed(iter) => Same(stored, iter)
      BY <1>f, <1>a, <2>2, <3>2 DEF Underway
    <3> QED BY <2>1, <2>2, <3>1, <3>2, <3>3 DEF Finished, Same, Passed
  <2> QED BY <1>f, <2>1, <2>3, <2>4, <2>5 DEF Files
<1>5. CASE AutoSaved
  <2>1. /\ copying # 0 /\ copying' = 0 /\ done' = [done EXCEPT ![copying] = File(tokens.data)]
        /\ known' = [known EXCEPT ![iter] = copying] /\ UNCHANGED <<ckpt, passed>>
    BY <1>5 DEF AutoSaved
  <2>2. copying <= iter
    BY <1>f DEF Control
  <2>3. iter \in Step /\ copying \in Step
    BY <1>a, <2>1, <2>2
  <2>4. tokens.data \in Stored
    BY DEF Types, Records
  <2>5. /\ done'[copying] = File(tokens.data) /\ done'[copying].data = tokens.data
        /\ done'[copying].kind = "file" /\ \A k \in Step : k # copying => done'[k] = done[k]
    BY <1>a, <2>1, <2>3, <2>4, FileTypes
  <2>6. FinishedKept'
    <3>1. done'[copying] # NoFile
      BY <2>5, FileTypes
    <3> QED BY <1>f, <2>1, <2>5, <3>1 DEF Files, FinishedKept
  <2>7. \A k \in Step : known'[k] <= k
    BY <1>f, <1>a, <2>1, <2>2, <2>3 DEF Files
  <2>8. ASSUME NEW k \in Step, done'[k].kind = "file" PROVE Same(done[k].data, k)'
    <3>1. CASE k = copying
      <4>1. Same(tokens.data, copying)
        BY <1>f, <2>1 DEF Files
      <4> QED BY <2>1, <2>5, <3>1, <4>1 DEF Same, Passed
    <3>2. CASE k # copying
      BY <1>f, <2>1, <2>5, <2>8, <3>2 DEF Files, Same, Passed
    <3> QED BY <3>1, <3>2
  <2> QED BY <2>1, <2>6, <2>7, <2>8 DEF Files
<1>6. \/ /\ UNCHANGED <<tokens, done, passed>> /\ copying' \in {0, copying}
         /\ known' = known \/ known' = [k \in Step |-> 0]
      \/ ClearWait \/ Wipe \/ AutoSave \/ AutoSaved
  BY DEF Next, Trainer, Tokens, Faulty, UpdateIter, TryLoad, Begin, RolloutEnds, PreRebuild,
         Drained, Rebuild, Train, Reschedule, Take, Update, RolloutFault, RebuildFault,
         TrainFault, AlarmFires, Emit
<1> QED BY <1>1, <1>2, <1>3, <1>4, <1>5, <1>6

-----------------------------------------------------------------------------
(* The rollout that runs.                                                   *)

\* A finished rollout samples and stores no token.
LEMMA FinishedIsQuiet ==
  ASSUME Types, RecInv, Finished(stored), NEW r \in Req, FollowsOf(r)
  PROVE  ~ (Len(engine[r]) < Length) /\ \A j \in 1 .. Len(Flight) : Flight[j].req # r
<1>1. Len(stored[r].toks) = Length /\ Len(engine[r]) <= Length
  BY DEF RecInv, Data, Sound, Finished, Control
<1>2. Flight \in Seq(Item) /\ Len(Flight) \in Nat /\ Length \in Nat
  BY FlightIs, RecoveryAssumption
<1>3. Len(engine[r]) = Length + Of(Flight, r, Len(Flight)) /\ Of(Flight, r, Len(Flight)) \in Nat
  BY <1>1, <1>2, NthIs, OfFinite DEF FollowsOf
<1>4. Of(Flight, r, Len(Flight)) = 0
  <2>1. Len(engine[r]) \in Nat
    BY DEF Types, Streams
  <2> QED BY <1>1, <1>2, <1>3, <2>1
<1>5. {i \in 1 .. Len(Flight) : Flight[i].req = r} = {}
  <2>1. IsFiniteSet({i \in 1 .. Len(Flight) : Flight[i].req = r})
    BY <1>2, OfFinite
  <2> QED BY <1>4, <2>1, FS_EmptySet DEF Of
<1> QED BY <1>2, <1>3, <1>4, <1>5

\* An empty store is not a finished rollout.
LEMMA FreshUnfinished == ~ Finished(Fresh)
BY FileTypes, RecoveryAssumption DEF Finished

\* Underway' for a step that changes neither the records nor what is on its way.
LEMMA UnderwayFrame ==
  ASSUME Types, RecInv, Next, UNCHANGED <<stored, iter, done, copying, tokens, passed>>,
         Quiet => Quiet', Running' => Running,
         pc' = "begin" \/ pc' \in Rolling => pc = "begin" \/ pc \in Rolling
  PROVE  Underway'
<1>u. Underway /\ Control
  BY DEF RecInv
<1>1. Running' => /\ done'[iter'].kind = "file" => done'[iter'].data = stored'
                  /\ copying' # 0 /\ copying' = iter' => tokens'.data = stored'
  BY <1>u DEF Underway
<1>2. ASSUME iter' # 0, Passed(iter)'
      PROVE  /\ Quiet' /\ (Finished(stored)' => Same(stored, iter)')
             /\ pc' = "begin" \/ pc' \in Rolling => Finished(stored)'
  <2>1. iter \in Step /\ iter # 0
    BY <1>2, RecoveryAssumption DEF Types, Scalars, Step
  <2>2. PICK k \in Step : k = iter
    BY <2>1
  <2>3. Passed(iter)
    <3>1. Passed(k)'
      BY <1>2, <2>2 DEF Passed
    <3>2. Passed(k)
      BY <1>u, <3>1, PassedStays
    <3> QED BY <2>2, <3>2
  <2> QED BY <1>u, <2>1, <2>3 DEF Underway, Finished, Same
<1> QED BY <1>1, <1>2 DEF Underway

\* Every step keeps the running rollout equal to the one it repeats.
LEMMA UnderwayStep == ASSUME Types, RecInv, CatchesUp, Next, Types', Files' PROVE Underway'
<1> USE DEF trainer, rollout, dict, disk
<1>i. Files /\ Control /\ Underway /\ Data /\ Follows
  BY DEF RecInv
<1>a. /\ done \in [Step -> Kept] /\ iter \in 0 .. MaxStep /\ DOMAIN passed = Step
      /\ \A k : k \in Step <=> (k \in 0 .. MaxStep /\ k # 0)
  <2>1. DOMAIN passed = Step
    BY DEF Types, Records
  <2>2. \A k : k \in Step <=> (k \in 0 .. MaxStep /\ k # 0)
    BY RecoveryAssumption DEF Step
  <2> QED BY <2>1, <2>2 DEF Types, Scalars, Records
<1>1. CASE ClearWait
  <2>1. pc = "clear" /\ pc' = "wipe" /\ UNCHANGED <<rollout, dict, disk>>
        /\ passed' \in {passed, [passed EXCEPT ![step - 1] = File(engine)]}
    BY <1>1 DEF ClearWait
  <2>2. ~ Running' /\ pc' # "begin" /\ pc' \notin Rolling
    BY <2>1 DEF Running, Rolling
  <2>3. Quiet'
    BY <1>i, <2>1 DEF Control, Setup, Quiet
  <2>4. ASSUME iter' # 0, Finished(stored)' PROVE Same(stored, iter)'
    <3>1. iter \in Step /\ iter = step - 1 /\ \A r \in Req : stored[r].toks = engine[r]
      BY <1>a, <1>i, <2>1, <2>4, FreshUnfinished DEF Control, Finished
    <3>2. CASE passed' = passed
      BY <1>i, <2>1, <2>4, <3>2 DEF Underway, Finished, Same, Passed
    <3>3. CASE passed' = [passed EXCEPT ![step - 1] = File(engine)]
      <4>1. passed'[iter].data = engine
        BY <1>a, <3>1, <3>3 DEF File
      <4> QED BY <2>1, <3>1, <4>1 DEF Same
    <3> QED BY <2>1, <3>2, <3>3
  <2> QED BY <2>2, <2>3, <2>4 DEF Underway
<1>2. CASE Wipe
  <2>1. pc = "wipe" /\ pc' = "iter" /\ stored' = Fresh /\ UNCHANGED <<queue, hand>>
    BY <1>2 DEF Wipe
  <2>2. ~ Running' /\ pc' # "begin" /\ pc' \notin Rolling
    BY <2>1 DEF Running, Rolling
  <2>3. Quiet'
    BY <1>i, <2>1 DEF Control, Setup, Quiet
  <2>4. ~ Finished(stored)'
    BY <2>1, FreshUnfinished DEF Finished
  <2> QED BY <2>2, <2>3, <2>4 DEF Underway
<1>3. CASE UpdateIter
  <2>1. pc = "iter" /\ pc' = "load" /\ stored' = stored /\ UNCHANGED <<queue, hand>>
    BY <1>3 DEF UpdateIter
  <2>2. ~ Running' /\ pc' # "begin" /\ pc' \notin Rolling
    BY <2>1 DEF Running, Rolling
  <2>3. Quiet'
    BY <1>i, <2>1 DEF Control, Setup, Quiet
  <2>4. ~ Finished(stored)'
    BY <1>i, <2>1, FreshUnfinished DEF Control, Finished
  <2> QED BY <2>2, <2>3, <2>4 DEF Underway
<1>4. CASE TryLoad
  <2>1. /\ pc = "load" /\ copying = 0 /\ iter = step /\ iter \in Step /\ stored = Fresh
        /\ UNCHANGED <<queue, hand, iter, copying, tokens, done, ckpt, passed>>
    BY <1>4, <1>i, <1>a DEF TryLoad, Control, Setup, Types, Scalars, Step
  <2>2. Quiet'
    BY <1>i, <2>1 DEF Control, Setup, Quiet
  <2>3. CASE done[iter].kind = "torn"
    <3>1. pc' = "raised" /\ stored' = stored
      BY <1>4, <2>3 DEF TryLoad
    <3>2. ~ Running' /\ pc' # "begin" /\ pc' \notin Rolling
      BY <3>1 DEF Running, Rolling
    <3>3. ~ Finished(stored)'
      BY <2>1, <3>1, FreshUnfinished DEF Finished
    <3> QED BY <2>2, <3>2, <3>3 DEF Underway
  <2>4. CASE done[iter].kind = "file"
    <3>1. stored' = done[iter].data
      BY <1>4, <2>4 DEF TryLoad
    <3>2. Finished(stored)' /\ Same(stored, iter)'
      BY <1>i, <2>1, <2>4, <3>1 DEF Data, Files, Finished, Same, Passed
    <3> QED BY <2>1, <2>2, <3>1, <3>2 DEF Underway
  <2>5. CASE done[iter].kind = "none"
    <3>1. done[iter] = NoFile
      BY <1>a, <2>1, <2>5, FileTypes
    <3>2. ~ Passed(iter)'
      BY <1>i, <2>1, <3>1 DEF Files, FinishedKept, Passed
    <3> QED BY <2>1, <2>2, <2>5, <3>2 DEF Underway
  <2>6. done[iter].kind \in {"none", "torn", "file"}
    BY <1>a, <2>1, FileTypes
  <2> QED BY <2>3, <2>4, <2>5, <2>6
<1>5. CASE Begin \/ RolloutEnds \/ PreRebuild \/ Drained \/ Rebuild \/ RolloutFault \/ RebuildFault
           \/ TrainFault \/ AlarmFires \/ Train
  <2>1. UNCHANGED <<stored, iter, done, copying, tokens, passed, queue, hand>>
    BY <1>5 DEF Begin, RolloutEnds, PreRebuild, Drained, Rebuild, RolloutFault, RebuildFault,
           TrainFault, AlarmFires, Train
  <2>2. /\ pc' = "begin" \/ pc' \in Rolling => pc = "begin" \/ pc \in Rolling
        /\ pc' = "clear" => pc = "train"
    BY <1>5 DEF Begin, RolloutEnds, PreRebuild, Drained, Rebuild, RolloutFault, RebuildFault,
           TrainFault, AlarmFires, Train, Caught, Rolling
  <2>3. Running' => Running
    BY <2>1, <2>2 DEF Running, Rolling
  <2>4. Quiet => Quiet'
    BY <2>1 DEF Quiet
  <2> QED BY <2>1, <2>2, <2>3, <2>4, UnderwayFrame
<1>6. CASE Reschedule
  <2>1. CASE reschedules = MaxReschedules
    <3>1. UNCHANGED <<stored, iter, done, copying, tokens, passed, queue, hand>> /\ pc' = "failed"
      BY <1>6, <2>1 DEF Reschedule
    <3>2. ~ Running' /\ pc' # "begin" /\ pc' \notin Rolling
      BY <3>1 DEF Running, Rolling
    <3> QED BY <3>1, <3>2, UnderwayFrame DEF Quiet
  <2>2. CASE reschedules # MaxReschedules
    <3>1. stored' = Fresh /\ iter' = 0 /\ pc' \in {"ended", "clear"}
      BY <1>6, <2>2 DEF Reschedule
    <3>2. ~ Running'
      BY <3>1 DEF Running, Rolling
    <3> QED BY <3>1, <3>2 DEF Underway
  <2> QED BY <2>1, <2>2
<1>7. CASE Take
  <2>1. queue # <<>> /\ UNCHANGED <<stored, iter, done, copying, tokens, passed, pc, ckpt>>
    BY <1>7 DEF Take
  <2>2. ~ Quiet
    BY <2>1 DEF Quiet
  <2>3. Running' => Running
    BY <2>1 DEF Running
  <2> QED BY <2>1, <2>2, <2>3, UnderwayFrame
<1>8. CASE Update
  <2>1. /\ hand # NoItem /\ pc # "clear" /\ copying = 0
        /\ UNCHANGED <<pc, iter, done, copying, tokens, passed, ckpt>>
    BY <1>8 DEF Update
  <2>2. ~ Finished(stored)
    <3> SUFFICES ASSUME Finished(stored) PROVE FALSE
      OBVIOUS
    <3>1. hand \in Item /\ hand.req \in Req /\ Flight[1] = hand
      BY <2>1, FlightIs DEF Types, Streams, Item
    <3>2. 1 \in 1 .. Len(Flight)
      <4>1. Len(Flight) = Len(queue) + 1
        BY <2>1, FlightIs
      <4>2. Len(queue) \in Nat
        <5> HIDE DEF Item
        <5> QED BY DEF Types, Streams
      <4> QED BY <4>1, <4>2
    <3>3. FollowsOf(hand.req)
      BY <1>i, <2>1, <3>1 DEF Follows, Quiet
    <3> QED BY <3>1, <3>2, <3>3, FinishedIsQuiet
  <2>3. ~ (iter # 0 /\ Passed(iter))'
    <3>1. ~ (iter # 0 /\ Passed(iter))
      BY <1>i, <2>1 DEF Underway, Quiet
    <3> QED BY <2>1, <3>1 DEF Passed
  <2>4. Running' => done'[iter'].kind # "file"
    <3> SUFFICES ASSUME Running', done[iter].kind = "file" PROVE FALSE
      BY <2>1
    <3>1. Running /\ iter \in Step
      BY <1>i, <1>a, <2>1 DEF Running, Control, Types, Scalars, Step, Setup
    <3>2. done[iter].data = stored /\ Finished(done[iter].data)
      BY <1>i, <3>1 DEF Underway, Data
    <3> QED BY <2>2, <3>2
  <2> QED BY <2>1, <2>3, <2>4 DEF Underway
<1>9. CASE AutoSave
  <2>1. /\ saving /\ copying = 0 /\ tokens' = [iter |-> iter, data |-> stored]
        /\ UNCHANGED <<pc, queue, hand, ckpt, passed, stored, iter>>
        /\ \/ AllFinished /\ copying' = iter /\ done' = [done EXCEPT ![iter] = Torn]
           \/ UNCHANGED <<copying, done>>
    BY <1>9 DEF AutoSave
  <2>2. iter \in Step /\ tokens'.data = stored
    BY <1>i, <1>a, <2>1 DEF Control
  <2>3. done'[iter].kind = "file" => done'[iter] = done[iter]
    BY <1>a, <2>1, <2>2, FileTypes
  <2>4. Running' => /\ done'[iter'].kind = "file" => done'[iter'].data = stored'
                    /\ copying' # 0 /\ copying' = iter' => tokens'.data = stored'
    BY <1>i, <2>1, <2>2, <2>3 DEF Underway, Running
  <2>5. ASSUME Passed(iter)'
        PROVE  /\ Quiet' /\ (Finished(stored)' => Same(stored, iter)')
               /\ pc' = "begin" \/ pc' \in Rolling => Finished(stored)'
    <3>1. iter # 0 /\ Passed(iter)
      BY <1>a, <2>1, <2>2, <2>5 DEF Passed
    <3>2. /\ Quiet /\ (Finished(stored) => Same(stored, iter))
          /\ pc = "begin" \/ pc \in Rolling => Finished(stored)
      BY <1>i, <3>1 DEF Underway
    <3> QED BY <2>1, <3>2 DEF Quiet, Finished, Same, Passed
  <2> QED BY <2>4, <2>5 DEF Underway
<1>10. CASE AutoSaved
  <2>1. /\ copying # 0 /\ copying' = 0 /\ done' = [done EXCEPT ![copying] = File(tokens.data)]
        /\ UNCHANGED <<pc, queue, hand, ckpt, passed, stored, iter, tokens>>
    BY <1>10 DEF AutoSaved
  <2>2. iter # 0 => iter \in Step
    BY <1>a
  <2>3. Running' => (done'[iter'].kind = "file" => done'[iter'].data = stored')
    <3> SUFFICES ASSUME Running', done'[iter].kind = "file" PROVE done'[iter].data = stored
      BY <2>1
    <3>1. Running /\ iter \in Step
      BY <1>i, <1>a, <2>1 DEF Running, Control, Types, Scalars, Step, Setup
    <3>2. CASE iter = copying
      <4>1. done'[iter] = File(tokens.data) /\ tokens.data \in Stored
        BY <1>a, <2>1, <3>1, <3>2 DEF Types, Records
      <4>2. done'[iter].data = tokens.data
        BY <4>1, FileTypes
      <4> QED BY <1>i, <2>1, <3>1, <3>2, <4>2 DEF Underway
    <3>3. CASE iter # copying
      BY <1>i, <1>a, <2>1, <3>1, <3>3 DEF Underway
    <3> QED BY <3>2, <3>3
  <2>5. ASSUME iter' # 0, Passed(iter)'
        PROVE  /\ Quiet' /\ (Finished(stored)' => Same(stored, iter)')
               /\ pc' = "begin" \/ pc' \in Rolling => Finished(stored)'
    <3>1. iter # 0 /\ Passed(iter)
      BY <1>a, <2>1, <2>5 DEF Passed
    <3>2. /\ Quiet /\ (Finished(stored) => Same(stored, iter))
          /\ pc = "begin" \/ pc \in Rolling => Finished(stored)
      BY <1>i, <3>1 DEF Underway
    <3> QED BY <2>1, <3>2 DEF Quiet, Finished, Same, Passed
  <2> QED BY <2>1, <2>3, <2>5 DEF Underway
<1>11. ASSUME NEW r \in Req, Emit(r) PROVE Underway'
  <2>1. /\ pc \in {"rollout", "prepare"} /\ Len(engine[r]) < Length
        /\ UNCHANGED <<pc, iter, done, copying, tokens, passed, ckpt, stored>>
    BY <1>11 DEF Emit
  <2>2. ~ Finished(stored)
    BY <1>i, <2>1, FinishedIsQuiet DEF Follows, Rolling
  <2>3. ~ (iter # 0 /\ Passed(iter))'
    <3>1. ~ (iter # 0 /\ Passed(iter))
      BY <1>i, <2>1, <2>2 DEF Underway, Rolling
    <3> QED BY <2>1, <3>1 DEF Passed
  <2>4. Running' => Running
    BY <2>1 DEF Running
  <2> QED BY <1>i, <2>1, <2>3, <2>4 DEF Underway
<1> QED BY <1>1, <1>2, <1>3, <1>4, <1>5, <1>6, <1>7, <1>8, <1>9, <1>10, <1>11
        DEF Next, Trainer, Tokens, Faulty

-----------------------------------------------------------------------------
(* Theorems.                                                                *)

\* The invariant is inductive when training outlasts the backlog of the queue.
LEMMA Inductive == CatchesUp => (Spec => [](Types /\ RecInv))
<1> SUFFICES ASSUME CatchesUp PROVE Spec => [](Types /\ RecInv)
  OBVIOUS
<1>1. Init => Types /\ RecInv
  BY InitTypes, InitRec
<1>2. Types /\ RecInv /\ [Next]_vars => (Types /\ RecInv)'
  <2> SUFFICES ASSUME Types, RecInv, [Next]_vars PROVE (Types /\ RecInv)'
    OBVIOUS
  <2>1. CASE Next
    <3>1. Types'
      BY <2>1, TypesStep DEF RecInv
    <3>2. Files'
      BY <2>1, <3>1, FilesStep
    <3>3. Control' /\ Follows' /\ Data' /\ Underway'
      BY <2>1, <3>1, <3>2, ControlStep, FollowsStep, DataStep, UnderwayStep
    <3> QED BY <3>1, <3>2, <3>3 DEF RecInv
  <2>2. CASE UNCHANGED vars
    <3> USE <2>2 DEF vars, trainer, rollout, dict, disk, RecInv
    <3>1. Types'
      BY DEF Types, Scalars, Streams, Records
    <3>2. Control'
      BY DEF Control, Quiet
    <3>3. Follows'
      BY FollowsFrame
    <3>4. Data'
      BY DEF Data, Sound, Finished
    <3>5. Files'
      BY DEF Files, FinishedKept, Finished, Same, Passed
    <3>6. Underway'
      BY DEF Underway, Running, Finished, Same, Passed, Quiet
    <3> QED BY <3>1, <3>2, <3>3, <3>4, <3>5, <3>6
  <2> QED BY <2>1, <2>2
<1> QED BY <1>1, <1>2, PTL DEF Spec

\* What TokensDict stores belongs, token by token, to the rollout that runs: over
\* rebuilds and restarts no token is lost, stored twice or taken from another step.
THEOREM TokensAreFollowed == CatchesUp => (Spec => []TokensFollow)
<1> SUFFICES ASSUME CatchesUp PROVE Spec => []TokensFollow
  OBVIOUS
<1>1. Types /\ RecInv => TokensFollow
  <2> SUFFICES ASSUME Types, RecInv PROVE TokensFollow
    OBVIOUS
  <2>1. TypeOK
    <3>1. \A r \in Req : Len(stored[r].toks) <= Length /\ Len(engine[r]) <= Length
      BY DEF RecInv, Data, Sound, Control
    <3> QED BY <3>1 DEF Types, Scalars, Records, TypeOK, Setup, Rolling
  <2>2. StoredFollowsEngine
    BY DEF RecInv, Follows, FollowsOf, StoredFollowsEngine, Rolling
  <2>3. OfThisStep
    BY DEF RecInv, Data, Sound, Control, OfThisStep, Rolling
  <2> QED BY <2>1, <2>2, <2>3 DEF TokensFollow
<1> QED BY <1>1, Inductive, PTL

\* The rollout of a step the trainer has gone beyond is on disk until a model
\* checkpoint covers the step, and a step repeated after a restart is trained with
\* the responses it was trained with before.
THEOREM RolloutsAreRepeated == CatchesUp => (Spec => []StepsRepeat)
<1> SUFFICES ASSUME CatchesUp PROVE Spec => []StepsRepeat
  OBVIOUS
<1>1. Types /\ RecInv => StepsRepeat
  <2> SUFFICES ASSUME Types, RecInv PROVE StepsRepeat
    OBVIOUS
  <2>1. FinishedKept
    BY DEF RecInv, Files
  <2>2. ASSUME pc = "train", passed[step] # NoFile PROVE engine = passed[step].data
    <3>1. iter = step /\ iter # 0 /\ step \in Step /\ ckpt < step
      BY <2>2, RecoveryAssumption DEF RecInv, Control, Setup, Rolling, Types, Scalars, Step
    <3>2. Passed(iter)
      BY <2>2, <3>1 DEF Passed
    <3>3. Quiet /\ Same(stored, iter)
      BY <2>2, <3>1, <3>2 DEF RecInv, Underway, Rolling
    <3>4. \A r \in Req : FollowsOf(r)
      BY <2>2 DEF RecInv, Follows, Rolling
    <3>5. \A r \in Req : engine[r] = passed[step].data[r]
      BY <3>1, <3>2, <3>3, <3>4, QuietFollows DEF Same
    <3>6. engine \in [Req -> Seq(Nat)] /\ passed[step].data \in [Req -> Seq(Nat)]
      <4>1. PICK e \in [Req -> Seq(Nat)] : passed[step] = File(e)
        BY <2>2, <3>1 DEF Types, Records
      <4> QED BY <4>1 DEF File, Types, Streams
    <3> QED BY <3>5, <3>6
  <2> QED BY <2>1, <2>2 DEF StepsRepeat, SameRollout
<1> QED BY <1>1, Inductive, PTL
=============================================================================
