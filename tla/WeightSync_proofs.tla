--------------------------- MODULE WeightSync_proofs ---------------------------
(***************************************************************************)
(* Theorems about WeightSync, for every set of replicas, every number of    *)
(* retries and transactions, and both settings of rebuild_group.            *)
(***************************************************************************)
EXTENDS WeightSync, TLAPS

StageNames ==
  {"RESET_GROUP", "ABORT_REQUESTS", "SLEEP", "PREPARE", "INIT_PROCESS_GROUP",
   "BEGIN", "TRANSFER", "FINALIZE", "EXPOSE", "VERIFY_VERSION", "WAKE_UP",
   "RESUME"}
PreCommitNames == StageNames \ {"WAKE_UP", "RESUME"}
AttemptType == [id : Nat, version : Version, epoch : Nat, members : SUBSET Replica]

-----------------------------------------------------------------------------
(***************************************************************************)
(* The stages.                                                              *)
(***************************************************************************)

\* The stage tables of the manager name the stages one expects.
LEMMA StageSets == Stage = StageNames /\ PreCommit = PreCommitNames
<1>1. \A x : x \in Stage <=> x \in StageNames
  BY DEF Stage, StageOrder, StageNames
<1>2. \A x : x \in PreCommit <=> x \in PreCommitNames
  BY DEF PreCommit, StageOrder, StageNames, PreCommitNames
<1> QED BY <1>1, <1>2

\* A stage has one place in the order.
LEMMA RankIs == \A i \in 1..12 : Rank(StageOrder[i]) = i
<1> SUFFICES ASSUME NEW i \in 1..12 PROVE Rank(StageOrder[i]) = i
  OBVIOUS
<1> DEFINE P(j) == j \in 1..12 /\ StageOrder[j] = StageOrder[i]
<1>1. \A j : P(j) <=> j = i
  BY DEF StageOrder
<1>2. (CHOOSE j \in 1..12 : StageOrder[j] = StageOrder[i]) = i
  BY <1>1
<1> QED BY <1>2 DEF Rank

\* The stage that follows each stage before the commit.
LEMMA AfterIs ==
  /\ After("RESET_GROUP") = "ABORT_REQUESTS" /\ After("ABORT_REQUESTS") = "SLEEP"
  /\ After("SLEEP") = "PREPARE" /\ After("PREPARE") = "INIT_PROCESS_GROUP"
  /\ After("INIT_PROCESS_GROUP") = "BEGIN" /\ After("BEGIN") = "TRANSFER"
  /\ After("TRANSFER") = "FINALIZE" /\ After("FINALIZE") = "EXPOSE"
  /\ After("EXPOSE") = "VERIFY_VERSION"
<1>1. \A i \in 1..9 : After(StageOrder[i]) = StageOrder[i + 1]
  BY RankIs DEF After
<1> QED BY <1>1 DEF StageOrder

\* No stage is named as one of the manager's other phases.
LEMMA PhaseNames ==
  Phase = StageNames \cup {"idle", "create", "commit", "PUBLISH", "raised"}
BY StageSets DEF Phase

-----------------------------------------------------------------------------
(***************************************************************************)
(* Type correctness.                                                        *)
(***************************************************************************)

\* What a stage sends is well typed.
LEMMA SentType ==
  ASSUME NEW st \in Stage, NEW a \in AttemptType, NEW g \in Nat
  PROVE  Sent(st, a, g) \subseteq CallType
BY DEF Sent, AttemptType, CallType, Participants, Participant

\* What an answer does to the manager's wait is well typed.
LEMMA AnswerType ==
  ASSUME TypeOK, NEW c \in calls, NEW ok, NEW retryable, Answer(c, ok, retryable)
  PROVE  /\ calls' \subseteq CallType
         /\ waiting' \subseteq Participant
         /\ failed' \subseteq Replica
         /\ fatal' \subseteq Participant
BY DEF Answer, TypeOK, TxnTypeOK, CallType

\* Another member set keeps an attempt well typed.
LEMMA WithMembers ==
  ASSUME NEW a \in AttemptType, NEW S \in SUBSET Replica
  PROVE  [a EXCEPT !.members = S] \in AttemptType
BY DEF AttemptType

\* A retry, or giving up, is well typed, and a retry is one of those allowed.
LEMMA RetryType ==
  ASSUME TypeOK, NEW S \in SUBSET Replica, RetryWith(S)
  PROVE  /\ pc' \in Phase /\ att' \in AttemptType
         /\ retry' \in 0..MaxRetries /\ needsReset' \in BOOLEAN
<1>a. att \in AttemptType
  BY DEF TypeOK, TxnTypeOK, AttemptType
<1> USE WeightSyncAssumption DEF TypeOK, TxnTypeOK
<1>1. CASE S = {} \/ retry >= MaxRetries
  BY <1>1 DEF RetryWith, Phase, AttemptType
<1>2. CASE ~(S = {} \/ retry >= MaxRetries)
  <2>1. /\ pc' = "create" /\ att' = [att EXCEPT !.members = S]
        /\ retry' = retry + 1 /\ needsReset' = TRUE /\ retry < MaxRetries
    BY <1>2 DEF RetryWith
  <2>2. att' \in AttemptType
    BY <2>1, <1>a, WithMembers
  <2> QED BY <2>1, <2>2 DEF Phase
<1> QED BY <1>1, <1>2

\* The initial state is well typed.
LEMMA InitType == Init => TypeOK
<1> SUFFICES ASSUME Init PROVE TypeOK
  OBVIOUS
<1> USE WeightSyncAssumption DEF Init
<1>1. ManagerTypeOK
  BY DEF ManagerTypeOK
<1>2. TxnTypeOK
  <2>1. att \in [id : Nat, version : Version, epoch : Nat, members : SUBSET Replica]
    BY DEF Version
  <2>2. pc \in Phase
    BY DEF Phase
  <2>3. retry \in 0..MaxRetries
    OBVIOUS
  <2>4. needsReset \in BOOLEAN
    OBVIOUS
  <2>5. /\ waiting \subseteq Participant /\ failed \subseteq Replica
        /\ fatal \subseteq Participant /\ acked \subseteq Replica
    OBVIOUS
  <2> QED BY <2>1, <2>2, <2>3, <2>4, <2>5 DEF TxnTypeOK
<1>3. ClusterTypeOK
  BY DEF ClusterTypeOK, Participant, Version, NoGroup
<1>4. ControlTypeOK
  BY DEF ControlTypeOK, Version
<1> QED BY <1>1, <1>2, <1>3, <1>4 DEF TypeOK

\* Every step of the manager keeps the types.
LEMMA ManagerType == TypeOK /\ Manager => TypeOK'
<1> SUFFICES ASSUME TypeOK, Manager PROVE TypeOK'
  OBVIOUS
<1> USE WeightSyncAssumption
<1> USE DEF TypeOK, ManagerTypeOK, TxnTypeOK
<1>att. att \in AttemptType
  BY DEF AttemptType
<1>1. CASE StartSync
  <2>1. att'.version = att.version + 1 /\ att'.members = Known
        /\ att'.id = att.id /\ att'.epoch = att.epoch
        /\ att' = [id |-> att.id, version |-> att.version + 1,
                   epoch |-> att.epoch, members |-> Known]
    BY <1>1, <1>att DEF StartSync, AttemptType
  <2>2. att' \in AttemptType
    BY <1>1, <2>1, <1>att DEF StartSync, AttemptType, Version, Known
  <2> QED BY <1>1, <2>2
          DEF StartSync, ClusterTypeOK, ControlTypeOK, manager, cluster, control,
              Phase, AttemptType
<1>2. CASE CreateAttempt
  <2> DEFINE a == [id |-> att.id + 1, version |-> att.version, epoch |-> epoch,
                   members |-> att.members]
             s == IF needsReset THEN "RESET_GROUP" ELSE "ABORT_REQUESTS"
  <2>1. a \in AttemptType /\ gen' \in Nat
    BY <1>2 DEF CreateAttempt, AttemptType
  <2>2. s \in Stage
    BY StageSets DEF StageNames
  <2>3. /\ pc' = s /\ waiting' = Participants(s, a) /\ failed' = {} /\ fatal' = {}
        /\ calls' = calls \cup Sent(s, a, gen') /\ att' = a
    BY <1>2 DEF CreateAttempt, Enter
  <2>4. calls' \subseteq CallType
    BY <2>1, <2>2, <2>3, SentType
  <2>5. waiting' \subseteq Participant
    BY <2>1, <2>3 DEF Participants, Participant, AttemptType
  <2> QED BY <1>2, <2>1, <2>2, <2>3, <2>4, <2>5
          DEF CreateAttempt, ClusterTypeOK, ControlTypeOK, cluster, control, Phase,
              AttemptType
<1>3. CASE Deadline
  BY <1>3 DEF Deadline, ClusterTypeOK, ControlTypeOK, manager, cluster, control
<1>4. CASE StageOk
  <2>1. CASE pc = "VERIFY_VERSION"
    BY <1>4, <2>1 DEF StageOk, ClusterTypeOK, ControlTypeOK, cluster, control, Phase
  <2>2. CASE pc # "VERIFY_VERSION"
    <3>1. After(pc) \in Stage
      BY <1>4, <2>2, AfterIs, StageSets DEF StageOk, PreCommitNames, StageNames
    <3>2. Enter(After(pc), att, gen)
      BY <1>4, <2>2 DEF StageOk
    <3>3. calls' \subseteq CallType
      BY <3>1, <3>2, <1>att, SentType DEF Enter
    <3>4. waiting' \subseteq Participant
      BY <3>2, <1>att DEF Enter, Participants, Participant, AttemptType
    <3> QED BY <1>4, <3>1, <3>2, <3>3, <3>4
            DEF StageOk, Enter, ClusterTypeOK, ControlTypeOK, cluster, control, Phase
  <2> QED BY <2>1, <2>2
<1>5. CASE StageFailed
  <2>1. RetryWith(att.members \ failed) /\ att.members \ failed \in SUBSET Replica
    BY <1>5, <1>att DEF StageFailed, AttemptType
  <2>2. /\ pc' \in Phase /\ att' \in AttemptType
        /\ retry' \in 0..MaxRetries /\ needsReset' \in BOOLEAN
    BY <2>1, RetryType
  <2>3. ManagerTypeOK'
    <3>1. CASE retry >= MaxRetries
      BY <1>5, <3>1 DEF StageFailed
    <3>2. CASE ~(retry >= MaxRetries)
      <4>1. Drop(failed) /\ gen' = gen
        BY <1>5, <3>2 DEF StageFailed
      <4> QED BY <4>1 DEF Drop
    <3> QED BY <3>1, <3>2
  <2> QED BY <1>5, <2>2, <2>3
          DEF StageFailed, ClusterTypeOK, ControlTypeOK, cluster, AttemptType
<1>6. CASE StageFatal
  BY <1>6 DEF StageFatal, ClusterTypeOK, ControlTypeOK, manager, cluster, control,
              Phase
<1>7. CASE StageStale
  <2>1. RetryWith(att.members \cap Known) /\ att.members \cap Known \in SUBSET Replica
    BY <1>7, <1>att DEF StageStale, AttemptType
  <2>2. /\ pc' \in Phase /\ att' \in AttemptType
        /\ retry' \in 0..MaxRetries /\ needsReset' \in BOOLEAN
    BY <2>1, RetryType
  <2> QED BY <1>7, <2>2
          DEF StageStale, ClusterTypeOK, ControlTypeOK, manager, cluster, control,
              AttemptType
<1>8. CASE Commit
  <2>1. "WAKE_UP" \in Stage
    BY StageSets DEF StageNames
  <2>2. Enter("WAKE_UP", att, gen)
    BY <1>8 DEF Commit
  <2>3. calls' \subseteq CallType
    BY <2>1, <2>2, <1>att, SentType DEF Enter
  <2>4. waiting' \subseteq Participant
    BY <2>2, <1>att DEF Enter, Participants, Participant, AttemptType
  <2> QED BY <1>8, <2>1, <2>2, <2>3, <2>4
          DEF Commit, Enter, ClusterTypeOK, ControlTypeOK, cluster, control, Phase
<1>9. CASE WakeDone
  <2> DEFINE lost == IF Valid(att) THEN failed ELSE {}
             a == [att EXCEPT !.members = @ \ lost]
  <2>1. a \in AttemptType /\ "RESUME" \in Stage
    BY <1>att, StageSets DEF AttemptType, StageNames
  <2>2. /\ pc' = "RESUME" /\ att' = a /\ waiting' = a.members /\ failed' = lost
        /\ fatal' = fatal \cap lost /\ calls' = calls \cup Sent("RESUME", a, gen)
    BY <1>9 DEF WakeDone
  <2>3. calls' \subseteq CallType
    BY <2>1, <2>2, SentType
  <2> QED BY <1>9, <2>1, <2>2, <2>3
          DEF WakeDone, ClusterTypeOK, ControlTypeOK, manager, cluster, control, Phase,
              AttemptType, Participant
<1>10. CASE ResumeDone
  <2> DEFINE valid == Valid(att)
             lost  == IF valid THEN failed ELSE failed \ att.members
             worst == IF valid THEN fatal ELSE fatal \ att.members
  <2>1. /\ failed' = {} /\ fatal' = {}
        /\ UNCHANGED <<gen, att, retry, needsReset, acked, cluster, calls, sup, lb,
                       committed>>
    BY <1>10 DEF ResumeDone
  <2>2. ClusterTypeOK' /\ calls' \subseteq CallType
    BY <2>1 DEF ClusterTypeOK, cluster
  <2>3. CASE worst # {}
    <3>1. /\ pc' = "raised" /\ waiting' = {}
          /\ UNCHANGED <<active, pending, epoch, dirty, reported>>
      BY <1>10, <2>3 DEF ResumeDone
    <3> QED BY <2>1, <2>2, <3>1 DEF ControlTypeOK, Phase
  <2>4. CASE worst = {}
    <3>1. /\ Drop(lost) /\ reported' = reported \cup lost
          /\ pc' \in {"raised", "PUBLISH"}
          /\ waiting' = pending' \cap att.members
      BY <1>10, <2>4 DEF ResumeDone
    <3>2. lost \subseteq Replica
      OBVIOUS
    <3>3. ManagerTypeOK'
      BY <2>1, <3>1 DEF Drop
    <3> HIDE DEF lost
    <3> QED BY <2>1, <2>2, <3>1, <3>2, <3>3 DEF ControlTypeOK, Phase, Participant
  <2> QED BY <2>3, <2>4
<1>11. CASE PublishDone
  BY <1>11 DEF PublishDone, ClusterTypeOK, ControlTypeOK, cluster, control, Phase
<1> QED BY <1>1, <1>2, <1>3, <1>4, <1>5, <1>6, <1>7, <1>8, <1>9, <1>10, <1>11
        DEF Manager

\* Another group keeps a communicator table well typed.
LEMMA WithGroup ==
  ASSUME NEW f \in [Participant -> [gen : Nat, group : SUBSET Replica]],
         NEW p \in Participant, NEW G \in SUBSET Replica
  PROVE  [f EXCEPT ![p].group = G] \in
           [Participant -> [gen : Nat, group : SUBSET Replica]]
<1>1. f[p] \in [gen : Nat, group : SUBSET Replica]
  OBVIOUS
<1>2. [f[p] EXCEPT !.group = G] \in [gen : Nat, group : SUBSET Replica]
  BY <1>1
<1> QED BY <1>2

\* Every remote call keeps the types.
LEMMA RemoteType == ASSUME TypeOK, NEW c \in calls, Remote(c) PROVE TypeOK'
<1>c. /\ c.to \in Participant /\ c.id \in Nat /\ c.version \in Version
      /\ c.members \subseteq Replica /\ c.gen \in Nat
  BY DEF TypeOK, CallType
<1>rest. ASSUME UNCHANGED remoteRest PROVE ManagerTypeOK' /\ ControlTypeOK'
  BY <1>rest DEF remoteRest, manager, control, TypeOK, ManagerTypeOK, ControlTypeOK
<1>txn. ASSUME UNCHANGED remoteRest, waiting' \subseteq Participant,
               failed' \subseteq Replica, fatal' \subseteq Participant
        PROVE  TxnTypeOK'
  BY <1>txn DEF remoteRest, TypeOK, TxnTypeOK
<1>ans. ASSUME NEW ok, NEW retryable, Answer(c, ok, retryable), UNCHANGED remoteRest
        PROVE  ManagerTypeOK' /\ ControlTypeOK' /\ TxnTypeOK' /\ calls' \subseteq CallType
  BY <1>rest, <1>txn, <1>ans, AnswerType
<1>cl. ClusterTypeOK /\ WeightSyncAssumption
  BY WeightSyncAssumption DEF TypeOK
<1>1. CASE ResetGroup(c)
  <2>1. ClusterTypeOK'
    BY <1>1, <1>c, <1>cl DEF ResetGroup, ClusterTypeOK, NoGroup
  <2> QED BY <1>1, <1>ans, <2>1 DEF ResetGroup, Done, TypeOK
<1>2. ASSUME NEW op, NEW from, NEW to \in {"running", "paused", "asleep"},
             SetMode(c, op, from, to)
      PROVE  TypeOK'
  <2>1. ClusterTypeOK'
    BY <1>2, <1>c, <1>cl DEF SetMode, ClusterTypeOK
  <2> QED BY <1>2, <1>ans, <2>1 DEF SetMode, Done, TypeOK
<1>3. CASE AbortRequests(c) \/ Sleep(c) \/ WakeUp(c) \/ ResumeGeneration(c)
  BY <1>2, <1>3 DEF AbortRequests, Sleep, WakeUp, ResumeGeneration
<1>4. CASE Prepare(c)
  <2>1. ClusterTypeOK'
    BY <1>4, <1>cl DEF Prepare, cluster, ClusterTypeOK
  <2> QED BY <1>4, <1>ans, <2>1 DEF Prepare, Done, TypeOK
<1>5. CASE InitGroup(c)
  <2>1. UNCHANGED <<alive, mode, fence, exposed, loaded, stream, remoteRest>>
    BY <1>5 DEF InitGroup
  <2>2. Answer(c, FALSE, FALSE) \/ Answer(c, TRUE, TRUE)
    BY <1>5 DEF InitGroup, Done
  <2>3. comm' = comm \/ comm' = [comm EXCEPT ![c.to].group = c.members]
    BY <1>5 DEF InitGroup
  <2>4. comm' \in [Participant -> [gen : Nat, group : SUBSET Replica]]
    BY <2>3, <1>c, <1>cl, WithGroup DEF ClusterTypeOK
  <2>5. ClusterTypeOK'
    BY <2>1, <2>4, <1>cl DEF ClusterTypeOK
  <2> QED BY <1>ans, <2>1, <2>2, <2>5 DEF TypeOK
<1>6. CASE BeginWeightSync(c)
  <2>1. /\ UNCHANGED <<alive, mode, exposed, loaded, stream, comm, remoteRest>>
        /\ fence' \in {fence,
             [fence EXCEPT ![c.to] = [id |-> c.id, version |-> c.version]]}
    BY <1>6 DEF BeginWeightSync
  <2>2. Answer(c, FALSE, TRUE) \/ Answer(c, TRUE, TRUE)
    BY <1>6 DEF BeginWeightSync, Done
  <2>3. ClusterTypeOK'
    BY <2>1, <1>c, <1>cl DEF ClusterTypeOK
  <2> QED BY <1>ans, <2>1, <2>2, <2>3 DEF TypeOK
<1>7. CASE TransferStart(c)
  <2>1. ClusterTypeOK'
    BY <1>7, <1>c, <1>cl DEF TransferStart, ClusterTypeOK, Torn
  <2> QED BY <1>7, <1>rest, <1>txn, <2>1 DEF TransferStart, TypeOK, TxnTypeOK
<1>8. CASE TransferEnd(c)
  <2>1. ClusterTypeOK'
    BY <1>8, <1>c, <1>cl DEF TransferEnd, ClusterTypeOK
  <2> QED BY <1>8, <1>ans, <2>1 DEF TransferEnd, TypeOK
<1>9. CASE Finalize(c)
  <2>1. ClusterTypeOK'
    BY <1>9, <1>c, <1>cl DEF Finalize, ClusterTypeOK, NoGroup
  <2> QED BY <1>9, <1>ans, <2>1 DEF Finalize, Done, TypeOK
<1>10. CASE SetGlobalSteps(c)
  <2>1. ClusterTypeOK'
    BY <1>10, <1>c, <1>cl DEF SetGlobalSteps, ClusterTypeOK
  <2> QED BY <1>10, <1>ans, <2>1 DEF SetGlobalSteps, TypeOK
<1>11. CASE GetGlobalSteps(c)
  <2>1. ClusterTypeOK'
    BY <1>11, <1>cl DEF GetGlobalSteps, cluster, ClusterTypeOK
  <2> QED BY <1>11, <1>ans, <2>1 DEF GetGlobalSteps, TypeOK
<1>12. CASE CallError(c)
  <2>1. ClusterTypeOK'
    BY <1>12, <1>cl DEF CallError, cluster, ClusterTypeOK
  <2> QED BY <1>12, <1>ans, <2>1 DEF CallError, TypeOK
<1> QED BY <1>1, <1>3, <1>4, <1>5, <1>6, <1>7, <1>8, <1>9, <1>10, <1>11, <1>12
        DEF Remote

\* Every step of the Supervisor, of the load balancer and of a replica that
\* dies keeps the types.
LEMMA ControlType == ASSUME TypeOK, NEW r \in Replica, Control(r) PROVE TypeOK'
<1> USE DEF TypeOK, ManagerTypeOK, TxnTypeOK, ClusterTypeOK, ControlTypeOK
<1>sup. ASSUME NEW x \in {"absent", "unknown", "healthy", "declared", "isolated",
                          "pruned"}
        PROVE  [sup EXCEPT ![r] = x] \in
                 [Replica -> {"absent", "unknown", "healthy", "declared",
                              "isolated", "pruned"}]
  OBVIOUS
<1>1. CASE Declare(r)
  BY <1>1, <1>sup DEF Declare, supRest, txn, cluster
<1>2. CASE ReportFailure(r)
  BY <1>2, <1>sup DEF ReportFailure, supRest, txn, cluster
<1>3. CASE Isolate(r)
  BY <1>3, <1>sup DEF Isolate, supRest, txn, cluster
<1>4. CASE OnReplicaDead(r)
  BY <1>4, <1>sup DEF OnReplicaDead, Drop, supRest, txn, cluster
<1>5. CASE AddPendingReplica(r)
  BY <1>5, <1>sup DEF AddPendingReplica, txn
<1>6. CASE SuperviseReplica(r)
  BY <1>6, <1>sup DEF SuperviseReplica, manager, supRest, txn, cluster
<1>7. CASE AddReplicas(r)
  BY <1>7, <1>sup DEF AddReplicas, txn
<1>8. CASE Promote(r)
  <2>1. /\ UNCHANGED <<manager, pc, att, retry, needsReset, failed, fatal, cluster,
                       calls, reported, committed>>
        /\ waiting' = waiting \ {r}
        /\ lb' \in {lb, lb \cup {r}} /\ acked' \in {acked, acked \cup {r}}
        /\ sup' \in {sup, [sup EXCEPT ![r] = "declared"]}
    BY <1>8 DEF Promote
  <2> QED BY <2>1, <1>sup DEF manager, cluster
<1>9. CASE Die(r)
  BY <1>9 DEF Die, remoteRest, manager, control
<1> QED BY <1>1, <1>2, <1>3, <1>4, <1>5, <1>6, <1>7, <1>8, <1>9 DEF Control

\* Stuttering keeps the types.
LEMMA StutterType == TypeOK /\ UNCHANGED vars => TypeOK'
BY DEF TypeOK, ManagerTypeOK, TxnTypeOK, ClusterTypeOK, ControlTypeOK, vars, manager,
       txn, cluster, control

\* Every variable keeps its type; in particular no transaction makes more
\* attempts than max_weight_sync_retries allows, and no version is shown or
\* committed that no transaction asked for.
THEOREM TypeCorrect == Spec => []TypeOK
<1>1. TypeOK /\ [Next]_vars => TypeOK'
  BY ManagerType, RemoteType, ControlType, StutterType DEF Next
<1> QED BY InitType, <1>1, PTL DEF Spec

-----------------------------------------------------------------------------
(***************************************************************************)
(* Committed members agree, by the invariant AttemptFenced.                 *)
(***************************************************************************)

\* Nothing has been called before the first attempt.
LEMMA InitFenced == Init => AttemptFenced
BY DEF Init, AttemptFenced, NoLaterAttempt, MembersKeep, Running, PastBegin,
       PastTransfer, PastExpose, Answered, Participant

\* A stage of the present attempt is entered: the new calls carry its id and
\* version, and no one has answered yet.
LEMMA EnterFenced ==
  ASSUME TypeOK, NEW st \in Stage, NEW a \in AttemptType, NEW g,
         NoLaterAttempt, a.id >= att.id,
         \A c \in calls : c.id = a.id => c.version = a.version,
         \A r \in Replica : fence[r].id = a.id => fence[r].version = a.version,
         att' = a, pc' = st, calls' = calls \cup Sent(st, a, g),
         UNCHANGED <<fence, stream>>
  PROVE  NoLaterAttempt'
<1>1. \A c \in Sent(st, a, g) : c.id = a.id /\ c.version = a.version
  BY DEF Sent
<1>2. \A c \in calls : c.id \in Nat
  BY DEF TypeOK, CallType
<1>3. \A r \in Replica : fence[r].id \in Nat /\ stream[r] \in Nat
  BY DEF TypeOK, ClusterTypeOK, Participant
<1>4. att.id \in Nat /\ a.id \in Nat
  BY DEF TypeOK, TxnTypeOK, AttemptType
<1>5. \A c \in calls' : c.id <= a.id /\ (c.id = a.id => c.version = a.version)
  BY <1>1, <1>2, <1>4 DEF NoLaterAttempt
<1>6. \A r \in Replica : fence[r].id <= a.id /\ stream[r] <= a.id
  BY <1>3, <1>4 DEF NoLaterAttempt
<1> QED BY <1>5, <1>6 DEF NoLaterAttempt

\* Entering a stage, the stage has no answers; what earlier stages achieved is
\* kept because the replicas do not move.
LEMMA EnterMembers ==
  ASSUME TypeOK, NEW st \in Stage, NEW a \in AttemptType,
         att' = a, pc' = st, UNCHANGED <<fence, stream, loaded, exposed>>,
         a.id = att.id, a.version = att.version, a.members \subseteq att.members,
         \A r \in a.members : r \in waiting' \cup failed',
         st \in PastBegin => \A r \in a.members : fence[r].id = att.id,
         st \in PastTransfer =>
           \A r \in a.members : stream[r] = att.id /\ loaded[r] = att.version,
         st \in PastExpose => \A r \in a.members : exposed[r] = att.version
  PROVE  MembersKeep'
BY DEF MembersKeep, Answered

\* Every step of the manager keeps the invariant.
LEMMA ManagerFenced == TypeOK /\ AttemptFenced /\ Manager => AttemptFenced'
<1> SUFFICES ASSUME TypeOK, AttemptFenced, Manager PROVE AttemptFenced'
  OBVIOUS
<1>t. TypeOK' /\ att \in AttemptType /\ att.id \in Nat /\ att.members \subseteq Replica
  BY ManagerType DEF TypeOK, TxnTypeOK, AttemptType
<1>s. pc \in Stage <=> pc \in StageNames
  BY StageSets
<1>f. NoLaterAttempt /\ MembersKeep
  BY DEF AttemptFenced
<1>1. CASE StartSync
  BY <1>1, <1>f, <1>t, StageSets
     DEF StartSync, AttemptFenced, NoLaterAttempt, MembersKeep, Running, StageNames,
         PastBegin, PastTransfer, PastExpose, Answered, cluster, AttemptType
<1>2. CASE CreateAttempt
  <2> DEFINE a == [id |-> att.id + 1, version |-> att.version, epoch |-> epoch,
                   members |-> att.members]
             s == IF needsReset THEN "RESET_GROUP" ELSE "ABORT_REQUESTS"
  <2>1. /\ pc' = s /\ waiting' = Participants(s, a) /\ failed' = {}
        /\ calls' = calls \cup Sent(s, a, gen') /\ att' = a
        /\ UNCHANGED <<fence, stream, loaded, exposed>>
    BY <1>2 DEF CreateAttempt, Enter, cluster
  <2>2. a \in AttemptType /\ s \in Stage
    BY <1>t, StageSets, ManagerType DEF AttemptType, StageNames, TypeOK, ManagerTypeOK
  <2>3. \A c \in calls : c.id # a.id
    BY <1>f, <1>t DEF NoLaterAttempt
  <2>4. \A r \in Replica : fence[r].id # a.id
    BY <1>f, <1>t DEF NoLaterAttempt
  <2>5. a.id >= att.id
    BY <1>t
  <2>6. NoLaterAttempt'
    <3> HIDE DEF a, s
    <3> QED BY <2>1, <2>2, <2>3, <2>4, <2>5, <1>f, EnterFenced
  <2>7. s \notin PastBegin /\ s \notin PastTransfer /\ s \notin PastExpose
        /\ s \notin {"BEGIN", "TRANSFER", "EXPOSE", "WAKE_UP", "RESUME", "PUBLISH"}
    BY DEF PastBegin, PastTransfer, PastExpose
  <2>8. MembersKeep'
    BY <2>1, <2>7 DEF MembersKeep, Answered
  <2> QED BY <2>1, <2>6, <2>7, <2>8 DEF AttemptFenced
<1>3. CASE Deadline
  <2>1. /\ UNCHANGED <<pc, att, calls, fence, stream, loaded, exposed, committed>>
        /\ failed' = failed \cup (waiting \cap Replica) /\ waiting' = {}
    BY <1>3 DEF Deadline, cluster
  <2>2. MembersKeep'
    BY <2>1, <1>f, <1>t DEF MembersKeep, Answered
  <2>3. NoLaterAttempt'
    BY <2>1, <1>f DEF NoLaterAttempt, Running
  <2> QED BY <2>1, <2>2, <2>3 DEF AttemptFenced
<1>4. CASE StageOk
  <2>1. /\ pc \in PreCommit /\ waiting = {} /\ failed = {}
        /\ UNCHANGED <<att, fence, stream, loaded, exposed, committed>>
    BY <1>4 DEF StageOk, cluster
  <2>2. pc \in PreCommitNames
    BY <2>1, StageSets
  <2>3. CASE pc = "VERIFY_VERSION"
    <3>1. pc' = "commit" /\ UNCHANGED <<waiting, failed, calls>>
      BY <1>4, <2>3 DEF StageOk
    <3>2. NoLaterAttempt'
      BY <2>1, <2>3, <3>1, <1>f, StageSets DEF NoLaterAttempt, Running, StageNames
    <3>3. MembersKeep'
      BY <2>1, <2>3, <3>1, <1>f
         DEF MembersKeep, Answered, PastBegin, PastTransfer, PastExpose
    <3> QED BY <2>1, <3>1, <3>2, <3>3 DEF AttemptFenced
  <2>4. CASE pc # "VERIFY_VERSION"
    <3> DEFINE st == After(pc)
    <3>1. /\ pc' = st /\ waiting' = Participants(st, att) /\ failed' = {}
          /\ calls' = calls \cup Sent(st, att, gen)
      BY <1>4, <2>4 DEF StageOk, Enter
    <3>2. /\ st \in PreCommitNames
          /\ st \in PastBegin => pc \in PastBegin \cup {"BEGIN"}
          /\ st \in PastTransfer => pc \in PastTransfer \cup {"TRANSFER"}
          /\ st \in PastExpose => pc \in PastExpose \cup {"EXPOSE"}
      BY <2>2, <2>4, AfterIs
         DEF PreCommitNames, StageNames, PastBegin, PastTransfer, PastExpose
    <3>3. st \in Stage
      BY <3>2, StageSets DEF PreCommitNames
    <3>4. pc \in Stage
      BY <2>2, StageSets DEF PreCommitNames
    <3> HIDE DEF st
    <3>5. NoLaterAttempt'
      BY <2>1, <3>1, <3>3, <3>4, <1>f, <1>t, EnterFenced DEF NoLaterAttempt, Running
    <3>6. \A r \in att.members :
            /\ st \in PastBegin => fence[r].id = att.id
            /\ st \in PastTransfer => stream[r] = att.id /\ loaded[r] = att.version
            /\ st \in PastExpose => exposed[r] = att.version
      BY <2>1, <3>2, <1>f DEF MembersKeep, Answered
    <3>7. \A r \in att.members : r \in waiting'
      BY <3>1 DEF Participants
    <3>8. MembersKeep'
      BY <2>1, <3>1, <3>3, <3>6, <3>7, <1>t, EnterMembers
    <3> QED BY <3>1, <3>2, <3>5, <3>8
            DEF AttemptFenced, PreCommitNames, StageNames
  <2> QED BY <2>3, <2>4
<1>5. CASE StageFailed \/ StageFatal \/ StageStale
  <2>1. /\ pc' \in {"raised", "create"} /\ att'.id = att.id
        /\ UNCHANGED <<calls, fence, stream>>
    BY <1>5, <1>t DEF StageFailed, StageFatal, StageStale, RetryWith, cluster, AttemptType
  <2>2. NoLaterAttempt'
    BY <2>1, <1>f, StageSets DEF NoLaterAttempt, Running, StageNames
  <2>3. MembersKeep'
    BY <2>1 DEF MembersKeep, Answered, PastBegin, PastTransfer, PastExpose
  <2> QED BY <2>1, <2>2, <2>3 DEF AttemptFenced
<1>6. CASE Commit
  <2>1. /\ pc = "commit" /\ pc' = "WAKE_UP" /\ waiting' = Participants("WAKE_UP", att)
        /\ calls' = calls \cup Sent("WAKE_UP", att, gen) /\ committed' = att.version
        /\ UNCHANGED <<att, fence, stream, loaded, exposed>>
    BY <1>6 DEF Commit, Enter, cluster
  <2>2. "WAKE_UP" \in Stage
    BY StageSets DEF StageNames
  <2>3. NoLaterAttempt'
    BY <2>1, <2>2, <1>f, <1>t, EnterFenced DEF NoLaterAttempt, Running
  <2>4. MembersKeep'
    BY <2>1, <1>f DEF MembersKeep, Answered, PastBegin, PastTransfer, PastExpose
  <2> QED BY <2>1, <2>3, <2>4 DEF AttemptFenced
<1>7. CASE WakeDone
  <2> DEFINE lost == IF Valid(att) THEN failed ELSE {}
             a == [att EXCEPT !.members = @ \ lost]
  <2>1. /\ pc = "WAKE_UP" /\ pc' = "RESUME" /\ att' = a
        /\ calls' = calls \cup Sent("RESUME", a, gen)
        /\ UNCHANGED <<fence, stream, loaded, exposed, committed>>
    BY <1>7 DEF WakeDone, cluster
  <2>2. "RESUME" \in Stage /\ "WAKE_UP" \in Stage
    BY StageSets DEF StageNames
  <2>3. /\ a \in AttemptType /\ a.id = att.id /\ a.version = att.version
        /\ a.members \subseteq att.members
    BY <1>t, WithMembers DEF AttemptType
  <2> HIDE DEF a
  <2>4. NoLaterAttempt'
    BY <2>1, <2>2, <2>3, <1>f, <1>t, EnterFenced DEF NoLaterAttempt, Running
  <2>5. MembersKeep'
    BY <2>1, <2>3, <1>f DEF MembersKeep, Answered, PastBegin, PastTransfer, PastExpose
  <2> QED BY <2>1, <2>3, <2>4, <2>5 DEF AttemptFenced
<1>8. CASE ResumeDone
  <2>1. /\ pc = "RESUME" /\ pc' \in {"raised", "PUBLISH"}
        /\ pc' = "PUBLISH" => waiting' \subseteq att.members
        /\ UNCHANGED <<att, calls, fence, stream, loaded, exposed, committed>>
    BY <1>8 DEF ResumeDone, cluster
  <2>2. NoLaterAttempt'
    BY <2>1, <1>f, StageSets DEF NoLaterAttempt, Running, StageNames
  <2>3. MembersKeep'
    BY <2>1, <1>f DEF MembersKeep, Answered, PastBegin, PastTransfer, PastExpose
  <2> QED BY <2>1, <2>2, <2>3 DEF AttemptFenced
<1>9. CASE PublishDone
  <2>1. pc' = "idle" /\ UNCHANGED <<att, calls, fence, stream>>
    BY <1>9 DEF PublishDone, cluster
  <2>2. NoLaterAttempt'
    BY <2>1, <1>f, StageSets DEF NoLaterAttempt, Running, StageNames
  <2>3. MembersKeep'
    BY <2>1 DEF MembersKeep, Answered, PastBegin, PastTransfer, PastExpose
  <2> QED BY <2>1, <2>2, <2>3 DEF AttemptFenced
<1> QED BY <1>1, <1>2, <1>3, <1>4, <1>5, <1>6, <1>7, <1>8, <1>9 DEF Manager

\* An answer leaves no new call, and a member counts as having answered only
\* if it had, or if the call was its call of this stage and went well.
LEMMA AnswerHeard ==
  ASSUME NEW c \in calls, NEW ok \in BOOLEAN, NEW retryable \in BOOLEAN,
         Answer(c, ok, retryable)
  PROVE  /\ calls' \subseteq calls
         /\ \A r \in Replica : r \notin waiting' \cup failed' =>
              \/ r \notin waiting \cup failed
              \/ c.to = r /\ c.id = att.id /\ c.op = pc /\ ok
         /\ waiting' \subseteq waiting
BY DEF Answer

\* Every remote call keeps the invariant: the fences turn away what is old.
LEMMA RemoteFenced ==
  ASSUME TypeOK, AttemptFenced, NEW c \in calls, Remote(c)
  PROVE  AttemptFenced'
<1>c. /\ c.to \in Participant /\ c.id \in Nat /\ c.version \in Version
      /\ c.id <= att.id /\ att.id \in Nat /\ att.members \subseteq Replica
      /\ \A p \in Participant : stream[p] \in Nat
  BY DEF TypeOK, TxnTypeOK, ClusterTypeOK, CallType, AttemptFenced, NoLaterAttempt
<1>f. NoLaterAttempt /\ MembersKeep
  BY DEF AttemptFenced
<1>t. /\ fence \in [Replica -> [id : Nat, version : Version]]
      /\ exposed \in [Replica -> Version]
      /\ loaded \in [Replica -> Version \cup {Torn}]
      /\ stream \in [Participant -> Nat]
  BY DEF TypeOK, ClusterTypeOK
<1>p. Replica \subseteq Participant
  BY DEF Participant
\* What happens when the calls answered leave fences and models alone.
<1>quiet. ASSUME UNCHANGED <<fence, stream, loaded, exposed, remoteRest>>,
                 NEW ok \in BOOLEAN, NEW retryable \in BOOLEAN,
                 Answer(c, ok, retryable), c.op \notin {"BEGIN", "TRANSFER", "EXPOSE"}
          PROVE  AttemptFenced'
  <2>1. UNCHANGED <<pc, att, committed>>
    BY <1>quiet DEF remoteRest
  <2>2. NoLaterAttempt'
    BY <1>quiet, <2>1, <1>f, AnswerHeard DEF NoLaterAttempt, Running
  <2>3. MembersKeep'
    BY <1>quiet, <2>1, <1>f, <1>c, AnswerHeard DEF MembersKeep, Answered
  <2> QED BY <1>quiet, <2>1, <2>2, <2>3, AnswerHeard DEF AttemptFenced
<1>1. CASE ResetGroup(c)
  BY <1>1, <1>quiet DEF ResetGroup, Next1, Done
<1>2. CASE AbortRequests(c) \/ Sleep(c) \/ WakeUp(c) \/ ResumeGeneration(c)
  BY <1>2, <1>quiet DEF AbortRequests, Sleep, WakeUp, ResumeGeneration, SetMode,
                        Next1, Done
<1>3. CASE Prepare(c)
  BY <1>3, <1>quiet DEF Prepare, Next1, Done, cluster
<1>4. CASE InitGroup(c)
  <2>1. Answer(c, FALSE, FALSE) \/ Answer(c, TRUE, TRUE)
    BY <1>4 DEF InitGroup, Done
  <2>2. c.op = "INIT_PROCESS_GROUP"
        /\ UNCHANGED <<fence, stream, loaded, exposed, remoteRest>>
    BY <1>4 DEF InitGroup, Next1
  <2> QED BY <2>1, <2>2, <1>quiet
<1>5. CASE Finalize(c)
  BY <1>5, <1>quiet DEF Finalize, Next1, Done
<1>6. CASE GetGlobalSteps(c)
  <2>1. Answer(c, exposed[c.to] = c.version, TRUE) /\ c.op = "VERIFY_VERSION"
        /\ UNCHANGED <<fence, stream, loaded, exposed, remoteRest>>
    BY <1>6 DEF GetGlobalSteps, Next1, cluster
  <2> QED BY <2>1, <1>quiet
<1>7. CASE CallError(c)
  <2>1. Answer(c, FALSE, FALSE) /\ UNCHANGED <<fence, stream, loaded, exposed, remoteRest>>
    BY <1>7 DEF CallError, cluster
  <2>2. UNCHANGED <<pc, att, committed>>
    BY <2>1 DEF remoteRest
  <2>3. NoLaterAttempt'
    BY <2>1, <2>2, <1>f, AnswerHeard DEF NoLaterAttempt, Running
  <2>4. MembersKeep'
    BY <2>1, <2>2, <1>f, <1>c, AnswerHeard DEF MembersKeep, Answered
  <2> QED BY <2>1, <2>2, <2>3, <2>4, AnswerHeard DEF AttemptFenced
<1>8. CASE BeginWeightSync(c)
  <2>1. /\ c.op = "BEGIN" /\ UNCHANGED <<exposed, loaded, stream, pc, att, committed>>
    BY <1>8 DEF BeginWeightSync, Next1, remoteRest
  <2>2. CASE c.id < fence[c.to].id
    <3>1. Answer(c, FALSE, TRUE) /\ UNCHANGED fence
      BY <1>8, <2>2 DEF BeginWeightSync
    <3>2. NoLaterAttempt'
      BY <2>1, <3>1, <1>f, AnswerHeard DEF NoLaterAttempt, Running
    <3>3. MembersKeep'
      BY <2>1, <3>1, <1>f, <1>c, AnswerHeard DEF MembersKeep, Answered
    <3> QED BY <2>1, <3>1, <3>2, <3>3, AnswerHeard DEF AttemptFenced
  <2>3. CASE ~(c.id < fence[c.to].id)
    <3>1. /\ Answer(c, TRUE, TRUE)
          /\ fence' = [fence EXCEPT ![c.to] = [id |-> c.id, version |-> c.version]]
      BY <1>8, <2>3 DEF BeginWeightSync, Done
    <3>2. \A r \in Replica :
            /\ r # c.to => fence'[r] = fence[r]
            /\ r = c.to => fence'[r].id = c.id /\ fence'[r].version = c.version
      BY <3>1, <1>t
    <3>6. calls' \subseteq calls
      BY <3>1, AnswerHeard
    <3>7. \A r \in Replica :
            /\ fence'[r].id <= att.id
            /\ Running /\ fence'[r].id = att.id => fence'[r].version = att.version
      BY <3>2, <1>f, <1>c DEF NoLaterAttempt
    <3>8. Running' <=> Running
      BY <2>1 DEF Running
    <3>3. NoLaterAttempt'
      BY <2>1, <3>6, <3>7, <3>8, <1>f DEF NoLaterAttempt
    <3>4. \A r \in Replica : fence[r].id = att.id => fence'[r].id = att.id
      <4>1. ASSUME NEW r \in Replica, fence[r].id = att.id, r = c.to
            PROVE  c.id = att.id
        BY <4>1, <2>3, <1>c
      <4> QED BY <4>1, <3>2
    <3>5. MembersKeep'
      <4>1. ASSUME NEW r \in att.members, pc \in PastBegin \/ Answered("BEGIN", r)'
            PROVE  fence'[r].id = att.id
        <5>1. CASE pc \in PastBegin \/ Answered("BEGIN", r)
          BY <5>1, <3>4, <1>f, <1>c DEF MembersKeep
        <5>2. CASE c.to = r /\ c.id = att.id
          BY <5>2, <3>2, <1>c
        <5> QED BY <4>1, <5>1, <5>2, <2>1, <3>1, <1>c, AnswerHeard DEF Answered
      <4>2. ASSUME NEW r \in att.members, NEW s \in {"TRANSFER", "EXPOSE"},
                   Answered(s, r)'
            PROVE  Answered(s, r)
        BY <4>2, <2>1, <3>1, <1>c, AnswerHeard DEF Answered
      <4> QED BY <4>1, <4>2, <2>1, <1>f DEF MembersKeep
    <3> QED BY <2>1, <3>1, <3>3, <3>5, AnswerHeard DEF AttemptFenced
  <2> QED BY <2>2, <2>3
<1>9. CASE TransferStart(c)
  <2>1. /\ c.op = "TRANSFER" /\ ~(c.id <= stream[c.to])
        /\ stream' = [stream EXCEPT ![c.to] = c.id]
        /\ UNCHANGED <<exposed, fence, pc, att, committed, calls, waiting, failed>>
    BY <1>9 DEF TransferStart, Next1, Started, remoteRest
  <2>2. \A r \in Replica : r # c.to => loaded'[r] = loaded[r] /\ stream'[r] = stream[r]
    BY <1>9, <2>1, <1>t, <1>p DEF TransferStart
  <2>3. \A r \in Replica : stream'[r] <= att.id
    BY <2>1, <1>c, <1>f, <1>t, <1>p DEF NoLaterAttempt
  <2>4. NoLaterAttempt'
    BY <2>1, <2>3, <1>f DEF NoLaterAttempt, Running
  <2>5. stream[c.to] # att.id
    BY <2>1, <1>c
  <2>6. MembersKeep'
    BY <2>1, <2>2, <2>5, <1>f, <1>c DEF MembersKeep, Answered
  <2> QED BY <2>1, <2>4, <2>6 DEF AttemptFenced
<1>10. CASE TransferEnd(c)
  <2>1. /\ c.op = "TRANSFER" /\ Answer(c, stream[c.to] = c.id, FALSE)
        /\ loaded' = IF c.to # Trainer /\ stream[c.to] = c.id
                     THEN [loaded EXCEPT ![c.to] = c.version] ELSE loaded
        /\ UNCHANGED <<fence, exposed, stream, pc, att, committed>>
    BY <1>10 DEF TransferEnd, Started, remoteRest
  <2>2. NoLaterAttempt'
    BY <2>1, <1>f, AnswerHeard DEF NoLaterAttempt, Running
  <2>3. \A r \in Replica : loaded'[r] =
          IF r = c.to /\ stream[c.to] = c.id THEN c.version ELSE loaded[r]
    BY <2>1, <1>t, WeightSyncAssumption
  <2>4. c.id = att.id /\ Running => c.version = att.version
    BY <1>f DEF NoLaterAttempt
  <2>5. pc \in PastTransfer \cup {"TRANSFER"} => Running
    BY StageSets DEF Running, StageNames, PastTransfer, PastExpose
  <2>6. ASSUME NEW r \in att.members,
               pc \in PastTransfer \/ Answered("TRANSFER", r)'
        PROVE  stream[r] = att.id /\ loaded'[r] = att.version
    <3>1. r \in Replica /\ Running
      BY <1>c, <2>1, <2>5, <2>6 DEF Answered
    <3>2. \/ pc \in PastTransfer \/ Answered("TRANSFER", r)
          \/ c.to = r /\ c.id = att.id /\ stream[c.to] = c.id
      BY <2>1, <2>6, <3>1, AnswerHeard DEF Answered
    <3> QED BY <3>1, <3>2, <2>3, <2>4, <1>f DEF MembersKeep
  <2>7. MembersKeep'
    BY <2>1, <2>6, <1>f, <1>c, AnswerHeard DEF MembersKeep, Answered
  <2> QED BY <2>1, <2>2, <2>7, AnswerHeard DEF AttemptFenced
<1>11. CASE SetGlobalSteps(c)
  <2> DEFINE current == fence[c.to] = [id |-> c.id, version |-> c.version]
  <2>1. /\ c.op = "EXPOSE" /\ Answer(c, current, FALSE)
        /\ exposed' = IF current THEN [exposed EXCEPT ![c.to] = c.version] ELSE exposed
        /\ UNCHANGED <<fence, loaded, stream, pc, att, committed>>
    BY <1>11 DEF SetGlobalSteps, Next1, remoteRest
  <2>2. NoLaterAttempt'
    BY <2>1, <1>f, AnswerHeard DEF NoLaterAttempt, Running
  <2>3. \A r \in Replica : exposed'[r] =
          IF r = c.to /\ current THEN c.version ELSE exposed[r]
    BY <2>1, <1>t
  <2>4. current => fence[c.to].id = c.id
    OBVIOUS
  <2> HIDE DEF current
  <2>5. c.id = att.id /\ Running => c.version = att.version
    BY <1>f DEF NoLaterAttempt
  <2>6. ASSUME NEW r \in att.members,
               pc \in PastExpose \/ Answered("EXPOSE", r)'
        PROVE  exposed'[r] = att.version
    <3>1. r \in Replica /\ Running
      BY <1>c, <2>1, <2>6, StageSets DEF Answered, Running, PastExpose, StageNames
    <3>2. CASE pc \in PastExpose \/ Answered("EXPOSE", r)
      <4>1. exposed[r] = att.version /\ (pc \in PastExpose => fence[r].id = att.id)
        BY <3>2, <1>f DEF MembersKeep, PastBegin, PastTransfer
      <4>2. pc = "EXPOSE" => fence[r].id = att.id
        BY <1>f DEF MembersKeep, PastBegin, PastTransfer
      <4>3. fence[r].id = att.id
        BY <3>2, <4>1, <4>2 DEF Answered
      <4> QED BY <2>3, <2>4, <2>5, <3>1, <4>1, <4>3
    <3>3. CASE c.to = r /\ c.id = att.id /\ current
      BY <3>1, <3>3, <2>3, <2>5
    <3>4. current \in BOOLEAN
      BY DEF current
    <3> QED BY <2>1, <2>6, <3>1, <3>2, <3>3, <3>4, AnswerHeard DEF Answered
  <2>7. MembersKeep'
    <3>4. current \in BOOLEAN
      BY DEF current
    <3> QED BY <2>1, <2>6, <3>4, <1>f, <1>c, AnswerHeard DEF MembersKeep, Answered
  <2>8. waiting' \subseteq waiting
    <3>4. current \in BOOLEAN
      BY DEF current
    <3> QED BY <2>1, <3>4, AnswerHeard
  <2> QED BY <2>1, <2>2, <2>7, <2>8 DEF AttemptFenced
<1> QED BY <1>1, <1>2, <1>3, <1>4, <1>5, <1>6, <1>7, <1>8, <1>9, <1>10, <1>11
        DEF Remote

\* Nothing the Supervisor, the load balancer or a dying replica does touches an
\* attempt, its fences or the models.
LEMMA ControlFenced ==
  ASSUME TypeOK, AttemptFenced, NEW r \in Replica, Control(r)
  PROVE  AttemptFenced'
<1>1. CASE Promote(r)
  <2>1. /\ pc = "PUBLISH" /\ waiting' \subseteq waiting
        /\ UNCHANGED <<pc, att, failed, calls, fence, stream, loaded, exposed, committed>>
    BY <1>1 DEF Promote, cluster
  <2>2. NoLaterAttempt'
    BY <2>1 DEF AttemptFenced, NoLaterAttempt, Running
  <2>3. MembersKeep'
    BY <2>1 DEF AttemptFenced, MembersKeep, Answered
  <2> QED BY <2>1, <2>2, <2>3 DEF AttemptFenced
<1>2. CASE ~Promote(r)
  <2>1. /\ calls' \subseteq calls
        /\ UNCHANGED <<pc, att, waiting, failed, fence, stream, loaded, exposed, committed>>
    BY <1>2 DEF Control, Declare, ReportFailure, Isolate, OnReplicaDead,
                AddPendingReplica, SuperviseReplica, AddReplicas, Die, supRest,
                remoteRest, txn, cluster
  <2>2. NoLaterAttempt'
    BY <2>1 DEF AttemptFenced, NoLaterAttempt, Running
  <2>3. MembersKeep'
    BY <2>1 DEF AttemptFenced, MembersKeep, Answered
  <2> QED BY <2>1, <2>2, <2>3 DEF AttemptFenced
<1> QED BY <1>1, <1>2

\* The invariant is inductive: whatever calls of abandoned attempts are still
\* on their way, and in whatever order they arrive, a member keeps what it
\* answered for in the present attempt.
THEOREM Fenced == Spec => []AttemptFenced
<1>1. TypeOK /\ AttemptFenced /\ UNCHANGED vars => AttemptFenced'
  BY DEF vars, txn, cluster, AttemptFenced, NoLaterAttempt, MembersKeep, Running,
         Answered
<1>2. TypeOK /\ AttemptFenced /\ [Next]_vars => AttemptFenced'
  BY <1>1, ManagerFenced, RemoteFenced, ControlFenced DEF Next
<1> QED BY TypeCorrect, InitFenced, <1>2, PTL DEF Spec

\* After the commit of a transaction every member has the whole of the
\* committed weights and shows their version (_commit_attempt, after the
\* transfer, set_global_steps and get_global_steps of every member).
THEOREM CommittedAgree == Spec => []CommittedMembersAgree
<1>1. AttemptFenced => CommittedMembersAgree
  BY DEF AttemptFenced, MembersKeep, CommittedMembersAgree, PastBegin, PastTransfer,
         PastExpose
<1> QED BY <1>1, Fenced, PTL

\* The load balancer admits a replica only in the publication that follows its
\* own synchronisation, and then it holds the committed weights
\* (_publish_promoted_replicas).
THEOREM AdmittedCommitted == Spec => AdmittedAfterCommit
<1> DEFINE A == \A r \in lb' \ lb :
                  pc = "PUBLISH" /\ r \in att.members /\ loaded[r] = committed
<1>1. ASSUME TypeOK, AttemptFenced, Next PROVE A
  <2>1. CASE \E r \in Replica : Promote(r)
    <3>1. PICK r \in Replica : Promote(r)
      BY <2>1
    <3>2. pc = "PUBLISH" /\ r \in waiting /\ lb' \subseteq lb \cup {r}
      BY <3>1 DEF Promote
    <3>3. r \in att.members /\ committed = att.version /\ loaded[r] = att.version
      BY <1>1, <3>2 DEF AttemptFenced, MembersKeep, PastTransfer, PastExpose
    <3> QED BY <3>2, <3>3
  <2>2. CASE Manager
    <3>1. lb' = lb
      BY <2>2 DEF Manager, StartSync, CreateAttempt, Deadline, StageOk, StageFailed,
                  StageFatal, StageStale, Commit, WakeDone, ResumeDone, PublishDone,
                  control
    <3> QED BY <3>1
  <2>3. ASSUME NEW c \in calls, Remote(c) PROVE A
    <3>1. UNCHANGED remoteRest
      BY <2>3 DEF Remote, ResetGroup, AbortRequests, Sleep, WakeUp, ResumeGeneration,
                  SetMode, Prepare, InitGroup, BeginWeightSync, TransferStart,
                  TransferEnd, Finalize, SetGlobalSteps, GetGlobalSteps, CallError
    <3> QED BY <3>1 DEF remoteRest, control
  <2>4. ASSUME NEW r \in Replica, Control(r), ~Promote(r) PROVE A
    <3>1. lb' \subseteq lb
      BY <2>4 DEF Control, Declare, ReportFailure, Isolate, OnReplicaDead,
                  AddPendingReplica, SuperviseReplica, AddReplicas, Die, remoteRest,
                  control
    <3> QED BY <3>1
  <2> QED BY <1>1, <2>1, <2>2, <2>3, <2>4 DEF Next
<1>2. TypeOK /\ AttemptFenced /\ [Next]_vars => [A]_vars
  BY <1>1
<1> QED BY TypeCorrect, Fenced, <1>2, PTL DEF Spec, AdmittedAfterCommit

-----------------------------------------------------------------------------
(***************************************************************************)
(* One communicator for the members of the attempt.                        *)
(***************************************************************************)

\* A replica the manager has not yet put into an attempt.
Leaving  == IF pc = "RESUME" THEN failed ELSE {}
Newcomer == (Known \ (att.members \cup Leaving)) \cup {r \in Replica : sup[r] = "absent"}
Untouched(p) == comm[p] = [gen |-> 0, group |-> NoGroup]

\* Generations: none is newer than the manager's, and the attempt's calls are
\* of that one.
Generations ==
  /\ \A p \in Participant : comm[p].gen <= gen
  /\ \A c \in calls : c.gen <= gen /\ (c.id = att.id => c.gen = gen)

\* A replica in no attempt has no communicator and is sent nothing.
NewcomersUntouched ==
  /\ \A r \in Replica : sup[r] = "absent" => r \notin Known \cup att.members
  /\ pc # "raised" => \A r \in Newcomer : Untouched(r) /\ \A c \in calls : c.to # r

BeforeInit   == {"ABORT_REQUESTS", "SLEEP", "PREPARE"}
BeforeFinish == {"RESET_GROUP", "INIT_PROCESS_GROUP", "BEGIN", "TRANSFER"} \cup BeforeInit
Ok(p) == p \notin waiting \cup failed \cup fatal
Members == att.members \cup {Trainer}

\* The calls of an attempt are made for its members, and FINALIZE comes last.
CallsOfAttempt ==
  /\ pc \in PreCommit => \A c \in calls : c.id = att.id => c.members = att.members
  /\ pc \in BeforeFinish => \A c \in calls : c.id = att.id => c.op # "FINALIZE"
  /\ pc \in PreCommit \cup {"create"} => att.members # {}

\* A reset is over when every participant is of the manager's generation; a
\* replica that came without a reset has no communicator.
OfGeneration ==
  /\ pc \notin {"create", "RESET_GROUP", "raised"} => ~ needsReset
  /\ pc = "RESET_GROUP" => needsReset /\ \A p \in Members : Ok(p) => comm[p].gen = gen
  /\ pc # "raised" /\ ~ needsReset =>
       /\ comm[Trainer].gen = gen
       /\ \A r \in att.members :
            \/ comm[r].gen = gen
            \/ Untouched(r) /\ \A c \in calls : c.to = r => c.op # "RESET_GROUP"

\* Who has answered INIT_PROCESS_GROUP is in the attempt's communicator, and
\* has no call left that would take it away.
Joins(p) ==
  /\ comm[p] = [gen |-> gen, group |-> att.members]
  /\ \A c \in calls : c.to = p => c.op \notin {"INIT_PROCESS_GROUP", "FINALIZE"}
Joined ==
  \A p \in Members :
    pc \in {"BEGIN", "TRANSFER"} \/ (pc = "INIT_PROCESS_GROUP" /\ Ok(p)) => Joins(p)

CInv == Generations /\ NewcomersUntouched /\ CallsOfAttempt /\ OfGeneration /\ Joined

-----------------------------------------------------------------------------
\* The initial state: no attempt, no calls, no communicator.
LEMMA InitCommunicator == Init => CInv
<1> SUFFICES ASSUME Init PROVE CInv
  OBVIOUS
<1>1. /\ pc = "idle" /\ att.members = {} /\ calls = {} /\ gen = 0 /\ needsReset = FALSE
      /\ \A p \in Participant : Untouched(p) /\ comm[p].gen = 0
      /\ active = Initial /\ pending = {}
      /\ \A r \in Replica : sup[r] = "absent" => r \notin Initial
  <2>1. /\ pc = "idle" /\ att.members = {} /\ calls = {} /\ gen = 0 /\ needsReset = FALSE
        /\ active = Initial /\ pending = {}
    BY DEF Init
  <2>2. \A p \in Participant : comm[p] = [gen |-> 0, group |-> NoGroup]
    BY DEF Init
  <2>3. \A r \in Replica : sup[r] = IF r \in Initial THEN "healthy" ELSE "absent"
    BY DEF Init
  <2>4. \A p \in Participant : Untouched(p) /\ comm[p].gen = 0
    BY <2>2 DEF Untouched
  <2> QED BY <2>1, <2>3, <2>4
<1>2. Trainer \in Participant /\ Replica \subseteq Participant
  BY DEF Participant
<1>3. Generations
  BY <1>1 DEF Generations
<1>4. NewcomersUntouched
  BY <1>1, <1>2, WeightSyncAssumption DEF NewcomersUntouched, Known, Newcomer
<1>5. CallsOfAttempt
  BY <1>1, StageSets DEF CallsOfAttempt, PreCommitNames, StageNames
<1>6. OfGeneration
  BY <1>1, <1>2 DEF OfGeneration
<1>7. Joined
  BY <1>1 DEF Joined
<1> QED BY <1>3, <1>4, <1>5, <1>6, <1>7 DEF CInv

\* A step that changes no communicator, sends nothing and lets nobody answer
\* a reset or a rendezvous.
LEMMA CommunicatorFrame ==
  ASSUME CInv, UNCHANGED <<pc, att, gen, needsReset, comm>>, calls' \subseteq calls,
         pc \in {"RESET_GROUP", "INIT_PROCESS_GROUP"} => \A p \in Members : Ok(p)' => Ok(p),
         Newcomer' \subseteq Newcomer,
         \A r \in Replica : sup'[r] = "absent" => r \notin Known' \cup att.members
  PROVE  CInv'
<1>1. Generations'
  BY DEF CInv, Generations
<1>2. NewcomersUntouched'
  BY DEF CInv, NewcomersUntouched, Untouched
<1>3. CallsOfAttempt'
  BY DEF CInv, CallsOfAttempt
<1>4. OfGeneration'
  BY DEF CInv, OfGeneration, Untouched, Members
<1>5. Joined'
  BY DEF CInv, Joined, Joins, Members
<1> QED BY <1>1, <1>2, <1>3, <1>4, <1>5 DEF CInv

\* What a stage sends is of the attempt and of its generation, and goes to its
\* participants.
LEMMA SentCalls ==
  ASSUME NEW st, NEW a, NEW g
  PROVE  \A c \in Sent(st, a, g) :
           /\ c.op = st /\ c.id = a.id /\ c.members = a.members /\ c.gen = g
           /\ c.to \in a.members \cup {Trainer}
BY DEF Sent, Participants

\* Every step of the manager keeps it: an attempt with other members is made
\* only with a reset due, and the stages come one after another.
LEMMA ManagerCommunicator ==
  ASSUME TypeOK, NoLaterAttempt, CInv, Manager
  PROVE  CInv'
<1>t. /\ att \in AttemptType /\ att.id \in Nat /\ gen \in Nat /\ att.members \subseteq Replica
      /\ Trainer \notin Replica /\ Known \subseteq Replica
      /\ comm \in [Participant -> [gen : Nat, group : SUBSET Replica]]
      /\ \A c \in calls : c.id \in Nat /\ c.id <= att.id /\ c.gen \in Nat
  BY WeightSyncAssumption
     DEF TypeOK, ManagerTypeOK, TxnTypeOK, ClusterTypeOK, CallType, AttemptType, Known, NoLaterAttempt
<1>i. /\ Generations /\ NewcomersUntouched /\ CallsOfAttempt /\ OfGeneration /\ Joined
  BY DEF CInv
<1>p. \A p \in Participant : comm[p].gen \in Nat
  BY <1>t
<1>m. Members \subseteq Participant
  BY <1>t DEF Members, Participant
<1>1. CASE StartSync
  <2>1. /\ pc = "idle" /\ att'.id = att.id /\ att'.members = Known
        /\ pc' = IF Known = {} THEN "raised" ELSE "create"
        /\ needsReset' = (dirty \/ pending # {})
        /\ UNCHANGED <<active, pending, gen, comm, calls, sup>>
    BY <1>1, <1>t DEF StartSync, AttemptType, manager, cluster, control
  <2>2. Generations'
    BY <2>1, <1>i DEF Generations
  <2>3. NewcomersUntouched'
    BY <2>1, <1>i DEF NewcomersUntouched, Newcomer, Known, Untouched
  <2>4. CallsOfAttempt'
    BY <2>1, StageSets DEF CallsOfAttempt, BeforeFinish, BeforeInit, PreCommitNames, StageNames, Known
  <2>5. OfGeneration'
    <3>1. ~ needsReset /\ comm[Trainer].gen = gen
      BY <2>1, <1>i DEF OfGeneration
    <3>2. ASSUME NEW r \in Known
          PROVE  \/ comm[r].gen = gen
                 \/ Untouched(r) /\ \A c \in calls : c.to = r => c.op # "RESET_GROUP"
      <4>1. CASE r \in att.members
        BY <2>1, <3>1, <4>1, <1>i DEF OfGeneration
      <4>2. CASE r \notin att.members
        <5>1. r \in Newcomer
          BY <2>1, <4>2 DEF Newcomer, Leaving
        <5> QED BY <2>1, <5>1, <1>i DEF NewcomersUntouched
      <4> QED BY <4>1, <4>2
    <3> QED BY <2>1, <3>1, <3>2 DEF OfGeneration, Untouched, Known
  <2>6. Joined'
    BY <2>1 DEF Joined
  <2> QED BY <2>2, <2>3, <2>4, <2>5, <2>6 DEF CInv
<1>2. CASE CreateAttempt
  <2> DEFINE a == [id |-> att.id + 1, version |-> att.version, epoch |-> epoch,
                   members |-> att.members]
             st == IF needsReset THEN "RESET_GROUP" ELSE "ABORT_REQUESTS"
  <2>1. /\ pc = "create" /\ att' = a /\ pc' = st
        /\ gen' = (IF needsReset THEN gen + 1 ELSE gen)
        /\ waiting' = Participants(st, a)
        /\ calls' = calls \cup Sent(st, a, gen')
        /\ UNCHANGED <<active, pending, needsReset, comm, sup>>
    BY <1>2 DEF CreateAttempt, Enter, cluster, control
  <2>2. att'.id = att.id + 1 /\ att'.members = att.members
    BY <2>1
  <2>3. \A c \in calls' :
          \/ c \in calls /\ c.id < att'.id /\ c.gen <= gen
          \/ /\ c.op = st /\ c.id = att'.id /\ c.members = att.members /\ c.gen = gen'
             /\ c.to \in Members
    <3>1. \A c \in calls : c.id < att'.id /\ c.gen <= gen
      BY <2>2, <1>t, <1>i DEF Generations
    <3>2. \A c \in Sent(st, a, gen') :
             /\ c.op = st /\ c.id = att'.id /\ c.members = att.members /\ c.gen = gen'
             /\ c.to \in Members
      <4> HIDE DEF st
      <4> QED BY <2>1, SentCalls DEF Members
    <3> QED BY <2>1, <3>1, <3>2
  <2>4. Generations'
    <3>1. gen' \in Nat /\ gen <= gen' /\ \A p \in Participant : comm[p].gen <= gen'
      BY <2>1, <1>t, <1>p, <1>i DEF Generations
    <3>2. \A c \in calls : c.gen <= gen'
      BY <3>1, <1>t, <1>i DEF Generations
    <3>3. \A c \in calls : c.id # att'.id
      BY <2>2, <1>t
    <3>4. \A c \in calls' : c.gen <= gen' /\ (c.id = att'.id => c.gen = gen')
      BY <2>3, <3>1, <3>2, <3>3
    <3> QED BY <2>1, <3>1, <3>4 DEF Generations
  <2>5. NewcomersUntouched'
    <3>1. Newcomer' = Newcomer
      BY <2>1, <2>2 DEF Newcomer, Known, Leaving
    <3>2. \A r \in Newcomer : r \notin Members
      BY <1>t, <1>i DEF Newcomer, Members, NewcomersUntouched
    <3>3. \A r \in Newcomer : Untouched(r) /\ \A c \in calls : c.to # r
      BY <2>1, <1>i DEF NewcomersUntouched
    <3>4. \A r \in Newcomer : \A c \in calls' : c.to # r
      BY <2>3, <3>2, <3>3
    <3> QED BY <2>1, <2>2, <3>1, <3>3, <3>4, <1>i DEF NewcomersUntouched, Untouched, Known
  <2>6. CallsOfAttempt'
    <3>1. att.members # {}
      BY <2>1, <1>i DEF CallsOfAttempt
    <3>2. \A c \in calls' : c.id = att'.id => c.members = att'.members /\ c.op # "FINALIZE"
      BY <2>2, <2>3, <1>t
    <3> QED BY <2>2, <3>1, <3>2 DEF CallsOfAttempt
  <2>7. OfGeneration'
    <3>1. CASE needsReset
      <4>1. pc' = "RESET_GROUP" /\ Members' \subseteq waiting'
        BY <2>1, <3>1 DEF Members, Participants, EngineStage
      <4> QED BY <2>1, <3>1, <4>1 DEF OfGeneration, Ok
    <3>2. CASE ~ needsReset
      <4>1. /\ pc' = "ABORT_REQUESTS" /\ ~ needsReset' /\ gen' = gen
            /\ \A c \in calls' : c \in calls \/ c.op = "ABORT_REQUESTS"
        BY <2>1, <2>3, <3>2
      <4>2. /\ comm[Trainer].gen = gen
            /\ \A r \in att.members :
                 \/ comm[r].gen = gen
                 \/ Untouched(r) /\ \A c \in calls : c.to = r => c.op # "RESET_GROUP"
        BY <2>1, <3>2, <1>i DEF OfGeneration
      <4> QED BY <2>1, <2>2, <4>1, <4>2 DEF OfGeneration, Untouched
    <3> QED BY <3>1, <3>2
  <2>8. Joined'
    BY <2>1 DEF Joined
  <2> QED BY <2>4, <2>5, <2>6, <2>7, <2>8 DEF CInv
<1>3. CASE Deadline
  <2>1. /\ UNCHANGED <<pc, att, gen, needsReset, comm, calls, active, pending, sup>>
        /\ failed' = failed \cup (waiting \cap Replica)
        /\ fatal' = fatal \cup (waiting \cap {Trainer}) /\ waiting' = {}
    BY <1>3 DEF Deadline, manager, cluster, control
  <2>2. \A p \in Members : Ok(p)' => Ok(p)
    BY <2>1, <1>t DEF Ok, Members
  <2>3. Newcomer' \subseteq Newcomer
    BY <2>1 DEF Newcomer, Known, Leaving
  <2> QED BY <2>1, <2>2, <2>3, <1>i, CommunicatorFrame DEF NewcomersUntouched, Known
<1>4. CASE StageOk
  <2>0. /\ pc \in PreCommitNames /\ waiting = {} /\ failed = {} /\ fatal = {}
        /\ needsReset' = (needsReset /\ pc # "RESET_GROUP")
        /\ UNCHANGED <<att, gen, comm, active, pending, sup>>
    BY <1>4, StageSets DEF StageOk, cluster, control
  <2>n. Newcomer' = Newcomer
    <3>1. pc' # "RESUME" /\ pc # "RESUME"
      BY <1>4, <2>0, AfterIs DEF StageOk, Enter, PreCommitNames, StageNames
    <3> QED BY <2>0, <3>1 DEF Newcomer, Known, Leaving
  <2>ok. \A p \in Members : Ok(p)
    BY <2>0 DEF Ok
  <2>g. /\ pc' # "RESET_GROUP" /\ pc' # "raised" /\ ~ needsReset'
        /\ comm[Trainer].gen = gen
        /\ \A r \in att.members :
             \/ comm[r].gen = gen
             \/ Untouched(r) /\ \A c \in calls : c.to = r => c.op # "RESET_GROUP"
    <3>1. pc' # "RESET_GROUP" /\ pc' # "raised"
      BY <1>4, <2>0, AfterIs DEF StageOk, Enter, PreCommitNames, StageNames
    <3>2. CASE pc = "RESET_GROUP"
      BY <2>0, <2>ok, <3>1, <3>2, <1>i DEF OfGeneration, Members
    <3>3. CASE pc # "RESET_GROUP"
      <4>1. ~ needsReset /\ pc # "raised"
        BY <2>0, <3>3, <1>i DEF OfGeneration, PreCommitNames, StageNames
      <4>2. ~ needsReset'
        BY <2>0, <4>1
      <4>3. /\ comm[Trainer].gen = gen
            /\ \A r \in att.members :
                 \/ comm[r].gen = gen
                 \/ Untouched(r) /\ \A c \in calls : c.to = r => c.op # "RESET_GROUP"
        BY <4>1, <1>i DEF OfGeneration
      <4> QED BY <3>1, <4>2, <4>3
    <3> QED BY <3>2, <3>3
  <2>1. CASE pc = "VERIFY_VERSION"
    <3>1. pc' = "commit" /\ UNCHANGED <<waiting, failed, fatal, calls>>
      BY <1>4, <2>1 DEF StageOk
    <3>2. OfGeneration'
      BY <2>0, <2>g, <3>1 DEF OfGeneration, Untouched
    <3>3. Generations' /\ NewcomersUntouched'
      BY <2>0, <2>1, <2>n, <3>1, <1>i DEF Generations, NewcomersUntouched, Untouched, Known
    <3>4. CallsOfAttempt' /\ Joined'
      BY <3>1, StageSets DEF CallsOfAttempt, Joined, PreCommitNames, StageNames, BeforeFinish, BeforeInit
    <3> QED BY <3>2, <3>3, <3>4 DEF CInv
  <2>2. CASE pc # "VERIFY_VERSION"
    <3> DEFINE st == After(pc)
    <3>1. /\ pc' = st /\ waiting' = Participants(st, att)
          /\ calls' = calls \cup Sent(st, att, gen)
      BY <1>4, <2>2 DEF StageOk, Enter
    <3>2. /\ st \in PreCommitNames \ {"RESET_GROUP"}
          /\ st = "BEGIN" => pc = "INIT_PROCESS_GROUP"
          /\ st = "TRANSFER" => pc = "BEGIN"
          /\ st \in BeforeFinish => pc \in BeforeFinish
      BY <2>0, <2>2, AfterIs DEF PreCommitNames, StageNames, BeforeFinish, BeforeInit
    <3> HIDE DEF st
    <3>3. \A c \in calls' : c \in calls \/
            (c.op = st /\ c.id = att.id /\ c.members = att.members /\ c.gen = gen /\ c.to \in Members)
      BY <3>1, SentCalls DEF Members
    <3>4. Generations'
      <4>1. gen <= gen
        BY <1>t
      <4> QED BY <2>0, <3>3, <4>1, <1>i DEF Generations
    <3>5. NewcomersUntouched'
      <4>1. \A r \in Newcomer : r \notin Members
        BY <1>t, <1>i DEF Newcomer, Members, NewcomersUntouched
      <4>2. pc # "raised"
        BY <2>0 DEF PreCommitNames, StageNames
      <4>3. \A r \in Newcomer : Untouched(r) /\ \A c \in calls' : c.to # r
        BY <3>3, <4>1, <4>2, <1>i DEF NewcomersUntouched
      <4> QED BY <2>0, <2>n, <4>3, <1>i DEF NewcomersUntouched, Untouched, Known
    <3>6. CallsOfAttempt'
      <4>1. att.members # {} /\ \A c \in calls : c.id = att.id => c.members = att.members
        BY <2>0, <1>i, StageSets DEF CallsOfAttempt
      <4>2. st \in BeforeFinish =>
              st # "FINALIZE" /\ \A c \in calls : c.id = att.id => c.op # "FINALIZE"
        BY <3>2, <1>i DEF CallsOfAttempt, BeforeFinish, BeforeInit
      <4>3. \A c \in calls' : c.id = att.id => c.members = att.members
        BY <3>3, <4>1
      <4>4. st \in BeforeFinish => \A c \in calls' : c.id = att.id => c.op # "FINALIZE"
        BY <3>3, <4>2
      <4> QED BY <2>0, <3>1, <4>1, <4>3, <4>4 DEF CallsOfAttempt
    <3>7. OfGeneration'
      <4>1. \A c \in calls' : c.op = "RESET_GROUP" => c \in calls
        BY <3>2, <3>3
      <4> QED BY <2>0, <2>g, <4>1 DEF OfGeneration, Untouched
    <3>8. Joined'
      <4>1. CASE st \in {"BEGIN", "TRANSFER"}
        <5>1. \A p \in Members : Joins(p)
          BY <2>ok, <3>2, <4>1, <1>i DEF Joined
        <5>2. \A c \in calls' : c.op \in {"INIT_PROCESS_GROUP", "FINALIZE"} => c \in calls
          BY <3>3, <4>1
        <5> QED BY <2>0, <5>1, <5>2 DEF Joined, Joins, Members
      <4>2. CASE st = "INIT_PROCESS_GROUP"
        <5>1. Members' \subseteq waiting'
          BY <2>0, <3>1, <4>2 DEF Members, Participants, EngineStage
        <5> QED BY <3>1, <4>2, <5>1 DEF Joined, Ok
      <4>3. CASE st \notin {"BEGIN", "TRANSFER", "INIT_PROCESS_GROUP"}
        BY <3>1, <4>3 DEF Joined
      <4> QED BY <4>1, <4>2, <4>3
    <3> QED BY <3>4, <3>5, <3>6, <3>7, <3>8 DEF CInv
  <2> QED BY <2>1, <2>2
<1>5. CASE StageFailed \/ StageFatal \/ StageStale
  <2>1. /\ pc' \in {"raised", "create"} /\ att'.id = att.id
        /\ att'.members \subseteq att.members /\ Known' \subseteq Known
        /\ pc # "RESUME" /\ pc # "raised"
        /\ UNCHANGED <<gen, comm, calls, sup>>
    <3>1. \A S \in SUBSET Replica : RetryWith(S) =>
             pc' \in {"raised", "create"} /\ att'.id = att.id /\ att'.members \in {att.members, S}
      BY <1>t DEF RetryWith, AttemptType
    <3>2. pc # "RESUME" /\ pc # "raised"
      BY <1>5, StageSets DEF StageFailed, StageFatal, StageStale, PreCommitNames, StageNames
    <3>3. CASE StageFailed
      <4>1. RetryWith(att.members \ failed) /\ att.members \ failed \in SUBSET Replica
        BY <3>3, <1>t DEF StageFailed
      <4>2. Known' \subseteq Known /\ UNCHANGED <<gen, comm, calls, sup>>
        BY <3>3 DEF StageFailed, Drop, Known, cluster
      <4> QED BY <3>1, <3>2, <4>1, <4>2
    <3>4. CASE StageFatal
      BY <3>2, <3>4 DEF StageFatal, manager, cluster, control, Known
    <3>5. CASE StageStale
      <4>1. RetryWith(att.members \cap Known) /\ att.members \cap Known \in SUBSET Replica
        BY <3>5, <1>t DEF StageStale
      <4>2. Known' \subseteq Known /\ UNCHANGED <<gen, comm, calls, sup>>
        BY <3>5 DEF StageStale, Known, manager, cluster, control
      <4> QED BY <3>1, <3>2, <4>1, <4>2
    <3> QED BY <1>5, <3>3, <3>4, <3>5
  <2>2. pc' = "create" => needsReset' /\ att'.members # {} /\ Newcomer' \subseteq Newcomer
    <3> SUFFICES ASSUME pc' = "create"
                 PROVE  needsReset' /\ att'.members # {} /\ Newcomer' \subseteq Newcomer
      OBVIOUS
    <3>1. CASE StageFailed
      <4>1. /\ att'.members = att.members \ failed /\ needsReset' /\ att'.members # {}
            /\ Known' = Known \ failed
        BY <3>1, <1>t DEF StageFailed, RetryWith, Drop, Known, AttemptType
      <4> QED BY <2>1, <4>1 DEF Newcomer, Leaving
    <3>2. CASE StageStale
      <4>1. /\ att'.members = att.members \cap Known /\ needsReset' /\ att'.members # {}
            /\ Known' = Known
        BY <3>2, <1>t DEF StageStale, RetryWith, manager, Known, AttemptType
      <4> QED BY <2>1, <4>1 DEF Newcomer, Leaving
    <3> QED BY <1>5, <3>1, <3>2 DEF StageFatal
  <2>3. Generations'
    BY <2>1, <1>i DEF Generations
  <2>4. NewcomersUntouched'
    BY <2>1, <2>2, <1>i DEF NewcomersUntouched, Untouched
  <2>5. CallsOfAttempt'
    BY <2>1, <2>2, StageSets DEF CallsOfAttempt, BeforeFinish, BeforeInit, PreCommitNames, StageNames
  <2>6. OfGeneration' /\ Joined'
    BY <2>1, <2>2 DEF OfGeneration, Joined
  <2> QED BY <2>3, <2>4, <2>5, <2>6 DEF CInv
<1>6. CASE Commit \/ WakeDone
  <2> DEFINE st == pc'
  <2>1. /\ pc \in {"commit", "WAKE_UP"} /\ pc' \in {"WAKE_UP", "RESUME"}
        /\ att'.id = att.id /\ att'.members \subseteq att.members
        /\ \E a : a.members = att'.members /\ a.id = att.id /\ calls' = calls \cup Sent(pc', a, gen)
        /\ UNCHANGED <<active, pending, gen, needsReset, comm, sup>>
    <3>1. CASE Commit
      BY <3>1 DEF Commit, Enter, cluster, control
    <3>2. CASE WakeDone
      <4> DEFINE a == [att EXCEPT !.members = @ \ (IF Valid(att) THEN failed ELSE {})]
      <4>1. /\ pc = "WAKE_UP" /\ pc' = "RESUME" /\ att' = a
            /\ calls' = calls \cup Sent("RESUME", a, gen)
            /\ UNCHANGED <<active, pending, gen, needsReset, comm, sup>>
        BY <3>2 DEF WakeDone, manager, cluster, control
      <4>2. a.id = att.id /\ a.members \subseteq att.members
        BY <1>t DEF AttemptType
      <4> QED BY <4>1, <4>2
    <3> QED BY <1>6, <3>1, <3>2
  <2>2. \A c \in calls' : c \in calls \/
            (c.op = pc' /\ c.id = att.id /\ c.gen = gen /\ c.to \in Members)
    <3>1. PICK a : a.members = att'.members /\ a.id = att.id /\ calls' = calls \cup Sent(pc', a, gen)
      BY <2>1
    <3>2. \A c \in Sent(pc', a, gen) : c.op = pc' /\ c.id = a.id /\ c.gen = gen
                                       /\ c.to \in a.members \cup {Trainer}
      BY SentCalls
    <3> QED BY <2>1, <3>1, <3>2 DEF Members
  <2>3. Newcomer' \subseteq Newcomer
    <3>1. CASE Commit
      BY <2>1, <3>1 DEF Commit, Newcomer, Leaving, Known
    <3>2. CASE WakeDone
      <4>1. att'.members = att.members \ (IF Valid(att) THEN failed ELSE {})
            /\ failed' = (IF Valid(att) THEN failed ELSE {}) /\ pc = "WAKE_UP" /\ pc' = "RESUME"
        BY <3>2, <1>t DEF WakeDone, AttemptType
      <4> QED BY <2>1, <4>1 DEF Newcomer, Leaving, Known
    <3> QED BY <1>6, <3>1, <3>2
  <2>4. Generations'
    <3>1. gen <= gen
      BY <1>t
    <3> QED BY <2>1, <2>2, <3>1, <1>i DEF Generations
  <2>5. NewcomersUntouched'
    <3>1. \A r \in Newcomer : r \notin Members \/ r \in att.members
      BY <1>t, <1>i DEF Newcomer, Members, NewcomersUntouched
    <3>2. \A r \in Newcomer : r \notin att.members
      BY <1>i DEF Newcomer, NewcomersUntouched
    <3>3. \A r \in Newcomer : Untouched(r) /\ \A c \in calls' : c.to # r
      BY <2>1, <2>2, <3>1, <3>2, <1>i DEF NewcomersUntouched
    <3>4. Known' = Known
      BY <2>1 DEF Known
    <3> QED BY <2>1, <2>3, <3>3, <3>4, <1>i DEF NewcomersUntouched, Untouched
  <2>6. CallsOfAttempt' /\ Joined'
    BY <2>1, StageSets DEF CallsOfAttempt, Joined, BeforeFinish, BeforeInit, PreCommitNames, StageNames
  <2>7. OfGeneration'
    <3>1. ~ needsReset /\ pc # "raised"
      BY <2>1, <1>i DEF OfGeneration
    <3>2. \A c \in calls' : c.op = "RESET_GROUP" => c \in calls
      BY <2>1, <2>2
    <3> QED BY <2>1, <3>1, <3>2, <1>i DEF OfGeneration, Untouched
  <2> QED BY <2>4, <2>5, <2>6, <2>7 DEF CInv
<1>7. CASE ResumeDone
  <2>1. /\ pc = "RESUME" /\ pc' \in {"raised", "PUBLISH"}
        /\ UNCHANGED <<gen, att, needsReset, calls, comm, sup>>
        /\ Known' \subseteq Known
        /\ pc' = "PUBLISH" => Known' \subseteq Known \ (IF Valid(att) THEN failed ELSE failed \ att.members)
    BY <1>7 DEF ResumeDone, cluster, Drop, Known
  <2>2. pc' = "PUBLISH" => Newcomer' \subseteq Newcomer
    BY <2>1 DEF Newcomer, Leaving
  <2>3. Generations'
    BY <2>1, <1>i DEF Generations
  <2>4. NewcomersUntouched'
    BY <2>1, <2>2, <1>i DEF NewcomersUntouched, Untouched
  <2>5. CallsOfAttempt' /\ Joined'
    BY <2>1, StageSets DEF CallsOfAttempt, Joined, BeforeFinish, BeforeInit, PreCommitNames, StageNames
  <2>6. OfGeneration'
    BY <2>1, <1>i DEF OfGeneration, Untouched
  <2> QED BY <2>3, <2>4, <2>5, <2>6 DEF CInv
<1>8. CASE PublishDone
  <2>1. /\ pc = "PUBLISH" /\ pc' = "idle"
        /\ UNCHANGED <<gen, att, needsReset, calls, comm, sup, failed>>
        /\ Known' \subseteq Known
    BY <1>8 DEF PublishDone, cluster, control, Known
  <2>2. Newcomer' \subseteq Newcomer
    BY <2>1 DEF Newcomer, Leaving
  <2>3. Generations' /\ NewcomersUntouched'
    BY <2>1, <2>2, <1>i DEF Generations, NewcomersUntouched, Untouched
  <2>4. CallsOfAttempt' /\ Joined'
    BY <2>1, StageSets DEF CallsOfAttempt, Joined, BeforeFinish, BeforeInit, PreCommitNames, StageNames
  <2>5. OfGeneration'
    BY <2>1, <1>i DEF OfGeneration, Untouched
  <2> QED BY <2>3, <2>4, <2>5 DEF CInv
<1> QED BY <1>1, <1>2, <1>3, <1>4, <1>5, <1>6, <1>7, <1>8 DEF Manager

\* An answer recalls one call, and only the call's own success counts for its
\* participant in the stage that sent it.
LEMMA AnswerCounted ==
  ASSUME NEW c \in calls, NEW ok \in BOOLEAN, NEW retryable \in BOOLEAN,
         Answer(c, ok, retryable)
  PROVE  /\ calls' = calls \ {c} /\ failed \subseteq failed'
         /\ c.to \in Participant =>
              \A p : Ok(p)' =>
                \/ Ok(p)
                \/ p = c.to /\ c.id = att.id /\ c.op = pc /\ (ok \/ retryable)
BY DEF Answer, Ok, Participant

\* Every remote call keeps it.  The call that matters is the rendezvous of the
\* present attempt: its engine has executed every older call, and the trainer
\* is of the manager's generation.
LEMMA RemoteCommunicator ==
  ASSUME TypeOK, NoLaterAttempt, CInv, NEW c \in calls, Remote(c)
  PROVE  CInv'
<1>t. /\ att.id \in Nat /\ gen \in Nat /\ att.members \subseteq Replica
      /\ Trainer \notin Replica /\ Known \subseteq Replica
      /\ comm \in [Participant -> [gen : Nat, group : SUBSET Replica]]
      /\ calls \subseteq CallType
  BY WeightSyncAssumption
     DEF TypeOK, ManagerTypeOK, TxnTypeOK, ClusterTypeOK, Known
<1>c. /\ c.to \in Participant /\ c.id \in Nat /\ c.gen \in Nat /\ c.members \subseteq Replica
      /\ c.gen <= gen /\ (c.id = att.id => c.gen = gen)
  BY <1>t DEF CallType, CInv, Generations
<1>i. /\ Generations /\ NewcomersUntouched /\ CallsOfAttempt /\ OfGeneration /\ Joined
  BY DEF CInv
<1>p. \A p \in Participant : comm[p].gen \in Nat /\ comm[p].gen <= gen
  BY <1>t, <1>i DEF Generations
<1>m. Members \subseteq Participant /\ Trainer \in Members
  BY <1>t DEF Members, Participant
<1>rest. UNCHANGED remoteRest
  BY DEF Remote, ResetGroup, AbortRequests, Sleep, WakeUp, ResumeGeneration,
         SetMode, Prepare, InitGroup, BeginWeightSync, TransferStart,
         TransferEnd, Finalize, SetGlobalSteps, GetGlobalSteps, CallError
<1>u. UNCHANGED <<pc, att, gen, needsReset, active, pending, sup>>
  BY <1>rest DEF remoteRest, manager, control
<1>k. Known' = Known /\ Members' = Members
  BY <1>u DEF Known, Members
<1>n. failed \subseteq failed' => Newcomer' \subseteq Newcomer
  BY <1>u, <1>k DEF Newcomer, Leaving
<1>a. \A r \in Replica : sup'[r] = "absent" => r \notin Known' \cup att.members
  BY <1>u, <1>k, <1>i DEF NewcomersUntouched
<1>quiet. ASSUME NEW ok \in BOOLEAN, NEW retryable \in BOOLEAN, Answer(c, ok, retryable),
                 UNCHANGED comm,
                 c.op \notin {"RESET_GROUP", "INIT_PROCESS_GROUP"} \/ ~(ok \/ retryable)
          PROVE  CInv'
  <2>1. pc \in {"RESET_GROUP", "INIT_PROCESS_GROUP"} => \A p \in Members : Ok(p)' => Ok(p)
    BY <1>quiet, <1>c, AnswerCounted
  <2>2. calls' \subseteq calls /\ failed \subseteq failed'
    BY <1>quiet, AnswerCounted
  <2> QED BY <1>quiet, <1>u, <1>n, <1>a, <2>1, <2>2, CommunicatorFrame
<1>1. CASE ResetGroup(c)
  <2>1. /\ c.op = "RESET_GROUP" /\ Answer(c, TRUE, TRUE)
        /\ comm' = IF c.gen > comm[c.to].gen
                   THEN [comm EXCEPT ![c.to] = [gen |-> c.gen, group |-> NoGroup]]
                   ELSE comm
    BY <1>1 DEF ResetGroup, Next1, Done
  <2>2. /\ calls' = calls \ {c} /\ failed \subseteq failed'
        /\ \A p : Ok(p)' => Ok(p) \/ (p = c.to /\ c.id = att.id /\ c.op = pc)
    BY <2>1, <1>c, AnswerCounted
  <2>3. \A p \in Participant :
          /\ p # c.to \/ comm[p].gen = gen => comm'[p] = comm[p]
          /\ p = c.to => comm'[p].gen = IF c.gen > comm[p].gen THEN c.gen ELSE comm[p].gen
    BY <2>1, <1>t, <1>c, <1>p
  <2>4. Generations'
    <3>1. \A p \in Participant : comm'[p].gen <= gen
      BY <2>3, <1>c, <1>p
    <3> QED BY <2>2, <3>1, <1>u, <1>i DEF Generations
  <2>5. NewcomersUntouched'
    <3>1. ASSUME pc # "raised", NEW r \in Newcomer PROVE comm'[r] = comm[r]
      <4>1. r \in Participant /\ r # c.to
        BY <3>1, <1>t, <1>i DEF NewcomersUntouched, Newcomer, Participant
      <4> QED BY <4>1, <2>3
    <3>2. pc # "raised" => \A r \in Newcomer' : Untouched(r)' /\ \A d \in calls' : d.to # r
      BY <3>1, <2>2, <1>n, <1>i DEF NewcomersUntouched, Untouched
    <3> QED BY <3>2, <1>u, <1>a DEF NewcomersUntouched
  <2>6. CallsOfAttempt'
    BY <2>2, <1>u, <1>i DEF CallsOfAttempt
  <2>7. OfGeneration'
    <3>1. ASSUME pc = "RESET_GROUP", NEW p \in Members, Ok(p)' PROVE comm'[p].gen = gen
      <4>1. CASE Ok(p)
        BY <3>1, <4>1, <2>3, <1>m, <1>i DEF OfGeneration
      <4>2. CASE p = c.to /\ c.id = att.id
        BY <4>2, <2>3, <1>c, <1>p
      <4> QED BY <3>1, <4>1, <4>2, <2>2
    <3>2. ASSUME pc # "raised", ~ needsReset
          PROVE  /\ comm'[Trainer].gen = gen
                 /\ \A r \in att.members :
                      \/ comm'[r].gen = gen
                      \/ Untouched(r)' /\ \A d \in calls' : d.to = r => d.op # "RESET_GROUP"
      <4>1. comm'[Trainer].gen = gen
        BY <3>2, <2>3, <1>m, <1>i DEF OfGeneration
      <4>2. ASSUME NEW r \in att.members
            PROVE  \/ comm'[r].gen = gen
                   \/ Untouched(r)' /\ \A d \in calls' : d.to = r => d.op # "RESET_GROUP"
        <5>1. r \in Participant
          BY <1>t DEF Participant
        <5>2. CASE comm[r].gen = gen
          BY <5>1, <5>2, <2>3
        <5>3. CASE Untouched(r) /\ \A d \in calls : d.to = r => d.op # "RESET_GROUP"
          <6>1. comm'[r] = comm[r]
            BY <5>1, <5>3, <2>1, <2>3
          <6> QED BY <5>3, <6>1, <2>2 DEF Untouched
        <5> QED BY <3>2, <5>2, <5>3, <1>i DEF OfGeneration
      <4> QED BY <4>1, <4>2
    <3> QED BY <3>1, <3>2, <1>u, <1>k, <1>i DEF OfGeneration
  <2>8. Joined'
    <3>1. ASSUME NEW p \in Members, Joins(p) PROVE Joins(p)'
      BY <3>1, <2>2, <2>3, <1>m, <1>u DEF Joins
    <3>2. \A p \in Members : pc = "INIT_PROCESS_GROUP" /\ Ok(p)' => Ok(p)
      BY <2>1, <2>2
    <3> QED BY <3>1, <3>2, <1>u, <1>k, <1>i DEF Joined
  <2> QED BY <2>4, <2>5, <2>6, <2>7, <2>8 DEF CInv
<1>2. CASE InitGroup(c)
  <2> DEFINE kept(p) == ~RebuildGroup /\ comm[p].group # NoGroup
  <2>1. c.op = "INIT_PROCESS_GROUP" /\ First(c) /\ ~Started(c)
    BY <1>2 DEF InitGroup, Next1
  <2>2. CASE Answer(c, FALSE, FALSE) /\ UNCHANGED comm
    BY <2>2, <1>quiet
  <2>3. CASE /\ Answer(c, TRUE, TRUE)
             /\ comm' = [comm EXCEPT ![c.to].group = c.members]
             /\ kept(c.to) \/ comm[Trainer].gen = comm[c.to].gen
    <3>2. /\ calls' = calls \ {c} /\ failed \subseteq failed'
          /\ \A p : Ok(p)' => Ok(p) \/ (p = c.to /\ c.id = att.id /\ c.op = pc)
      BY <2>3, <1>c, AnswerCounted
    <3>3. \A p \in Participant :
            /\ comm'[p] = IF p = c.to THEN [gen |-> comm[p].gen, group |-> c.members] ELSE comm[p]
            /\ comm'[p].gen = comm[p].gen
      BY <2>3, <1>t, <1>c
    <3>4. Generations'
      BY <3>2, <3>3, <1>u, <1>i DEF Generations
    <3>5. NewcomersUntouched'
      <4>1. ASSUME pc # "raised", NEW r \in Newcomer PROVE comm'[r] = comm[r]
        <5>1. r \in Participant /\ r # c.to
          BY <4>1, <1>t, <1>i DEF NewcomersUntouched, Newcomer, Participant
        <5> QED BY <5>1, <3>3
      <4>2. pc # "raised" => \A r \in Newcomer' : Untouched(r)' /\ \A d \in calls' : d.to # r
        BY <4>1, <3>2, <1>n, <1>i DEF NewcomersUntouched, Untouched
      <4> QED BY <4>2, <1>u, <1>a DEF NewcomersUntouched
    <3>6. CallsOfAttempt'
      BY <3>2, <1>u, <1>i DEF CallsOfAttempt
    <3>g. ASSUME pc # "raised", ~ needsReset, NEW p \in Members
          PROVE  p = c.to => comm[p].gen = gen
      <4>1. comm[Trainer].gen = gen
        BY <3>g, <1>i DEF OfGeneration
      <4>2. p # Trainer => comm[p].gen = gen \/ Untouched(p)
        BY <3>g, <1>i DEF OfGeneration, Members
      <4> QED BY <2>3, <4>1, <4>2 DEF Untouched
    <3>7. OfGeneration'
      <4>1. pc = "RESET_GROUP" => \A p \in Members : Ok(p)' => comm'[p].gen = gen
        BY <2>1, <3>2, <3>3, <1>m, <1>i DEF OfGeneration
      <4>2. ASSUME pc # "raised", ~ needsReset
            PROVE  /\ comm'[Trainer].gen = gen
                   /\ \A r \in att.members :
                        \/ comm'[r].gen = gen
                        \/ Untouched(r)' /\ \A d \in calls' : d.to = r => d.op # "RESET_GROUP"
        <5>1. comm'[Trainer].gen = gen
          BY <4>2, <3>3, <1>m, <1>i DEF OfGeneration
        <5>2. ASSUME NEW r \in att.members
              PROVE  \/ comm'[r].gen = gen
                     \/ Untouched(r)' /\ \A d \in calls' : d.to = r => d.op # "RESET_GROUP"
          <6>1. r \in Participant /\ r \in Members
            BY <1>t DEF Participant, Members
          <6>2. CASE r = c.to
            BY <6>1, <6>2, <4>2, <3>g, <3>3
          <6>3. CASE r # c.to
            <7>1. comm'[r] = comm[r]
              BY <6>1, <6>3, <3>3
            <7> QED BY <4>2, <7>1, <3>2, <1>i DEF OfGeneration, Untouched
          <6> QED BY <6>2, <6>3
        <5> QED BY <5>1, <5>2
      <4> QED BY <4>1, <4>2, <1>u, <1>k, <1>i DEF OfGeneration
    <3>8. Joined'
      <4>1. ASSUME NEW p \in Members, Joins(p) PROVE Joins(p)'
        <5>1. p # c.to
          BY <4>1, <2>1 DEF Joins
        <5> QED BY <4>1, <5>1, <3>2, <3>3, <1>m, <1>u DEF Joins
      <4>2. ASSUME NEW p \in Members, pc = "INIT_PROCESS_GROUP", p = c.to, c.id = att.id
            PROVE  Joins(p)'
        <5>1. ~ needsReset
          BY <4>2, <1>i DEF OfGeneration
        <5>2. c.members = att.members
          BY <4>2, <1>i, StageSets DEF CallsOfAttempt, PreCommitNames, StageNames
        <5>3. comm'[p] = [gen |-> gen, group |-> att.members]
          BY <4>2, <5>1, <5>2, <3>g, <3>3, <1>m
        <5>4. ASSUME NEW d \in calls', d.to = p, d.op \in {"INIT_PROCESS_GROUP", "FINALIZE"}
              PROVE  FALSE
          <6>1. d \in calls /\ d # c /\ d.id \in Nat /\ d.id <= att.id
            BY <5>4, <3>2, <1>t DEF CallType, NoLaterAttempt
          <6>2. ~Earlier(d, c)
            <7>1. SameActor(c, d) /\ ~Started(d)
              BY <4>2, <5>4, <2>1 DEF SameActor, Started, EngineStage
            <7> QED BY <6>1, <7>1, <2>1 DEF First
          <6>3. d.id = att.id
            BY <6>1, <6>2, <4>2, <1>t DEF Earlier
          <6>4. d.op = "INIT_PROCESS_GROUP" /\ d.members = att.members
            BY <4>2, <5>4, <6>1, <6>3, <1>i, StageSets
               DEF CallsOfAttempt, PreCommitNames, StageNames, BeforeFinish
          <6>5. d.gen = gen /\ c.gen = gen
            BY <4>2, <6>1, <6>3, <1>i, <1>c DEF Generations
          <6>6. d.version = att.version /\ c.version = att.version
            BY <4>2, <6>1, <6>3, StageSets DEF NoLaterAttempt, Running, StageNames
          <6>7. /\ d \in CallType /\ c \in CallType /\ d.op = c.op /\ d.to = c.to
                /\ d.id = c.id /\ d.version = c.version /\ d.members = c.members
                /\ d.gen = c.gen
            BY <4>2, <5>2, <5>4, <6>1, <6>3, <6>4, <6>5, <6>6, <2>1, <1>t
          <6>8. d = c
            BY <6>7 DEF CallType
          <6> QED BY <6>1, <6>8
        <5> QED BY <5>3, <5>4, <1>u DEF Joins
      <4>3. ASSUME NEW p \in Members,
                   pc \in {"BEGIN", "TRANSFER"} \/ (pc = "INIT_PROCESS_GROUP" /\ Ok(p)')
            PROVE  Joins(p)'
        <5>1. CASE pc \in {"BEGIN", "TRANSFER"} \/ (pc = "INIT_PROCESS_GROUP" /\ Ok(p))
          BY <5>1, <4>1, <1>i DEF Joined
        <5>2. CASE pc = "INIT_PROCESS_GROUP" /\ p = c.to /\ c.id = att.id
          BY <5>2, <4>2
        <5> QED BY <4>3, <5>1, <5>2, <3>2
      <4> QED BY <4>3, <1>u, <1>k DEF Joined
    <3> QED BY <3>4, <3>5, <3>6, <3>7, <3>8 DEF CInv
  <2> QED BY <1>2, <2>2, <2>3 DEF InitGroup, Done
<1>3. CASE Finalize(c)
  <2>1. /\ c.op = "FINALIZE" /\ Answer(c, TRUE, TRUE)
        /\ comm' \in {comm, [comm EXCEPT ![c.to].group = NoGroup]}
    BY <1>3 DEF Finalize, Next1, Done
  <2>2. /\ calls' = calls \ {c} /\ failed \subseteq failed'
        /\ \A p : Ok(p)' => Ok(p) \/ (p = c.to /\ c.op = pc)
    BY <2>1, <1>c, AnswerCounted
  <2>3. \A p \in Participant :
          /\ comm'[p].gen = comm[p].gen
          /\ p # c.to => comm'[p] = comm[p]
          /\ comm[p].group = NoGroup => comm'[p] = comm[p]
    BY <2>1, <1>t, <1>c
  <2>4. \A p \in Participant : Untouched(p) => Untouched(p)'
    BY <2>3 DEF Untouched
  <2>5. Generations'
    BY <2>2, <2>3, <1>u, <1>i DEF Generations
  <2>6. NewcomersUntouched'
    <3>1. Newcomer \subseteq Participant
      BY <1>t DEF Newcomer, Participant
    <3> QED BY <2>2, <2>4, <3>1, <1>u, <1>n, <1>a, <1>i DEF NewcomersUntouched
  <2>7. CallsOfAttempt'
    BY <2>2, <1>u, <1>i DEF CallsOfAttempt
  <2>8. OfGeneration'
    <3>1. pc = "RESET_GROUP" => \A p \in Members : Ok(p)' => comm'[p].gen = gen
      BY <2>1, <2>2, <2>3, <1>m, <1>i DEF OfGeneration
    <3>2. att.members \subseteq Participant
      BY <1>t DEF Participant
    <3>3. pc # "raised" /\ ~ needsReset =>
            /\ comm'[Trainer].gen = gen
            /\ \A r \in att.members :
                 \/ comm'[r].gen = gen
                 \/ Untouched(r)' /\ \A d \in calls' : d.to = r => d.op # "RESET_GROUP"
      BY <2>2, <2>3, <2>4, <3>2, <1>m, <1>i DEF OfGeneration
    <3> QED BY <3>1, <3>3, <1>u, <1>k, <1>i DEF OfGeneration
  <2>9. Joined'
    <3>1. ASSUME NEW p \in Members, Joins(p) PROVE Joins(p)'
      <4>1. p # c.to
        BY <3>1, <2>1 DEF Joins
      <4> QED BY <3>1, <4>1, <2>2, <2>3, <1>m, <1>u DEF Joins
    <3>2. \A p \in Members : pc = "INIT_PROCESS_GROUP" /\ Ok(p)' => Ok(p)
      BY <2>1, <2>2
    <3> QED BY <3>1, <3>2, <1>u, <1>k, <1>i DEF Joined
  <2> QED BY <2>5, <2>6, <2>7, <2>8, <2>9 DEF CInv
<1>4. CASE AbortRequests(c) \/ Sleep(c) \/ WakeUp(c) \/ ResumeGeneration(c)
  <2>1. Answer(c, TRUE, TRUE) /\ UNCHANGED comm /\ c.op \notin {"RESET_GROUP", "INIT_PROCESS_GROUP"}
    BY <1>4 DEF AbortRequests, Sleep, WakeUp, ResumeGeneration, SetMode, Next1, Done
  <2> QED BY <2>1, <1>quiet
<1>5. CASE Prepare(c)
  BY <1>5, <1>quiet DEF Prepare, Next1, Done, cluster
<1>6. CASE BeginWeightSync(c)
  <2>1. (Answer(c, FALSE, TRUE) \/ Answer(c, TRUE, TRUE)) /\ UNCHANGED comm /\ c.op = "BEGIN"
    BY <1>6 DEF BeginWeightSync, Next1, Done
  <2> QED BY <2>1, <1>quiet
<1>7. CASE TransferStart(c)
  <2>1. UNCHANGED <<comm, calls, waiting, failed, fatal>>
    BY <1>7 DEF TransferStart
  <2>2. \A p \in Members : Ok(p)' => Ok(p)
    BY <2>1 DEF Ok
  <2> QED BY <2>1, <2>2, <1>u, <1>n, <1>a, CommunicatorFrame
<1>8. CASE TransferEnd(c)
  <2>1. Answer(c, stream[c.to] = c.id, FALSE) /\ UNCHANGED comm /\ c.op = "TRANSFER"
    BY <1>8 DEF TransferEnd, Started
  <2> QED BY <2>1, <1>quiet
<1>9. CASE SetGlobalSteps(c)
  <2>1. /\ Answer(c, fence[c.to] = [id |-> c.id, version |-> c.version], FALSE)
        /\ UNCHANGED comm /\ c.op = "EXPOSE"
    BY <1>9 DEF SetGlobalSteps, Next1
  <2> QED BY <2>1, <1>quiet
<1>10. CASE GetGlobalSteps(c)
  <2>1. /\ Answer(c, exposed[c.to] = c.version, TRUE)
        /\ UNCHANGED comm /\ c.op = "VERIFY_VERSION"
    BY <1>10 DEF GetGlobalSteps, Next1, cluster
  <2> QED BY <2>1, <1>quiet
<1>11. CASE CallError(c)
  <2>1. Answer(c, FALSE, FALSE) /\ UNCHANGED comm
    BY <1>11 DEF CallError, cluster
  <2> QED BY <2>1, <1>quiet
<1> QED BY <1>1, <1>2, <1>3, <1>4, <1>5, <1>6, <1>7, <1>8, <1>9, <1>10, <1>11
        DEF Remote

\* Nothing the Supervisor, the load balancer or a dying replica does touches a
\* communicator or sends a call.
LEMMA ControlCommunicator ==
  ASSUME TypeOK, CInv, NEW r \in Replica, Control(r)
  PROVE  CInv'
<1>1. UNCHANGED <<pc, att, gen, needsReset, comm, failed>> /\ calls' \subseteq calls
  BY DEF Control, Declare, ReportFailure, Isolate, OnReplicaDead, AddPendingReplica,
         SuperviseReplica, AddReplicas, Promote, Die, Drop, supRest, remoteRest, manager,
         txn, cluster
<1>2. pc \in {"RESET_GROUP", "INIT_PROCESS_GROUP"} => \A p \in Members : Ok(p)' => Ok(p)
  <2>1. UNCHANGED <<waiting, failed, fatal>> \/ pc = "PUBLISH"
    BY DEF Control, Declare, ReportFailure, Isolate, OnReplicaDead, AddPendingReplica,
           SuperviseReplica, AddReplicas, Promote, Die, supRest, txn
  <2> QED BY <2>1 DEF Ok
<1>3. sup \in [Replica -> {"absent", "unknown", "healthy", "declared", "isolated", "pruned"}]
  BY DEF TypeOK, ControlTypeOK
<1>4. \/ UNCHANGED <<active, pending>> /\ \A s \in Replica : sup'[s] = "absent" => sup[s] = "absent"
      \/ /\ Known' \subseteq Known
         /\ \A s \in Replica : sup'[s] = "absent" => sup[s] = "absent"
      \/ /\ sup[r] = "absent" /\ Known' = Known \cup {r}
         /\ \A s \in Replica : sup'[s] = "absent" => sup[s] = "absent" /\ s # r
  <2>1. CASE Declare(r) \/ ReportFailure(r) \/ Isolate(r) \/ SuperviseReplica(r) \/ Promote(r) \/ Die(r)
    BY <2>1, <1>3 DEF Declare, ReportFailure, Isolate, SuperviseReplica, Promote, Die,
                      manager, control, remoteRest
  <2>2. CASE OnReplicaDead(r)
    BY <2>2, <1>3 DEF OnReplicaDead, Drop, Known
  <2>3. CASE AddPendingReplica(r) \/ AddReplicas(r)
    BY <2>3, <1>3 DEF AddPendingReplica, AddReplicas, Known
  <2> QED BY <2>1, <2>2, <2>3 DEF Control
<1>5. Newcomer' \subseteq Newcomer
  BY <1>1, <1>4 DEF Newcomer, Leaving, Known
<1>6. \A s \in Replica : sup'[s] = "absent" => s \notin Known' \cup att.members
  BY <1>4 DEF CInv, NewcomersUntouched, Known
<1> QED BY <1>1, <1>2, <1>5, <1>6, CommunicatorFrame

\* The communicator invariant is inductive: a change of members bumps the
\* generation, calls of older generations are refused, and INIT_PROCESS_GROUP
\* runs only after every older call of its engine.
LEMMA StepCommunicator ==
  ASSUME TypeOK, NoLaterAttempt, CInv, [Next]_vars
  PROVE  CInv'
<1>1. CASE UNCHANGED vars
  <2>1. UNCHANGED <<pc, att, gen, needsReset, comm, calls, waiting, failed, fatal,
                    active, pending, sup>>
    BY <1>1 DEF vars, manager, txn, cluster, control
  <2>2. \A p \in Members : Ok(p)' => Ok(p)
    BY <2>1 DEF Ok
  <2>3. Newcomer' = Newcomer /\ Known' = Known
    BY <2>1 DEF Newcomer, Leaving, Known
  <2>4. \A r \in Replica : sup'[r] = "absent" => r \notin Known' \cup att.members
    BY <2>1, <2>3 DEF CInv, NewcomersUntouched
  <2> QED BY <2>1, <2>2, <2>3, <2>4, CommunicatorFrame
<1> QED BY <1>1, ManagerCommunicator, RemoteCommunicator, ControlCommunicator DEF Next

\* While weights move, the trainer and the members hold one communicator of one
\* generation, built for exactly them, whatever calls of abandoned attempts
\* arrive late (force_destroy_nccl_group, init_process_group and finalize of the
\* engines).
THEOREM OneGroup == Spec => []OneCommunicator
<1>1. AttemptFenced => NoLaterAttempt
  BY DEF AttemptFenced
<1>2. TypeOK /\ AttemptFenced /\ CInv /\ [Next]_vars => CInv'
  BY <1>1, StepCommunicator
<1>3. CInv => OneCommunicator
  BY DEF CInv, Joined, Joins, OneCommunicator, Members
<1> QED BY TypeCorrect, Fenced, InitCommunicator, <1>2, <1>3, PTL DEF Spec


-----------------------------------------------------------------------------
(***************************************************************************)
(* The rendezvous of a job whose replicas are those of the start.          *)
(***************************************************************************)

\* No replacement is spawned and none is added: replicas only leave.
FixedReplicas == Replica = Initial

\* Participant p can meet the members M: it is of the manager's generation, has
\* their communicator or none, and no call left that would make another.
Fresh(p, M) ==
  /\ comm[p].gen = gen /\ comm[p].group \in {NoGroup, M}
  /\ \A c \in calls : c.to = p /\ c.op = "INIT_PROCESS_GROUP" => c.members = M

\* Members only leave: the attempt's are at least those that are active.
OnlyLeave ==
  /\ pending = {}
  /\ pc \in PreCommit \cup {"create", "commit"} => active \subseteq att.members

\* While a reset runs, who is of the new generation has no communicator.
ResetFresh ==
  pc = "RESET_GROUP" =>
    /\ \A c \in calls : c.gen = gen => c.id = att.id
    /\ \A p \in Members : comm[p].gen = gen => Fresh(p, att.members)

\* An attempt that needs no reset, or is beyond it, can meet.
AttemptFresh ==
  \/ pc \in (PreCommit \cup {"commit"}) \ {"RESET_GROUP"}
  \/ pc = "create" /\ ~ needsReset
  => \A p \in Members : Fresh(p, att.members)

\* Between attempts a clear flag means that the active replicas can meet.
ActiveFresh ==
  pc \in {"WAKE_UP", "RESUME", "PUBLISH", "idle"} /\ ~ dirty =>
    \A p \in active \cup {Trainer} : Fresh(p, active)

GInv == OnlyLeave /\ ResetFresh /\ AttemptFresh /\ ActiveFresh

\* The initial state: nobody has a communicator and no call is on its way.
LEMMA InitFresh == Init => GInv
<1> SUFFICES ASSUME Init PROVE GInv
  OBVIOUS
<1>1. pc = "idle" /\ pending = {} /\ calls = {} /\ gen = 0 /\ active = Initial
  BY DEF Init
<1>2. \A p \in Participant : comm[p] = [gen |-> 0, group |-> NoGroup]
  BY DEF Init
<1>3. active \cup {Trainer} \subseteq Participant
  BY <1>1, WeightSyncAssumption DEF Participant
<1>4. \A p \in active \cup {Trainer} : Fresh(p, active)
  BY <1>1, <1>2, <1>3 DEF Fresh
<1>5. pc \notin PreCommit /\ pc \notin {"create", "commit", "RESET_GROUP"}
  BY <1>1, StageSets DEF PreCommitNames, StageNames
<1> QED BY <1>1, <1>4, <1>5 DEF GInv, OnlyLeave, ResetFresh, AttemptFresh, ActiveFresh

\* Calls that are for the members M, or are no rendezvous, disturb nobody who
\* can meet them.
LEMMA FreshFrame ==
  ASSUME NEW p, NEW M, Fresh(p, M), comm'[p] = comm[p], gen' = gen,
         \A c \in calls' : c \in calls \/ c.op # "INIT_PROCESS_GROUP" \/ c.members = M
  PROVE  Fresh(p, M)'
BY DEF Fresh

\* Nor does any call that is executed: resets of older generations are ignored,
\* FINALIZE at most gives the communicator up.
LEMMA FreshStays ==
  ASSUME TypeOK, CInv, NEW c \in calls, Remote(c), NEW p \in Participant, NEW M,
         Fresh(p, M)
  PROVE  Fresh(p, M)'
<1>t. /\ comm \in [Participant -> [gen : Nat, group : SUBSET Replica]]
      /\ c.to \in Participant /\ c.gen \in Nat /\ c.gen <= gen /\ gen \in Nat
  BY DEF TypeOK, ManagerTypeOK, ClusterTypeOK, CallType, CInv, Generations
<1>g. gen' = gen
  BY DEF Remote, ResetGroup, AbortRequests, Sleep, WakeUp, ResumeGeneration,
         SetMode, Prepare, InitGroup, BeginWeightSync, TransferStart, TransferEnd,
         Finalize, SetGlobalSteps, GetGlobalSteps, CallError, remoteRest, manager
<1>c. calls' \subseteq calls
  BY DEF Remote, ResetGroup, AbortRequests, Sleep, WakeUp, ResumeGeneration,
         SetMode, Prepare, InitGroup, BeginWeightSync, TransferStart, TransferEnd,
         Finalize, SetGlobalSteps, GetGlobalSteps, CallError, Answer, Done
<1>1. ASSUME comm' = comm PROVE Fresh(p, M)'
  BY <1>1, <1>g, <1>c, FreshFrame
<1>2. CASE ResetGroup(c)
  <2>1. comm' = IF c.gen > comm[c.to].gen
                THEN [comm EXCEPT ![c.to] = [gen |-> c.gen, group |-> NoGroup]]
                ELSE comm
    BY <1>2 DEF ResetGroup
  <2>2. comm[p].gen = gen
    BY DEF Fresh
  <2>3. comm'[p] = comm[p]
    BY <2>1, <2>2, <1>t
  <2> QED BY <2>3, <1>g, <1>c, FreshFrame
<1>3. CASE InitGroup(c)
  <2>1. CASE comm' = comm
    BY <2>1, <1>1
  <2>2. CASE c.op = "INIT_PROCESS_GROUP" /\ comm' = [comm EXCEPT ![c.to].group = c.members]
    <3>1. comm'[p] = IF p = c.to THEN [gen |-> comm[p].gen, group |-> c.members] ELSE comm[p]
      BY <2>2, <1>t
    <3>2. p = c.to => c.members = M
      BY <2>2 DEF Fresh
    <3>3. comm'[p].gen = gen /\ comm'[p].group \in {NoGroup, M}
      BY <3>1, <3>2 DEF Fresh
    <3> QED BY <3>3, <1>g, <1>c DEF Fresh
  <2> QED BY <1>3, <2>1, <2>2 DEF InitGroup, Next1
<1>4. CASE Finalize(c)
  <2>1. comm' \in {comm, [comm EXCEPT ![c.to].group = NoGroup]}
    BY <1>4 DEF Finalize
  <2>2. comm'[p].gen = comm[p].gen /\ comm'[p].group \in {comm[p].group, NoGroup}
    BY <2>1, <1>t
  <2> QED BY <2>2, <1>g, <1>c DEF Fresh
<1>5. CASE ~(ResetGroup(c) \/ InitGroup(c) \/ Finalize(c))
  <2>1. comm' = comm
    BY <1>5 DEF Remote, AbortRequests, Sleep, WakeUp, ResumeGeneration,
         SetMode, Prepare, BeginWeightSync, TransferStart, TransferEnd,
         SetGlobalSteps, GetGlobalSteps, CallError, cluster
  <2> QED BY <2>1, <1>1
<1> QED BY <1>2, <1>3, <1>4, <1>5

\* A remote call keeps it.  The call that matters is the reset of the present
\* attempt: it runs after every older call of its engine.
LEMMA RemoteFresh ==
  ASSUME TypeOK, NoLaterAttempt, CInv, GInv, NEW c \in calls, Remote(c)
  PROVE  GInv'
<1>u. UNCHANGED <<pc, att, gen, needsReset, active, pending, dirty>>
  BY DEF Remote, ResetGroup, AbortRequests, Sleep, WakeUp, ResumeGeneration,
         SetMode, Prepare, InitGroup, BeginWeightSync, TransferStart, TransferEnd,
         Finalize, SetGlobalSteps, GetGlobalSteps, CallError, remoteRest, manager
<1>c. calls' \subseteq calls
  BY DEF Remote, ResetGroup, AbortRequests, Sleep, WakeUp, ResumeGeneration,
         SetMode, Prepare, InitGroup, BeginWeightSync, TransferStart, TransferEnd,
         Finalize, SetGlobalSteps, GetGlobalSteps, CallError, Answer, Done
<1>t. /\ comm \in [Participant -> [gen : Nat, group : SUBSET Replica]]
      /\ att.members \subseteq Replica /\ active \subseteq Replica
      /\ calls \subseteq CallType /\ att.id \in Nat
      /\ c.to \in Participant /\ c.gen \in Nat /\ c.id \in Nat
  BY DEF TypeOK, ManagerTypeOK, TxnTypeOK, ClusterTypeOK, CallType
<1>m. Members \subseteq Participant /\ active \cup {Trainer} \subseteq Participant
  BY <1>t DEF Members, Participant
<1>k. Members' = Members
  BY <1>u DEF Members
<1>s. \A p \in Participant, M \in SUBSET Replica : Fresh(p, M) => Fresh(p, M)'
  BY FreshStays
<1>1. OnlyLeave'
  BY <1>u DEF GInv, OnlyLeave
<1>2. ResetFresh'
  <2> SUFFICES ASSUME pc = "RESET_GROUP"
               PROVE  /\ \A d \in calls' : d.gen = gen => d.id = att.id
                      /\ \A p \in Members : comm'[p].gen = gen => Fresh(p, att.members)'
    BY <1>u, <1>k DEF ResetFresh
  <2>1. /\ \A d \in calls : d.gen = gen => d.id = att.id
        /\ \A p \in Members : comm[p].gen = gen => Fresh(p, att.members)
    BY DEF GInv, ResetFresh
  <2>2. ASSUME NEW p \in Members, comm'[p].gen = gen PROVE Fresh(p, att.members)'
    <3>1. CASE comm[p].gen = gen
      <4>1. PICK M \in SUBSET Replica : M = att.members
        BY <1>t
      <4>2. Fresh(p, M)'
        BY <2>1, <2>2, <3>1, <4>1, <1>s, <1>m
      <4> QED BY <4>1, <4>2, <1>u DEF Fresh
    <3>2. CASE comm[p].gen # gen
      <4>p. p \in Participant
        BY <2>2, <1>m
      <4>1. ResetGroup(c)
        <5>1. CASE InitGroup(c)
          <6>1. comm' = comm \/ comm' = [comm EXCEPT ![c.to].group = c.members]
            BY <5>1 DEF InitGroup
          <6>2. comm'[p].gen = comm[p].gen
            BY <6>1, <4>p, <1>t
          <6> QED BY <6>2, <2>2, <3>2
        <5>2. CASE Finalize(c)
          <6>1. comm' = comm \/ comm' = [comm EXCEPT ![c.to].group = NoGroup]
            BY <5>2 DEF Finalize
          <6>2. comm'[p].gen = comm[p].gen
            BY <6>1, <4>p, <1>t
          <6> QED BY <6>2, <2>2, <3>2
        <5>3. CASE ~(ResetGroup(c) \/ InitGroup(c) \/ Finalize(c))
          <6>1. comm' = comm
            BY <5>3 DEF Remote, AbortRequests, Sleep, WakeUp, ResumeGeneration,
                 SetMode, Prepare, BeginWeightSync, TransferStart, TransferEnd,
                 SetGlobalSteps, GetGlobalSteps, CallError, cluster
          <6> QED BY <6>1, <2>2, <3>2
        <5> QED BY <5>1, <5>2, <5>3
      <4>2. /\ c.op = "RESET_GROUP" /\ First(c)
            /\ comm' = IF c.gen > comm[c.to].gen
                       THEN [comm EXCEPT ![c.to] = [gen |-> c.gen, group |-> NoGroup]]
                       ELSE comm
        BY <4>1 DEF ResetGroup, Next1
      <4>3. p = c.to /\ c.gen = gen /\ comm'[p] = [gen |-> gen, group |-> NoGroup]
        BY <4>2, <4>p, <2>2, <3>2, <1>t
      <4>4. c.id = att.id
        BY <4>3, <2>1
      <4>5. ASSUME NEW d \in calls', d.to = p, d.op = "INIT_PROCESS_GROUP"
            PROVE  d.members = att.members
        <5>1. d \in calls /\ d.id \in Nat /\ d.id <= att.id
          BY <1>c, <1>t DEF NoLaterAttempt, CallType
        <5>2. SameActor(c, d) /\ ~Started(d)
          BY <4>5, <4>2, <4>3 DEF SameActor, Started, EngineStage
        <5>3. ~Earlier(d, c)
          BY <5>1, <5>2, <4>2 DEF First
        <5>4. d.id = att.id
          BY <5>1, <5>3, <4>4, <1>t DEF Earlier
        <5> QED BY <5>1, <5>4, StageSets DEF CInv, CallsOfAttempt, PreCommitNames, StageNames
      <4> QED BY <4>3, <4>5, <1>u DEF Fresh
    <3> QED BY <3>1, <3>2
  <2> QED BY <2>1, <2>2, <1>c
<1>3. AttemptFresh'
  <2>1. PICK M \in SUBSET Replica : M = att.members
    BY <1>t
  <2>2. AttemptFresh => AttemptFresh'
    <3>1. (\A p \in Members : Fresh(p, M)) => \A p \in Members : Fresh(p, M)'
      BY <1>s, <1>m
    <3>2. (\A p \in Members : Fresh(p, att.members)) <=> \A p \in Members : Fresh(p, M)
      BY <2>1
    <3>3. (\A p \in Members : Fresh(p, M)') => (\A p \in Members : Fresh(p, att.members))'
      BY <2>1, <1>u, <1>k DEF Fresh
    <3> QED BY <3>1, <3>2, <3>3, <1>u DEF AttemptFresh
  <2> QED BY <2>2 DEF GInv
<1>4. ActiveFresh'
  <2>1. PICK M \in SUBSET Replica : M = active
    BY <1>t
  <2>2. (\A p \in M \cup {Trainer} : Fresh(p, M)) => \A p \in M \cup {Trainer} : Fresh(p, M)'
    BY <2>1, <1>s, <1>m
  <2>3. (\A p \in M \cup {Trainer} : Fresh(p, M)')
           => (\A p \in active \cup {Trainer} : Fresh(p, active))'
    BY <2>1, <1>u DEF Fresh
  <2> QED BY <2>1, <2>2, <2>3, <1>u DEF GInv, ActiveFresh
<1> QED BY <1>1, <1>2, <1>3, <1>4 DEF GInv

\* So do the control actions: a death that removes an active replica sets the flag.
LEMMA ControlFresh ==
  ASSUME FixedReplicas, TypeOK, GInv, NEW r \in Replica, Control(r)
  PROVE  GInv'
<1>1. UNCHANGED <<pc, att, gen, needsReset, comm>> /\ calls' \subseteq calls
  BY DEF Control, Declare, ReportFailure, Isolate, OnReplicaDead, AddPendingReplica,
         SuperviseReplica, AddReplicas, Promote, Die, Drop, supRest, remoteRest, manager,
         txn, cluster
<1>2. ~AddPendingReplica(r) /\ ~AddReplicas(r)
  BY WeightSyncAssumption DEF FixedReplicas, AddPendingReplica, AddReplicas
<1>3. /\ pending' \subseteq pending
      /\ (active' = active /\ (dirty => dirty')) \/ (active' \subseteq active /\ dirty')
  <2>1. CASE OnReplicaDead(r)
    BY <2>1 DEF OnReplicaDead, Drop
  <2>2. CASE ~OnReplicaDead(r)
    <3>1. UNCHANGED <<active, pending, dirty>>
      BY <1>2, <2>2 DEF Control, Declare, ReportFailure, Isolate, SuperviseReplica, Promote,
                        Die, remoteRest, manager
    <3> QED BY <3>1
  <2> QED BY <2>1, <2>2
<1>f. \A p, M : Fresh(p, M) => Fresh(p, M)'
  BY <1>1 DEF Fresh
<1>4. OnlyLeave'
  BY <1>1, <1>3 DEF GInv, OnlyLeave
<1>5. ResetFresh'
  BY <1>1 DEF GInv, ResetFresh, Members, Fresh
<1>6. AttemptFresh'
  BY <1>1 DEF GInv, AttemptFresh, Members, Fresh
<1>7. ActiveFresh'
  <2>1. CASE dirty'
    BY <2>1 DEF ActiveFresh
  <2>2. CASE ~dirty'
    <3>1. active' = active /\ ~ dirty
      BY <1>3, <2>2
    <3> QED BY <3>1, <1>1 DEF GInv, ActiveFresh, Fresh
  <2> QED BY <2>1, <2>2
<1> QED BY <1>4, <1>5, <1>6, <1>7 DEF GInv

\* So does every step of the manager: an attempt with other members is made
\* only with a reset due, and the flag is cleared only for members that can meet.
LEMMA ManagerFresh ==
  ASSUME TypeOK, NoLaterAttempt, CInv, GInv, Manager
  PROVE  GInv'
<1>t. /\ att \in AttemptType /\ att.members \subseteq Replica /\ active \subseteq Replica
      /\ pending = {} /\ Known = active /\ gen \in Nat
      /\ \A c \in calls : c.id \in Nat /\ c.gen \in Nat /\ c.gen <= gen
      /\ \A p \in Participant : comm[p].gen \in Nat /\ comm[p].gen <= gen
  BY DEF TypeOK, ManagerTypeOK, TxnTypeOK, ClusterTypeOK, AttemptType, CallType, GInv,
         OnlyLeave, Known, CInv, Generations
<1>g. OnlyLeave /\ ResetFresh /\ AttemptFresh /\ ActiveFresh
  BY DEF GInv
<1>f. ASSUME UNCHANGED <<comm, gen>>, calls' = calls, NEW p, NEW M, Fresh(p, M)
      PROVE  Fresh(p, M)'
  BY <1>f, FreshFrame
<1>n. /\ PreCommit = PreCommitNames
      /\ PreCommitNames = StageNames \ {"WAKE_UP", "RESUME"}
  BY StageSets DEF PreCommitNames
<1>1. CASE StartSync
  <2>1. /\ pc = "idle" /\ att'.members = active /\ pc' \in {"raised", "create"}
        /\ ~ needsReset' => ~ dirty
        /\ UNCHANGED <<active, pending, dirty, gen, comm, calls>>
    BY <1>1, <1>t DEF StartSync, AttemptType, manager, cluster
  <2>2. OnlyLeave'
    BY <2>1, <1>g DEF OnlyLeave
  <2>3. AttemptFresh'
    <3>1. ASSUME ~ needsReset' PROVE \A p \in active \cup {Trainer} : Fresh(p, active)'
      BY <3>1, <2>1, <1>g DEF ActiveFresh, Fresh
    <3>2. (\A p \in active \cup {Trainer} : Fresh(p, active)')
             => (\A p \in Members : Fresh(p, att.members))'
      BY <2>1 DEF Members, Fresh
    <3> QED BY <2>1, <3>1, <3>2, <1>n DEF AttemptFresh, StageNames
  <2>4. ResetFresh' /\ ActiveFresh'
    BY <2>1 DEF ResetFresh, ActiveFresh
  <2> QED BY <2>2, <2>3, <2>4 DEF GInv
<1>2. CASE CreateAttempt
  <2> DEFINE a == [id |-> att.id + 1, version |-> att.version, epoch |-> epoch,
                   members |-> att.members]
             st == IF needsReset THEN "RESET_GROUP" ELSE "ABORT_REQUESTS"
  <2>1. /\ pc = "create" /\ att' = a /\ pc' = st
        /\ gen' = (IF needsReset THEN gen + 1 ELSE gen)
        /\ calls' = calls \cup Sent(st, a, gen')
        /\ UNCHANGED <<active, pending, dirty, needsReset, comm>>
    BY <1>2 DEF CreateAttempt, Enter, cluster, control
  <2>2. att'.id = att.id + 1 /\ att'.members = att.members
    BY <2>1
  <2>3. \A c \in Sent(st, a, gen') : c.op = st /\ c.id = att'.id
    <3> HIDE DEF st
    <3> QED BY <2>1, SentCalls
  <2>4. OnlyLeave'
    BY <2>1, <2>2, <1>g DEF OnlyLeave
  <2>5. ActiveFresh'
    BY <2>1 DEF ActiveFresh
  <2>6. CASE needsReset
    <3>1. pc' = "RESET_GROUP" /\ gen' = gen + 1
      BY <2>1, <2>6
    <3>2. \A c \in calls' : c.gen = gen' => c.id = att'.id
      BY <2>1, <2>3, <3>1, <1>t
    <3>3. \A p \in Members' : comm'[p].gen # gen'
      <4>1. Members' \subseteq Participant
        BY <2>2, <1>t DEF Members, Participant
      <4> QED BY <2>1, <3>1, <4>1, <1>t
    <3>4. ResetFresh' /\ AttemptFresh'
      BY <3>1, <3>2, <3>3 DEF ResetFresh, AttemptFresh
    <3> QED BY <2>4, <2>5, <3>4 DEF GInv
  <2>7. CASE ~ needsReset
    <3>1. pc' = "ABORT_REQUESTS" /\ gen' = gen
      BY <2>1, <2>7
    <3>2. \A c \in calls' : c \in calls \/ c.op # "INIT_PROCESS_GROUP"
      BY <2>1, <2>3, <3>1
    <3>3. \A p \in Members : Fresh(p, att.members)
      BY <2>1, <2>7, <1>g DEF AttemptFresh
    <3>4. (\A p \in Members : Fresh(p, att.members))'
      BY <2>1, <2>2, <3>1, <3>2, <3>3 DEF Fresh, Members
    <3>5. ResetFresh' /\ AttemptFresh'
      BY <3>1, <3>4 DEF ResetFresh, AttemptFresh
    <3> QED BY <2>4, <2>5, <3>5 DEF GInv
  <2> QED BY <2>6, <2>7
<1>3. CASE Deadline \/ ResumeDone \/ PublishDone
  <2>1. /\ UNCHANGED <<att, gen, comm, calls, needsReset>> /\ pending' = {}
        /\ (active' = active /\ (dirty => dirty')) \/ (active' \subseteq active /\ dirty')
        /\ \/ UNCHANGED pc
           \/ /\ pc \in {"RESUME", "PUBLISH"}
              /\ pc' \in {"PUBLISH", "raised", "idle"}
    <3>1. CASE Deadline
      BY <3>1, <1>t DEF Deadline, manager, cluster
    <3>2. CASE ResumeDone
      BY <3>2, <1>t DEF ResumeDone, Drop, cluster
    <3>3. CASE PublishDone
      BY <3>3, <1>t DEF PublishDone, cluster
    <3> QED BY <1>3, <3>1, <3>2, <3>3
  <2>2. OnlyLeave'
    BY <2>1, <1>g, <1>n DEF OnlyLeave, StageNames
  <2>3. ResetFresh'
    BY <2>1, <1>g DEF ResetFresh, Fresh, Members
  <2>4. AttemptFresh'
    BY <2>1, <1>g, <1>n DEF AttemptFresh, Fresh, Members, StageNames
  <2>5. ActiveFresh'
    BY <2>1, <1>g DEF ActiveFresh, Fresh
  <2> QED BY <2>2, <2>3, <2>4, <2>5 DEF GInv
<1>4. CASE StageOk
  <2>1. /\ pc \in PreCommitNames /\ waiting = {} /\ failed = {} /\ fatal = {}
        /\ UNCHANGED <<att, gen, comm, active, pending>>
    BY <1>4, <1>n DEF StageOk, cluster, control
  <2>2. /\ pc' \in (PreCommitNames \cup {"commit"}) \ {"RESET_GROUP"}
        /\ \A c \in calls' : c \in calls \/ c.members = att.members
    <3>1. CASE pc = "VERIFY_VERSION"
      BY <1>4, <3>1 DEF StageOk, PreCommitNames, StageNames
    <3>2. CASE pc # "VERIFY_VERSION"
      <4> DEFINE st == After(pc)
      <4>1. pc' = st /\ calls' = calls \cup Sent(st, att, gen)
        BY <1>4, <3>2 DEF StageOk, Enter
      <4>2. st \in PreCommitNames \ {"RESET_GROUP"}
        BY <2>1, <3>2, AfterIs DEF PreCommitNames, StageNames
      <4> HIDE DEF st
      <4> QED BY <4>1, <4>2, SentCalls
    <3> QED BY <3>1, <3>2
  <2>3. \A p \in Members : Fresh(p, att.members)
    <3>1. CASE pc = "RESET_GROUP"
      <4>1. \A p \in Members : comm[p].gen = gen
        BY <2>1, <3>1 DEF CInv, OfGeneration, Ok
      <4> QED BY <3>1, <4>1, <1>g DEF ResetFresh
    <3>2. CASE pc # "RESET_GROUP"
      BY <2>1, <3>2, <1>g, <1>n DEF AttemptFresh
    <3> QED BY <3>1, <3>2
  <2>4. (\A p \in Members : Fresh(p, att.members))'
    BY <2>1, <2>2, <2>3 DEF Fresh, Members
  <2>5. AttemptFresh' /\ ResetFresh'
    BY <2>2, <2>4 DEF AttemptFresh, ResetFresh
  <2>6. OnlyLeave'
    BY <2>1, <2>2, <1>g, <1>n DEF OnlyLeave
  <2>7. ActiveFresh'
    BY <2>2, <1>n DEF ActiveFresh, StageNames
  <2> QED BY <2>5, <2>6, <2>7 DEF GInv
<1>5. CASE StageFailed \/ StageFatal \/ StageStale
  <2>1. /\ pending' = {} /\ pc' \in {"raised", "create"}
        /\ pc' = "create" => needsReset' /\ active' \subseteq att'.members
    <3>1. CASE StageFailed
      <4>1. pc \in PreCommit /\ RetryWith(att.members \ failed) /\ active \subseteq att.members
        BY <3>1, <1>g DEF StageFailed, OnlyLeave
      <4>2. pc' = "create" => needsReset' /\ att'.members = att.members \ failed
        BY <4>1, <1>t DEF RetryWith, AttemptType
      <4>3. pc' = "create" => retry < MaxRetries /\ Drop(failed)
        <5>1. retry \in Nat /\ MaxRetries \in Nat
          BY WeightSyncAssumption DEF TypeOK, TxnTypeOK
        <5> QED BY <3>1, <4>1, <5>1 DEF StageFailed, RetryWith
      <4>4. pending' = {}
        BY <3>1, <1>t DEF StageFailed, Drop
      <4>5. pc' \in {"raised", "create"}
        BY <4>1 DEF RetryWith
      <4> QED BY <4>1, <4>2, <4>3, <4>4, <4>5 DEF Drop
    <3>2. CASE StageFatal
      BY <3>2, <1>t DEF StageFatal, manager
    <3>3. CASE StageStale
      <4>1. /\ pc \in PreCommit \cup {"commit"} /\ RetryWith(att.members \cap active)
            /\ UNCHANGED <<active, pending>>
        BY <3>3, <1>t DEF StageStale, manager
      <4>2. active \subseteq att.members
        BY <4>1, <1>g DEF OnlyLeave
      <4>3. pc' = "create" => needsReset' /\ att'.members = att.members \cap active
        BY <4>1, <1>t DEF RetryWith, AttemptType
      <4>4. pc' \in {"raised", "create"}
        BY <4>1 DEF RetryWith
      <4> QED BY <4>1, <4>2, <4>3, <4>4, <1>t
    <3> QED BY <1>5, <3>1, <3>2, <3>3
  <2> QED BY <2>1, <1>n DEF GInv, OnlyLeave, ResetFresh, AttemptFresh, ActiveFresh, StageNames
<1>6. CASE Commit
  <2>1. /\ pc = "commit" /\ pc' = "WAKE_UP" /\ Valid(att)
        /\ calls' = calls \cup Sent("WAKE_UP", att, gen)
        /\ UNCHANGED <<active, pending, gen, att, comm>>
    BY <1>6 DEF Commit, Enter, cluster
  <2>2. att.members = active
    BY <2>1, <1>t, <1>g DEF Valid, OnlyLeave
  <2>3. \A c \in calls' : c \in calls \/ c.op # "INIT_PROCESS_GROUP"
    BY <2>1, SentCalls
  <2>4. \A p \in active \cup {Trainer} : Fresh(p, active)
    <3>1. \A p \in Members : Fresh(p, att.members)
      BY <2>1, <1>g DEF AttemptFresh
    <3> QED BY <3>1, <2>2 DEF Members
  <2>5. ActiveFresh'
    BY <2>1, <2>3, <2>4 DEF ActiveFresh, Fresh
  <2> QED BY <2>1, <2>5, <1>n, <1>t DEF GInv, OnlyLeave, ResetFresh, AttemptFresh, StageNames
<1>7. CASE WakeDone
  <2>1. /\ pc = "WAKE_UP" /\ pc' = "RESUME"
        /\ \E a : calls' = calls \cup Sent("RESUME", a, gen)
        /\ UNCHANGED <<active, pending, dirty, gen, comm>>
    BY <1>7 DEF WakeDone, manager, cluster
  <2>2. \A c \in calls' : c \in calls \/ c.op # "INIT_PROCESS_GROUP"
    BY <2>1, SentCalls
  <2>3. ActiveFresh'
    BY <2>1, <2>2, <1>g DEF ActiveFresh, Fresh
  <2> QED BY <2>1, <2>3, <1>n, <1>t DEF GInv, OnlyLeave, ResetFresh, AttemptFresh, StageNames
<1> QED BY <1>1, <1>2, <1>3, <1>4, <1>5, <1>6, <1>7 DEF Manager

\* In a job whose replicas are those of the start, no engine meets the others
\* with a communicator of other members (_reset_communicator_if_needed and the
\* flag membership_changed), however often members die, time out and call late.
\* The hypothesis is needed: a replacement that dies between commit and
\* publication leaves the flag clear (PrunedLeaveGroup).
THEOREM MeetsFresh == FixedReplicas => (Spec => []GroupFresh)
<1> SUFFICES ASSUME FixedReplicas PROVE Spec => []GroupFresh
  OBVIOUS
<1>1. TypeOK /\ AttemptFenced /\ CInv /\ GInv /\ [Next]_vars => GInv'
  <2> SUFFICES ASSUME TypeOK, AttemptFenced, CInv, GInv, [Next]_vars PROVE GInv'
    OBVIOUS
  <2>1. NoLaterAttempt
    BY DEF AttemptFenced
  <2>2. CASE UNCHANGED vars
    <3>1. UNCHANGED <<pc, att, gen, needsReset, comm, calls, active, pending, dirty>>
      BY <2>2 DEF vars, manager, txn, cluster
    <3> QED BY <3>1 DEF GInv, OnlyLeave, ResetFresh, AttemptFresh, ActiveFresh, Fresh, Members
  <2> QED BY <2>1, <2>2, ManagerFresh, RemoteFresh, ControlFresh DEF Next
<1>2. TypeOK /\ AttemptFenced /\ CInv /\ [Next]_vars => CInv'
  BY StepCommunicator DEF AttemptFenced
<1>3. GInv => GroupFresh
  <2>1. "INIT_PROCESS_GROUP" \in PreCommit
    BY StageSets DEF PreCommitNames, StageNames
  <2> QED BY <2>1 DEF GInv, AttemptFresh, GroupFresh, Fresh, Members
<1> QED BY TypeCorrect, Fenced, InitCommunicator, InitFresh, <1>1, <1>2, <1>3, PTL DEF Spec

-----------------------------------------------------------------------------
(***************************************************************************)
(* WeightSync implements SyncContract: what serves requests serves the      *)
(* committed version, and a new version is committed only while nobody      *)
(* serves.  The inductive invariant follows.                                *)
(***************************************************************************)

Waking   == {"WAKE_UP", "RESUME"}
Quieting == {"ABORT_REQUESTS", "SLEEP"}
Before   == {"create", "commit"} \cup PreCommitNames   \* phases before the commit
PastCommit   == {"WAKE_UP", "RESUME", "PUBLISH"}           \* phases after it
\* Stages that begin when every member of the attempt has been put to sleep.
Silent ==
  {"PREPARE", "INIT_PROCESS_GROUP", "BEGIN", "TRANSFER", "FINALIZE", "EXPOSE",
   "VERIFY_VERSION", "commit"}

Writing  == {"BEGIN", "TRANSFER", "EXPOSE"}
CallsTo(r, ops) == {c \in calls : c.to = r /\ c.op \in ops}

\* A replica that sleeps, and that no call on its way will wake up.
Asleep(r) == mode[r] = "asleep" /\ CallsTo(r, Waking) = {}

\* A replica with the committed weights and version, which no call on its way
\* will change: the fences are past it, or it would write the same again.
Settled(r) ==
  /\ loaded[r] = committed /\ exposed[r] = committed
  /\ \A c \in CallsTo(r, {"BEGIN"}) : c.id <= fence[r].id
  /\ \A c \in CallsTo(r, {"EXPOSE"}) : c.id < fence[r].id \/ c.version = committed
  /\ \A c \in CallsTo(r, {"TRANSFER"}) :
       c.id < stream[r] \/ (c.id = stream[r] /\ c.version = committed)

\* A replica in the traffic sleeps, or has what was committed.
InTraffic == \A r \in lb \cap Known : Asleep(r) \/ Settled(r)

\* From the sleep stage to the commit, the members sleep.
MembersSleep ==
  \A r \in att.members : pc \in Silent \/ Answered("SLEEP", r) => Asleep(r)
\* ... because the present attempt wakes nobody up before it commits.
NoEarlyWake ==
  pc \in Before \ {"create"} => \A c \in calls : c.id = att.id => c.op \notin Waking

\* After the commit the members have what was committed.
MembersSettled == pc \in PastCommit => \A r \in att.members : Settled(r)

\* Until the commit, whatever is in the traffic is a member of the attempt: a
\* replica that arrives meanwhile was unknown to the load balancer.
TrafficIsMember == pc \in Before => lb \cap Known \subseteq att.members
Arrived == \A r \in lb \cup Known \cup att.members : sup[r] # "absent"

\* Versions only grow.
Ahead ==
  /\ pc \in Before => committed < att.version
  /\ pc = "idle" => committed <= att.version

ServeInv ==
  /\ InTraffic /\ MembersSleep /\ NoEarlyWake /\ MembersSettled
  /\ TrafficIsMember /\ Arrived /\ Ahead

\* After the commit of an attempt that stays valid, a member that answers the
\* wake-up is paused, and one that answers the resume generates: no call on
\* its way aborts it or puts it to sleep again.
ResumeInv ==
  /\ att.epoch <= epoch
  /\ pc = "WAKE_UP" => \A r \in att.members :
       /\ mode[r] \in {"asleep", "paused"} /\ CallsTo(r, {"RESUME"}) = {}
       /\ Answered("WAKE_UP", r) => mode[r] = "paused" /\ CallsTo(r, Quieting) = {}
  /\ pc = "RESUME" /\ Valid(att) => \A r \in att.members :
       /\ mode[r] \in {"paused", "running"} /\ CallsTo(r, Quieting) = {}
       /\ Answered("RESUME", r) => mode[r] = "running"

-----------------------------------------------------------------------------
(***************************************************************************)
(* Replicas that sleep, and replicas that have what was committed.           *)
(***************************************************************************)

\* Both last as long as nothing is sent that ends them.
LEMMA Lasts ==
  ASSUME NEW r, UNCHANGED <<mode, fence, exposed, loaded, stream, committed>>
  PROVE  /\ Asleep(r) /\ (\A c \in calls' \ calls : c.to = r => c.op \notin Waking) => Asleep(r)'
         /\ Settled(r) /\ (\A c \in calls' \ calls : c.to = r => c.op \notin Writing) => Settled(r)'
<1>1. ASSUME Asleep(r), \A c \in calls' \ calls : c.to = r => c.op \notin Waking PROVE Asleep(r)'
  BY <1>1 DEF Asleep, CallsTo
<1>2. ASSUME Settled(r), \A c \in calls' \ calls : c.to = r => c.op \notin Writing PROVE Settled(r)'
  <2>1. \A c \in calls' : c.to = r /\ c.op \in Writing => c \in calls
    BY <1>2
  <2>2. \A ops \in SUBSET Writing : CallsTo(r, ops)' \subseteq CallsTo(r, ops)
    BY <2>1 DEF CallsTo
  <2>3. /\ CallsTo(r, {"BEGIN"})' \subseteq CallsTo(r, {"BEGIN"})
        /\ CallsTo(r, {"EXPOSE"})' \subseteq CallsTo(r, {"EXPOSE"})
        /\ CallsTo(r, {"TRANSFER"})' \subseteq CallsTo(r, {"TRANSFER"})
    BY <2>1 DEF CallsTo, Writing
  <2> QED BY <2>3, <1>2 DEF Settled
<1> QED BY <1>1, <1>2

\* An actor executes its calls in order: what a call finds still on its way to
\* the same server is of a later attempt, or of no earlier stage.
LEMMA InOrder ==
  ASSUME TypeOK, NEW c \in calls, NEW d \in calls, First(c), d.to = c.to,
         c.op \in Waking \cup Quieting, d.op \in Waking \cup Quieting
  PROVE  d.id >= c.id /\ (d.id = c.id => Rank(d.op) >= Rank(c.op))
<1>1. SameActor(c, d) /\ ~Started(d)
  BY DEF SameActor, Started, EngineStage, Waking, Quieting
<1>2. ~Earlier(d, c)
  BY <1>1 DEF First
<1>3. c.id \in Nat /\ d.id \in Nat
  BY DEF TypeOK, CallType
<1>4. \A op \in Waking \cup Quieting : Rank(op) \in Nat
  <2>1. Rank("ABORT_REQUESTS") = 2 /\ Rank("SLEEP") = 3
        /\ Rank("WAKE_UP") = 11 /\ Rank("RESUME") = 12
    BY RankIs DEF StageOrder
  <2> QED BY <2>1 DEF Waking, Quieting
<1> QED BY <1>2, <1>3, <1>4 DEF Earlier

\* What a remote call leaves alone, and what it does to the answers.
LEMMA RemoteEffect ==
  ASSUME TypeOK, NEW c \in calls, Remote(c)
  PROVE  /\ UNCHANGED <<alive, remoteRest>> /\ calls' \subseteq calls
         /\ waiting' \subseteq waiting
         /\ \A s, r : Answered(s, r)' /\ r \in Replica =>
              Answered(s, r) \/ (c.to = r /\ c.id = att.id /\ c.op = s /\ pc = s /\ ~CallError(c))
<1>1. UNCHANGED <<alive, remoteRest>>
  BY DEF Remote, ResetGroup, AbortRequests, Sleep, WakeUp, ResumeGeneration, SetMode,
         Prepare, InitGroup, BeginWeightSync, TransferStart, TransferEnd, Finalize,
         SetGlobalSteps, GetGlobalSteps, CallError, cluster
<1>2. CASE TransferStart(c)
  BY <1>1, <1>2 DEF TransferStart, Answered, remoteRest
<1>3. CASE CallError(c)
  BY <1>1, <1>3, AnswerHeard DEF CallError, Answered, remoteRest
<1>4. CASE ~TransferStart(c) /\ ~CallError(c)
  <2>1. \E ok, retryable \in BOOLEAN : Answer(c, ok, retryable)
    BY <1>4
    DEF Remote, ResetGroup, AbortRequests, Sleep, WakeUp, ResumeGeneration, SetMode, Done,
        Prepare, InitGroup, BeginWeightSync, TransferEnd, Finalize, SetGlobalSteps,
        GetGlobalSteps
  <2> QED BY <1>1, <1>4, <2>1, AnswerHeard DEF Answered, remoteRest
<1> QED BY <1>2, <1>3, <1>4

\* What remote calls do to the mode of a server.
LEMMA ModeEffect ==
  ASSUME TypeOK, NEW c \in calls, Remote(c), NEW r \in Replica
  PROVE  \/ mode'[r] = mode[r] /\ (CallError(c) \/ c.to # r \/ c.op \notin Waking \cup Quieting)
         \/ /\ c.to = r /\ First(c) /\ calls' = calls \ {c}
            /\ \/ /\ c.op = "ABORT_REQUESTS"
                  /\ mode'[r] = IF mode[r] = "running" THEN "paused" ELSE mode[r]
               \/ c.op = "SLEEP" /\ mode'[r] = "asleep"
               \/ /\ c.op = "WAKE_UP"
                  /\ mode'[r] = IF mode[r] = "asleep" THEN "paused" ELSE mode[r]
               \/ /\ c.op = "RESUME"
                  /\ mode'[r] = IF mode[r] = "paused" THEN "running" ELSE mode[r]
<1>1. mode \in [Replica -> {"running", "paused", "asleep"}]
  BY DEF TypeOK, ClusterTypeOK
<1>2. CASE CallError(c)
  BY <1>2 DEF CallError, cluster
<1>3. ASSUME NEW op, NEW from, NEW to, SetMode(c, op, from, to)
      PROVE  /\ c.op = op /\ First(c) /\ calls' = calls \ {c}
             /\ mode'[r] = IF r = c.to /\ mode[r] \in from THEN to ELSE mode[r]
  BY <1>1, <1>3 DEF SetMode, Next1, Done, Answer
<1>4. CASE AbortRequests(c)
  BY <1>1, <1>3, <1>4 DEF AbortRequests
<1>5. CASE Sleep(c)
  BY <1>1, <1>3, <1>5 DEF Sleep
<1>6. CASE WakeUp(c)
  BY <1>1, <1>3, <1>6 DEF WakeUp
<1>7. CASE ResumeGeneration(c)
  BY <1>1, <1>3, <1>7 DEF ResumeGeneration
<1>8. CASE ResetGroup(c) \/ Prepare(c) \/ InitGroup(c) \/ BeginWeightSync(c)
             \/ TransferStart(c) \/ TransferEnd(c) \/ Finalize(c) \/ SetGlobalSteps(c)
             \/ GetGlobalSteps(c)
  <2>1. mode' = mode
    BY <1>8 DEF ResetGroup, Prepare, InitGroup, BeginWeightSync, TransferStart,
                TransferEnd, Finalize, SetGlobalSteps, GetGlobalSteps, cluster
  <2>2. c.op \notin Waking \cup Quieting
    BY <1>8 DEF ResetGroup, Prepare, InitGroup, BeginWeightSync, TransferStart,
                TransferEnd, Finalize, SetGlobalSteps, GetGlobalSteps, Next1, Started,
                Waking, Quieting
  <2> QED BY <2>1, <2>2
<1> QED BY <1>2, <1>4, <1>5, <1>6, <1>7, <1>8 DEF Remote

\* A replica that sleeps is woken up only by a call that is on its way.
LEMMA SleepsOn ==
  ASSUME TypeOK, NEW c \in calls, Remote(c), NEW r \in Replica, Asleep(r)
  PROVE  Asleep(r)'
<1>1. calls' \subseteq calls
  BY RemoteEffect
<1>2. CallsTo(r, Waking)' = {}
  BY <1>1 DEF Asleep, CallsTo
<1>3. ~(c.to = r /\ c.op \in Waking)
  BY DEF Asleep, CallsTo
<1>4. mode'[r] = "asleep"
  BY <1>3, ModeEffect DEF Asleep, Waking
<1> QED BY <1>2, <1>4 DEF Asleep

\* No call on its way changes the weights or the version of a settled replica:
\* older ones are turned away by the fences, and the attempt's own ones write
\* what is there.
LEMMA SettledStays ==
  ASSUME TypeOK, NEW c \in calls, Remote(c), NEW r \in Replica, Settled(r)
  PROVE  Settled(r)'
<1>0. /\ fence \in [Replica -> [id : Nat, version : Version]]
      /\ exposed \in [Replica -> Version]
      /\ loaded \in [Replica -> Version \cup {Torn}]
      /\ stream \in [Participant -> Nat] /\ r \in Participant /\ r # Trainer
      /\ \A d \in calls : d.id \in Nat
  BY WeightSyncAssumption DEF TypeOK, ClusterTypeOK, CallType, Participant
<1>1. calls' \subseteq calls /\ committed' = committed
  BY RemoteEffect DEF remoteRest
<1>2. ASSUME loaded'[r] = loaded[r], exposed'[r] = exposed[r],
             fence'[r].id = fence[r].id, stream'[r] = stream[r]
      PROVE  Settled(r)'
  BY <1>1, <1>2 DEF Settled, CallsTo
<1>3. CASE UNCHANGED <<loaded, exposed, fence, stream>>
  BY <1>2, <1>3
<1>4. CASE BeginWeightSync(c)
  <2>1. c.op = "BEGIN" /\ UNCHANGED <<loaded, exposed, stream>>
    BY <1>4 DEF BeginWeightSync, Next1
  <2>2. c.to = r => c.id <= fence[r].id
    BY <2>1 DEF Settled, CallsTo
  <2>3. fence'[r].id = fence[r].id
    <3>1. CASE c.id < fence[c.to].id
      BY <1>4, <3>1 DEF BeginWeightSync
    <3>2. CASE ~(c.id < fence[c.to].id)
      <4>1. fence' = [fence EXCEPT ![c.to] = [id |-> c.id, version |-> c.version]]
        BY <1>4, <3>2 DEF BeginWeightSync
      <4>2. CASE c.to = r
        <5>1. fence'[r].id = c.id
          BY <4>1, <4>2, <1>0
        <5>2. c.id = fence[r].id
          <6>1. fence[r].id \in Nat /\ c.id \in Nat
            BY <1>0
          <6> QED BY <4>2, <3>2, <2>2, <6>1
        <5> QED BY <5>1, <5>2
      <4>3. CASE c.to # r
        BY <4>1, <4>3, <1>0
      <4> QED BY <4>2, <4>3
    <3> QED BY <3>1, <3>2
  <2> QED BY <1>2, <2>1, <2>3
<1>5. CASE TransferStart(c)
  <2>1. /\ c.op = "TRANSFER" /\ ~(c.id <= stream[c.to])
        /\ stream' = [stream EXCEPT ![c.to] = c.id] /\ UNCHANGED <<exposed, fence>>
        /\ loaded' = IF c.to = Trainer THEN loaded ELSE [loaded EXCEPT ![c.to] = Torn]
    BY <1>5 DEF TransferStart, Next1, Started
  <2>2. c.to # r
    BY <2>1, <1>0 DEF Settled, CallsTo
  <2> QED BY <1>2, <2>1, <2>2, <1>0
<1>6. CASE TransferEnd(c)
  <2>1. /\ c.op = "TRANSFER" /\ UNCHANGED <<stream, exposed, fence>>
        /\ loaded' = IF c.to # Trainer /\ stream[c.to] = c.id
                     THEN [loaded EXCEPT ![c.to] = c.version] ELSE loaded
    BY <1>6 DEF TransferEnd, Started
  <2>2. c.to = r /\ stream[r] = c.id => c.version = committed
    BY <2>1, <1>0 DEF Settled, CallsTo
  <2>3. loaded'[r] = loaded[r]
    BY <2>1, <2>2, <1>0 DEF Settled
  <2> QED BY <1>2, <2>1, <2>3
<1>7. CASE SetGlobalSteps(c)
  <2> DEFINE current == fence[c.to] = [id |-> c.id, version |-> c.version]
  <2>1. /\ c.op = "EXPOSE" /\ UNCHANGED <<stream, loaded, fence>>
        /\ exposed' = IF current THEN [exposed EXCEPT ![c.to] = c.version] ELSE exposed
    BY <1>7 DEF SetGlobalSteps, Next1
  <2>2. current => fence[c.to].id = c.id
    OBVIOUS
  <2> HIDE DEF current
  <2>3. c.to = r /\ current => c.version = committed
    BY <2>1, <2>2, <1>0 DEF Settled, CallsTo
  <2>4. exposed'[r] = exposed[r]
    BY <2>1, <2>3, <1>0 DEF Settled
  <2> QED BY <1>2, <2>1, <2>4
<1>8. CASE ResetGroup(c) \/ AbortRequests(c) \/ Sleep(c) \/ Prepare(c) \/ InitGroup(c)
             \/ Finalize(c) \/ GetGlobalSteps(c) \/ WakeUp(c) \/ ResumeGeneration(c)
             \/ CallError(c)
  BY <1>3, <1>8 DEF ResetGroup, AbortRequests, Sleep, WakeUp, ResumeGeneration, SetMode,
                    Prepare, InitGroup, Finalize, GetGlobalSteps, CallError, cluster
<1> QED BY <1>4, <1>5, <1>6, <1>7, <1>8 DEF Remote

-----------------------------------------------------------------------------
(***************************************************************************)
(* Every step keeps the first part of the invariant.                         *)
(***************************************************************************)

\* Remote calls: what the members answered for, they keep.
LEMMA RemoteServe ==
  ASSUME TypeOK, AttemptFenced, ServeInv, NEW c \in calls, Remote(c)
  PROVE  ServeInv'
<1>1. /\ calls' \subseteq calls /\ UNCHANGED <<active, pending, pc, att, sup, lb, committed>>
      /\ Known' = Known /\ Valid(att)' = Valid(att)
  BY RemoteEffect DEF remoteRest, manager, control, Known, Valid
<1>2. /\ att.members \subseteq Replica /\ Known \subseteq Replica
      /\ \A d \in calls : d.id \in Nat /\ d.id <= att.id /\ att.id \in Nat
  BY DEF TypeOK, TxnTypeOK, ManagerTypeOK, CallType, Known, AttemptFenced, NoLaterAttempt
<1>3. InTraffic'
  BY <1>1, <1>2, SleepsOn, SettledStays DEF ServeInv, InTraffic
<1>4. MembersSettled'
  BY <1>1, <1>2, SettledStays DEF ServeInv, MembersSettled
<1>5. MembersSleep'
  <2> SUFFICES ASSUME NEW r \in att.members, pc \in Silent \/ Answered("SLEEP", r)'
               PROVE  Asleep(r)'
    BY <1>1 DEF MembersSleep
  <2>1. CASE pc \in Silent \/ Answered("SLEEP", r)
    BY <2>1, <1>2, SleepsOn DEF ServeInv, MembersSleep
  <2>2. CASE c.to = r /\ c.id = att.id /\ c.op = "SLEEP" /\ pc = "SLEEP" /\ ~CallError(c)
    <3>1. First(c) /\ mode'[r] = "asleep"
      BY <2>2, <1>2, ModeEffect DEF Waking, Quieting
    <3>2. ASSUME NEW d \in CallsTo(r, Waking) PROVE FALSE
      <4>1. d \in calls /\ d.to = r /\ d.op \in Waking
        BY DEF CallsTo
      <4>2. d.id >= c.id
        BY <2>2, <3>1, <4>1, InOrder DEF Quieting
      <4>3. d.id = att.id
        BY <4>1, <4>2, <2>2, <1>2
      <4> QED BY <4>1, <4>3, <2>2
              DEF ServeInv, NoEarlyWake, Before, PreCommitNames, StageNames
    <3>3. CallsTo(r, Waking)' = {}
      BY <3>2, <1>1 DEF CallsTo
    <3> QED BY <3>1, <3>3 DEF Asleep
  <2> QED BY <2>1, <2>2, <1>2, RemoteEffect
<1>6. NoEarlyWake' /\ TrafficIsMember' /\ Arrived' /\ Ahead'
  BY <1>1 DEF ServeInv, NoEarlyWake, TrafficIsMember, Arrived, Ahead
<1> QED BY <1>3, <1>4, <1>5, <1>6 DEF ServeInv

\* The Supervisor and the load balancer: what arrives is not routed to, and
\* what is admitted was synchronised by this transaction.
LEMMA ControlServe ==
  ASSUME TypeOK, AttemptFenced, ServeInv, NEW r \in Replica, Control(r)
  PROVE  ServeInv'
<1>1. /\ calls' \subseteq calls
      /\ UNCHANGED <<mode, fence, exposed, loaded, stream, committed, pc, att>>
  BY DEF Control, Declare, ReportFailure, Isolate, OnReplicaDead, AddPendingReplica,
         SuperviseReplica, AddReplicas, Promote, Die, supRest, remoteRest, txn, cluster
<1>2. \A q : (Asleep(q) => Asleep(q)') /\ (Settled(q) => Settled(q)')
  BY <1>1, Lasts
<1>3. \A s, q : Answered(s, q)' => Answered(s, q) \/ pc = "PUBLISH"
  BY DEF Answered, Control, Declare, ReportFailure, Isolate, OnReplicaDead,
         AddPendingReplica, SuperviseReplica, AddReplicas, Promote, Die, supRest,
         remoteRest, txn
<1>4. MembersSleep' /\ NoEarlyWake' /\ MembersSettled' /\ Ahead'
  BY <1>1, <1>2, <1>3
  DEF ServeInv, MembersSleep, NoEarlyWake, MembersSettled, Ahead, Answered
<1>5. /\ lb' \cap Known' \subseteq
             (lb \cap Known) \cup (IF pc = "PUBLISH" THEN att.members ELSE {})
      /\ Arrived'
  <2>0. Arrived /\ sup \in [Replica -> {"absent", "unknown", "healthy", "declared",
                                        "isolated", "pruned"}]
        /\ att.members \subseteq Replica
        /\ (pc = "PUBLISH" => waiting \subseteq att.members)
    BY DEF ServeInv, TypeOK, TxnTypeOK, ControlTypeOK, AttemptFenced
  <2>1. CASE Declare(r) \/ ReportFailure(r) \/ Isolate(r) \/ SuperviseReplica(r)
    <3>1. lb' \subseteq lb /\ Known' = Known /\ att' = att
      BY <2>1 DEF Declare, ReportFailure, Isolate, SuperviseReplica, Known, manager,
                  supRest, txn
    <3>2. \A q \in Replica : sup[q] # "absent" => sup'[q] # "absent"
      BY <2>0, <2>1 DEF Declare, ReportFailure, Isolate, SuperviseReplica
    <3> QED BY <2>0, <3>1, <3>2 DEF Arrived, TypeOK, ManagerTypeOK, ControlTypeOK, Known
  <2>2. CASE OnReplicaDead(r)
    <3>1. UNCHANGED <<lb, att>> /\ Known' \subseteq Known
      BY <2>2 DEF OnReplicaDead, Drop, Known, supRest, txn
    <3>2. \A q \in Replica : sup[q] # "absent" => sup'[q] # "absent"
      BY <2>0, <2>2 DEF OnReplicaDead
    <3> QED BY <2>0, <3>1, <3>2 DEF Arrived, TypeOK, ManagerTypeOK, ControlTypeOK, Known
  <2>3. CASE AddPendingReplica(r) \/ AddReplicas(r)
    <3>1. /\ UNCHANGED <<lb, att>> /\ Known' \subseteq Known \cup {r}
          /\ sup[r] = "absent" /\ sup' = [sup EXCEPT ![r] = "unknown"]
      BY <2>3 DEF AddPendingReplica, AddReplicas, Known, txn
    <3>2. \A q \in Replica : sup[q] # "absent" \/ q = r => sup'[q] # "absent"
      BY <2>0, <3>1
    <3>3. r \notin lb
      BY <2>0, <3>1 DEF Arrived
    <3> QED BY <2>0, <3>1, <3>2, <3>3 DEF Arrived, TypeOK, ManagerTypeOK, ControlTypeOK, Known
  <2>4. CASE Promote(r)
    <3>1. /\ pc = "PUBLISH" /\ r \in att.members /\ lb' \subseteq lb \cup {r}
          /\ UNCHANGED <<active, pending, att>>
          /\ sup' \in {sup, [sup EXCEPT ![r] = "declared"]}
      BY <2>0, <2>4 DEF Promote, manager
    <3>2. Known' = Known /\ \A q \in Replica : sup[q] # "absent" => sup'[q] # "absent"
      BY <2>0, <3>1 DEF Known
    <3> QED BY <2>0, <3>1, <3>2 DEF Arrived, TypeOK, ManagerTypeOK, ControlTypeOK, Known
  <2>5. CASE Die(r)
    <3>1. UNCHANGED <<lb, active, pending, att, sup>>
      BY <2>5 DEF Die, remoteRest, manager, control
    <3> QED BY <2>0, <3>1 DEF Arrived, Known
  <2> QED BY <2>1, <2>2, <2>3, <2>4, <2>5 DEF Control
<1>6. InTraffic'
  BY <1>2, <1>5 DEF ServeInv, InTraffic, MembersSettled, PastCommit
<1>7. TrafficIsMember'
  BY <1>1, <1>5 DEF ServeInv, TrafficIsMember, Before, PreCommitNames, StageNames
<1> QED BY <1>4, <1>5, <1>6, <1>7 DEF ServeInv

\* The manager: the wake-up follows the commit, and the commit finds everything
\* that is in the traffic among the members, asleep.
LEMMA ManagerServe ==
  ASSUME TypeOK, AttemptFenced, ServeInv, Manager
  PROVE  ServeInv'
<1>0. /\ UNCHANGED <<mode, fence, exposed, loaded, stream, lb, sup>>
      /\ Known' \subseteq Known
  BY DEF Manager, StartSync, CreateAttempt, Deadline, StageOk, StageFailed, StageFatal,
         StageStale, Commit, WakeDone, ResumeDone, PublishDone, Drop, cluster, control,
         manager, Known
<1>t. /\ att \in AttemptType /\ att.id \in Nat /\ att.members \subseteq Replica
      /\ Known \subseteq Replica /\ committed \in Nat /\ att.version \in Nat
      /\ \A c \in calls : c.id \in Nat /\ c.id <= att.id
  BY DEF TypeOK, TxnTypeOK, ManagerTypeOK, ControlTypeOK, AttemptType, CallType, Known,
         Version, AttemptFenced, NoLaterAttempt
<1>s. Stage = StageNames /\ PreCommit = PreCommitNames
  BY StageSets
<1>1. CASE StartSync
  <2>1. /\ pc = "idle" /\ pc' \in {"raised", "create"} /\ att'.version = att.version + 1
        /\ att'.members = Known /\ UNCHANGED <<calls, committed, active, pending>>
    BY <1>1, <1>t DEF StartSync, AttemptType, manager
  <2>2. Known' = Known
    BY <2>1 DEF Known
  <2>3. \A r : (Asleep(r) => Asleep(r)') /\ (Settled(r) => Settled(r)')
    BY <2>1, <1>0, Lasts
  <2>4. InTraffic'
    BY <2>2, <2>3, <1>0 DEF ServeInv, InTraffic
  <2>5. MembersSleep' /\ NoEarlyWake' /\ MembersSettled'
    BY <2>1 DEF MembersSleep, Silent, Answered, NoEarlyWake, Before, PreCommitNames,
                StageNames, MembersSettled, PastCommit
  <2>6. TrafficIsMember' /\ Arrived'
    BY <2>1, <2>2, <1>0 DEF ServeInv, TrafficIsMember, Arrived
  <2>7. Ahead'
    BY <2>1, <1>t DEF ServeInv, Ahead
  <2> QED BY <2>4, <2>5, <2>6, <2>7 DEF ServeInv
<1>2. CASE CreateAttempt
  <2> DEFINE a == [id |-> att.id + 1, version |-> att.version, epoch |-> epoch,
                   members |-> att.members]
             s == IF needsReset THEN "RESET_GROUP" ELSE "ABORT_REQUESTS"
  <2>1. /\ pc = "create" /\ pc' = s /\ waiting' = Participants(s, a)
        /\ calls' = calls \cup Sent(s, a, gen') /\ att' = a
        /\ UNCHANGED <<active, pending, committed>>
    BY <1>2 DEF CreateAttempt, Enter
  <2>2. a.id = att.id + 1 /\ a.version = att.version /\ a.members = att.members
    OBVIOUS
  <2>3. s \in PreCommitNames \ (Silent \cup {"SLEEP"}) /\ s \notin Waking \cup Writing
    BY DEF PreCommitNames, StageNames, Silent, Waking, Writing
  <2>4. \A c \in Sent(s, a, gen') : c.op = s
    BY DEF Sent
  <2> HIDE DEF a, s
  <2>5. \A c \in calls' \ calls : c.op \notin Waking \cup Writing
    BY <2>1, <2>3, <2>4
  <2>6. \A r : (Asleep(r) => Asleep(r)') /\ (Settled(r) => Settled(r)')
    BY <2>1, <2>5, <1>0, Lasts
  <2>7. Known' = Known /\ att'.members = att.members /\ att'.version = att.version
    BY <2>1, <2>2 DEF Known
  <2>8. InTraffic'
    BY <2>6, <2>7, <2>1, <1>0 DEF ServeInv, InTraffic
  <2>9. MembersSleep' /\ MembersSettled'
    BY <2>1, <2>3 DEF MembersSleep, Answered, MembersSettled, PastCommit, PreCommitNames,
                      StageNames
  <2>10. NoEarlyWake'
    <3>1. \A c \in calls' : c.id = a.id => c \notin calls
      BY <2>1, <2>2, <1>t
    <3> QED BY <3>1, <2>1, <2>5 DEF NoEarlyWake
  <2>11. TrafficIsMember' /\ Arrived' /\ Ahead'
    BY <2>1, <2>3, <2>7, <1>0
    DEF ServeInv, TrafficIsMember, Arrived, Ahead, Before, PreCommitNames, StageNames
  <2> QED BY <2>8, <2>9, <2>10, <2>11 DEF ServeInv
<1>3. CASE Deadline
  <2>1. /\ UNCHANGED <<active, pending, pc, att, calls, committed>>
        /\ failed' = failed \cup (waiting \cap Replica)
    BY <1>3 DEF Deadline, manager
  <2>2. \A r : (Asleep(r) => Asleep(r)') /\ (Settled(r) => Settled(r)')
    BY <2>1, <1>0, Lasts
  <2>3. InTraffic' /\ MembersSettled'
    BY <2>1, <2>2, <1>0 DEF ServeInv, InTraffic, MembersSettled, Known
  <2>4. \A r \in att.members : Answered("SLEEP", r)' => Answered("SLEEP", r)
    BY <2>1, <1>t DEF Answered
  <2>5. MembersSleep'
    BY <2>1, <2>2, <2>4 DEF ServeInv, MembersSleep
  <2>6. NoEarlyWake' /\ TrafficIsMember' /\ Arrived' /\ Ahead'
    BY <2>1, <1>0 DEF ServeInv, NoEarlyWake, TrafficIsMember, Arrived, Ahead, Known
  <2> QED BY <2>3, <2>5, <2>6 DEF ServeInv
<1>4. CASE StageOk
  <2>1. /\ pc \in PreCommitNames /\ waiting = {} /\ failed = {}
        /\ UNCHANGED <<active, pending, att, committed>>
    BY <1>4, <1>s DEF StageOk
  <2>2. Known' = Known
    BY <2>1 DEF Known
  <2> DEFINE next == IF pc = "VERIFY_VERSION" THEN "commit" ELSE After(pc)
  <2>3. /\ pc' = next
        /\ next = "commit" => UNCHANGED <<waiting, failed, calls>>
        /\ next # "commit" => /\ waiting' = Participants(next, att)
                              /\ calls' = calls \cup Sent(next, att, gen)
    <3>1. After(pc) # "commit" \/ pc = "VERIFY_VERSION"
      BY <2>1, AfterIs DEF PreCommitNames, StageNames
    <3> QED BY <1>4, <3>1 DEF StageOk, Enter
  <2>4. /\ next \in (PreCommitNames \cup {"commit"}) \ {"RESET_GROUP"}
        /\ next \notin Waking \cup {"idle"}
        /\ next \in Silent => pc \in Silent \cup {"SLEEP"}
        /\ next \in Writing => pc \in Silent
    BY <2>1, AfterIs DEF PreCommitNames, StageNames, Silent, Waking, Writing
  <2> HIDE DEF next
  <2>5. \A c \in calls' \ calls : c.op = next /\ c.id = att.id
                                  /\ c.to \in Participants(next, att)
    BY <2>3 DEF Sent
  <2>6. next \in Silent => \A r \in att.members : Asleep(r)
    BY <2>1, <2>4 DEF ServeInv, MembersSleep, Answered
  <2>7. next \in Writing => \A r \in att.members : Asleep(r)
    BY <2>4 DEF ServeInv, MembersSleep
  <2>8. \A r : Asleep(r) => Asleep(r)'
    BY <2>1, <2>4, <2>5, <1>0, Lasts
  <2>9. ASSUME NEW r, Settled(r), r \notin att.members \/ ~Asleep(r), r # Trainer
        PROVE  Settled(r)'
    <3>1. \A c \in calls' \ calls : c.to = r => c.op \notin Writing
      BY <2>5, <2>7, <2>9 DEF Participants
    <3> QED BY <3>1, <2>1, <2>9, <1>0, Lasts
  <2>10. InTraffic'
    BY <2>2, <2>8, <2>9, <1>0, <1>t, WeightSyncAssumption DEF ServeInv, InTraffic
  <2>11. MembersSettled'
    BY <2>3, <2>4 DEF MembersSettled, PastCommit, PreCommitNames, StageNames, Waking
  <2>12. MembersSleep'
    <3> SUFFICES ASSUME NEW r \in att.members, next \in Silent \/ Answered("SLEEP", r)'
                 PROVE  Asleep(r)'
      BY <2>1, <2>3 DEF MembersSleep
    <3>1. CASE next \in Silent
      BY <3>1, <2>6, <2>8
    <3>2. CASE Answered("SLEEP", r)'
      BY <3>2, <2>3, <2>4 DEF Answered, Participants
    <3> QED BY <3>1, <3>2
  <2>13. NoEarlyWake'
    BY <2>1, <2>3, <2>4, <2>5 DEF ServeInv, NoEarlyWake, Before, PreCommitNames, StageNames
  <2>14. TrafficIsMember' /\ Arrived' /\ Ahead'
    BY <2>1, <2>2, <2>3, <2>4, <1>0 DEF ServeInv, TrafficIsMember, Arrived, Ahead, Before
  <2> QED BY <2>10, <2>11, <2>12, <2>13, <2>14 DEF ServeInv
<1>5. CASE StageFailed \/ StageFatal \/ StageStale
  <2>1. /\ pc \in Before \ {"create"} /\ pc' \in {"raised", "create"}
        /\ att'.members \subseteq att.members /\ att'.version = att.version
        /\ UNCHANGED <<calls, committed>>
    BY <1>5, <1>s, <1>t DEF StageFailed, StageFatal, StageStale, RetryWith, AttemptType,
       Before, PreCommitNames, StageNames
  <2>2. pc' = "create" => lb \cap Known' \subseteq att'.members
    <3>1. CASE StageFailed /\ pc' = "create"
      <4>1. /\ att'.members = att.members \ failed /\ retry < MaxRetries
        BY <3>1, <1>t, WeightSyncAssumption
           DEF StageFailed, RetryWith, AttemptType, TypeOK, TxnTypeOK
      <4>2. Known' = Known \ failed
        BY <3>1, <4>1, WeightSyncAssumption
           DEF StageFailed, Drop, Known, TypeOK, TxnTypeOK
      <4> QED BY <2>1, <4>1, <4>2 DEF ServeInv, TrafficIsMember
    <3>2. CASE StageStale /\ pc' = "create"
      <4>1. att'.members = att.members \cap Known /\ UNCHANGED <<active, pending>>
        BY <3>2, <1>t DEF StageStale, RetryWith, AttemptType, manager
      <4> QED BY <2>1, <4>1 DEF ServeInv, TrafficIsMember, Known
    <3>3. CASE StageFatal
      BY <3>3 DEF StageFatal
    <3> QED BY <1>5, <3>1, <3>2, <3>3
  <2>3. \A r : (Asleep(r) => Asleep(r)') /\ (Settled(r) => Settled(r)')
    BY <2>1, <1>0, Lasts
  <2>4. InTraffic'
    BY <2>3, <1>0 DEF ServeInv, InTraffic
  <2>5. MembersSleep' /\ NoEarlyWake' /\ MembersSettled'
    BY <2>1 DEF MembersSleep, Silent, Answered, NoEarlyWake, Before, PreCommitNames,
                StageNames, MembersSettled, PastCommit
  <2>6. TrafficIsMember' /\ Arrived' /\ Ahead'
    BY <2>1, <2>2, <1>0 DEF ServeInv, TrafficIsMember, Arrived, Ahead, Before,
       PreCommitNames, StageNames
  <2> QED BY <2>4, <2>5, <2>6 DEF ServeInv
<1>6. CASE Commit
  <2>1. /\ pc = "commit" /\ pc' = "WAKE_UP" /\ committed' = att.version
        /\ calls' = calls \cup Sent("WAKE_UP", att, gen)
        /\ UNCHANGED <<active, pending, att>>
    BY <1>6 DEF Commit, Enter
  <2>2. ASSUME NEW r \in att.members PROVE Settled(r)'
    <3>1. /\ fence[r].id = att.id /\ stream[r] = att.id
          /\ loaded[r] = att.version /\ exposed[r] = att.version
      BY <2>1 DEF AttemptFenced, MembersKeep, PastBegin, PastTransfer, PastExpose
    <3>2. \A c \in calls : c.id = att.id => c.version = att.version
      BY <2>1 DEF AttemptFenced, NoLaterAttempt, Running
    <3>3. \A c \in calls' : c.op \in Writing => c \in calls
      BY <2>1 DEF Sent, Writing
    <3>4. \A c \in calls' : c.op \in Writing =>
            c.id <= att.id /\ (c.id < att.id \/ (c.id = att.id /\ c.version = att.version))
      BY <3>2, <3>3, <1>t
    <3> QED BY <2>1, <3>1, <3>4, <1>0 DEF Settled, CallsTo, Writing
  <2>3. lb' \cap Known' \subseteq att.members
    BY <2>1, <1>0 DEF ServeInv, TrafficIsMember, Before, Known
  <2>4. InTraffic' /\ MembersSettled'
    BY <2>1, <2>2, <2>3 DEF InTraffic, MembersSettled
  <2>5. MembersSleep' /\ NoEarlyWake' /\ TrafficIsMember' /\ Ahead'
    BY <2>1 DEF MembersSleep, Silent, Answered, NoEarlyWake, TrafficIsMember, Ahead,
                Before, PreCommitNames, StageNames
  <2>6. Arrived'
    BY <2>1, <1>0 DEF ServeInv, Arrived, Known
  <2> QED BY <2>4, <2>5, <2>6 DEF ServeInv
<1>7. CASE WakeDone \/ ResumeDone \/ PublishDone
  <2>1. /\ pc \in PastCommit /\ pc' \in {"RESUME", "raised", "PUBLISH", "idle"}
        /\ att'.members \subseteq att.members /\ att'.version = att.version
        /\ UNCHANGED committed
        /\ \A c \in calls' \ calls : c.op = "RESUME" /\ c.to \in att.members
    <3>1. CASE WakeDone
      <4> DEFINE lost == IF Valid(att) THEN failed ELSE {}
                 a == [att EXCEPT !.members = @ \ lost]
      <4>1. /\ pc = "WAKE_UP" /\ pc' = "RESUME" /\ att' = a
            /\ calls' = calls \cup Sent("RESUME", a, gen) /\ UNCHANGED committed
        BY <3>1 DEF WakeDone
      <4>2. a.members \subseteq att.members /\ a.version = att.version
        BY <1>t DEF AttemptType
      <4> HIDE DEF a
      <4>3. \A c \in Sent("RESUME", a, gen) : c.op = "RESUME" /\ c.to \in a.members
        BY DEF Sent, Participants, EngineStage
      <4> QED BY <4>1, <4>2, <4>3 DEF PastCommit
    <3>2. CASE ResumeDone
      BY <3>2 DEF ResumeDone, PastCommit
    <3>3. CASE PublishDone
      BY <3>3 DEF PublishDone, PastCommit
    <3> QED BY <1>7, <3>1, <3>2, <3>3
  <2>2. \A r : Settled(r) => Settled(r)'
    <3>1. \A c \in calls' \ calls : c.op \notin Writing
      BY <2>1 DEF Writing
    <3> QED BY <2>1, <3>1, <1>0, Lasts
  <2>3. \A r \in Replica \ att.members : Asleep(r) => Asleep(r)'
    BY <2>1, <1>0, Lasts
  <2>4. \A r \in att.members : Settled(r)
    BY <2>1 DEF ServeInv, MembersSettled
  <2>5. InTraffic'
    <3>1. \A r \in lb \cap Known : Asleep(r) \/ Settled(r)
      BY DEF ServeInv, InTraffic
    <3> QED BY <3>1, <2>2, <2>3, <2>4, <1>0, <1>t DEF InTraffic
  <2>6. MembersSettled'
    BY <2>1, <2>2, <2>4 DEF MembersSettled
  <2>7. MembersSleep' /\ NoEarlyWake' /\ TrafficIsMember'
    BY <2>1 DEF MembersSleep, Silent, Answered, NoEarlyWake, TrafficIsMember, Before,
                PreCommitNames, StageNames
  <2>8. Arrived'
    BY <2>1, <1>0 DEF ServeInv, Arrived
  <2>9. Ahead'
    BY <2>1, <1>t DEF AttemptFenced, ServeInv, Ahead, Before, PreCommitNames, StageNames,
                      PastCommit
  <2> QED BY <2>5, <2>6, <2>7, <2>8, <2>9 DEF ServeInv
<1> QED BY <1>1, <1>2, <1>3, <1>4, <1>5, <1>6, <1>7 DEF Manager

LEMMA InitServe == Init => ServeInv
<1> SUFFICES ASSUME Init PROVE ServeInv
  OBVIOUS
<1> USE WeightSyncAssumption
<1>1. \A r \in Initial : Settled(r)
  BY DEF Init, Settled, CallsTo
<1>2. pc = "idle" /\ lb = Initial /\ Known = Initial /\ att.members = {} /\ att.version = 0
      /\ committed = 0 /\ \A r \in Initial : sup[r] = "healthy"
  BY DEF Init, Known
<1>3. InTraffic
  BY <1>1, <1>2 DEF InTraffic
<1> QED BY <1>2, <1>3
    DEF ServeInv, MembersSleep, NoEarlyWake, MembersSettled, TrafficIsMember, Arrived,
        Ahead, Silent, Before, PreCommitNames, StageNames, PastCommit, Answered

LEMMA StutterServe == ServeInv /\ UNCHANGED vars => ServeInv'
<1> SUFFICES ASSUME ServeInv, UNCHANGED vars PROVE ServeInv'
  OBVIOUS
<1> USE DEF vars, manager, txn, cluster, control
<1>1. \A r : (Asleep(r) => Asleep(r)') /\ (Settled(r) => Settled(r)')
  BY Lasts
<1> QED BY <1>1 DEF ServeInv, InTraffic, MembersSleep, NoEarlyWake, MembersSettled,
                    TrafficIsMember, Arrived, Ahead, Answered, Known

LEMMA Serves == Spec => []ServeInv
<1>1. TypeOK /\ AttemptFenced /\ ServeInv /\ [Next]_vars => ServeInv'
  BY ManagerServe, RemoteServe, ControlServe, StutterServe DEF Next
<1> QED BY InitServe, <1>1, TypeCorrect, Fenced, PTL DEF Spec

-----------------------------------------------------------------------------
(***************************************************************************)
(* What serves, and the contract.                                           *)
(***************************************************************************)

\* A replica that generates is not asleep, so it has what was committed.
LEMMA ServingSettled == ServeInv => ServesCommitted
BY DEF ServeInv, InTraffic, Asleep, Settled, ServesCommitted, Serving

\* Every replica that serves requests on behalf of the manager serves exactly
\* the weights and the version committed last: during a transaction it sleeps
\* (_abort_and_sleep) until _commit_attempt, and calls of abandoned attempts
\* neither wake it up nor write to it afterwards.
THEOREM ServingAgrees == Spec => []ServesCommitted
BY ServingSettled, Serves, PTL

\* A step that commits finds nobody serving; any other step leaves the version
\* and adds at most one replica to those that serve.
LEMMA ServingChanges ==
  ASSUME TypeOK, AttemptFenced, ServeInv, Next
  PROVE  \/ Serving = {} /\ Serving' = {} /\ committed' > committed
         \/ /\ committed' = committed
            /\ \/ Serving' \subseteq Serving
               \/ \E r \in Replica \ Serving : Serving' = Serving \cup {r}
<1>t. /\ lb \subseteq Replica /\ Known \subseteq Replica
      /\ mode \in [Replica -> {"running", "paused", "asleep"}]
      /\ att.version \in Nat /\ committed \in Nat
  BY DEF TypeOK, ManagerTypeOK, ControlTypeOK, ClusterTypeOK, TxnTypeOK, Known, Version
<1>1. CASE Commit
  <2>1. /\ pc = "commit" /\ committed' = att.version
        /\ UNCHANGED <<active, pending, lb, mode>>
    BY <1>1 DEF Commit, cluster, control
  <2>2. \A r \in lb \cap Known : mode[r] = "asleep"
    BY <2>1 DEF ServeInv, TrafficIsMember, MembersSleep, Silent, Before, Asleep
  <2>3. Serving = {} /\ Serving' = {}
    BY <2>1, <2>2 DEF Serving, Known
  <2>4. committed < att.version
    BY <2>1 DEF ServeInv, Ahead, Before
  <2> QED BY <2>1, <2>3, <2>4, <1>t
<1>2. CASE Manager /\ ~Commit
  <2>1. committed' = committed /\ UNCHANGED <<lb, mode>> /\ Known' \subseteq Known
    BY <1>2
    DEF Manager, StartSync, CreateAttempt, Deadline, StageOk, StageFailed, StageFatal,
        StageStale, WakeDone, ResumeDone, PublishDone, Drop, cluster, control, manager,
        Known
  <2> QED BY <2>1 DEF Serving
<1>3. ASSUME NEW c \in calls, Remote(c)
      PROVE  /\ committed' = committed
             /\ \/ Serving' \subseteq Serving
                \/ \E r \in Replica \ Serving : Serving' = Serving \cup {r}
  <2>1. committed' = committed /\ lb' = lb /\ Known' = Known
    BY <1>3, RemoteEffect DEF remoteRest, manager, control, Known
  <2>2. \A r \in Replica : r # c.to => mode'[r] = mode[r]
    BY <1>3, ModeEffect
  <2>3. CASE c.to \in lb \cap Known
    <3>1. \A r : r # c.to => (r \in Serving' <=> r \in Serving)
      BY <2>1, <2>2, <1>t DEF Serving
    <3> QED BY <3>1, <2>1, <2>3, <1>t
  <2>4. CASE c.to \notin lb \cap Known
    BY <2>1, <2>2, <2>4, <1>t DEF Serving
  <2> QED BY <2>3, <2>4, <2>1
<1>4. ASSUME NEW r \in Replica, Control(r)
      PROVE  /\ committed' = committed
             /\ \/ Serving' \subseteq Serving
                \/ \E q \in Replica \ Serving : Serving' = Serving \cup {q}
  <2>1. CASE Promote(r)
    <3>1. /\ UNCHANGED <<active, pending, mode, committed>>
          /\ lb' \in {lb, lb \cup {r}}
      BY <2>1 DEF Promote, manager, cluster
    <3>2. Known' = Known
      BY <3>1 DEF Known
    <3>3. \A q : q # r => (q \in Serving' <=> q \in Serving)
      BY <3>1, <3>2 DEF Serving
    <3> QED BY <3>1, <3>3
  <2>2. CASE AddPendingReplica(r) \/ AddReplicas(r)
    <3>1. /\ UNCHANGED <<lb, mode, committed>> /\ Known' \subseteq Known \cup {r}
          /\ sup[r] = "absent"
      BY <2>2 DEF AddPendingReplica, AddReplicas, Known
    <3>2. r \notin lb
      BY <3>1 DEF ServeInv, Arrived
    <3> QED BY <3>1, <3>2 DEF Serving
  <2>3. CASE ~Promote(r) /\ ~AddPendingReplica(r) /\ ~AddReplicas(r)
    <3>1. /\ UNCHANGED <<mode, committed>> /\ lb' \subseteq lb /\ Known' \subseteq Known
      BY <1>4, <2>3
      DEF Control, Declare, ReportFailure, Isolate, OnReplicaDead, SuperviseReplica, Die,
          Drop, supRest, remoteRest, manager, control, cluster, Known
    <3> QED BY <3>1 DEF Serving
  <2> QED BY <2>1, <2>2, <2>3
<1> QED BY <1>1, <1>2, <1>3, <1>4 DEF Next

\* What serves shows the committed version, so it is a function of both.
LEMMA ShownIs == ServesCommitted => [r \in Serving |-> exposed[r]] = [r \in Serving |-> committed]
BY DEF ServesCommitted

\* A step of the transaction is one of the contract's, or none.
LEMMA StepContract ==
  ASSUME TypeOK, AttemptFenced, ServeInv, ServesCommitted, ServesCommitted', Next
  PROVE  Contract!Withdraw \/ Contract!CommitVersion \/ Contract!Serve
<1> DEFINE shown == [r \in Serving |-> exposed[r]]
<1>1. shown = [r \in Serving |-> committed] /\ DOMAIN shown = Serving
  BY ShownIs
<1>2. shown' = [r \in Serving' |-> committed']
  BY DEF ServesCommitted
<1>3. CASE Serving = {} /\ Serving' = {} /\ committed' > committed
  BY <1>1, <1>2, <1>3 DEF Contract!CommitVersion
<1>4. CASE committed' = committed /\ Serving' \subseteq Serving
  <2>1. shown' = [r \in Serving' |-> shown[r]]
    BY <1>1, <1>2, <1>4
  <2> QED BY <1>1, <1>4, <2>1 DEF Contract!Withdraw
<1>5. ASSUME committed' = committed, NEW r \in Replica \ Serving, Serving' = Serving \cup {r}
      PROVE  Contract!Serve
  <2>1. shown' = [q \in Serving \cup {r} |-> IF q = r THEN committed ELSE shown[q]]
    BY <1>1, <1>2, <1>5
  <2> QED BY <1>1, <1>5, <2>1 DEF Contract!Serve
<1> QED BY <1>3, <1>4, <1>5, ServingChanges

\* The transaction implements its contract: all that serve show one version,
\* and a new one is committed only while nobody serves the old one, whatever
\* replicas die, arrive or are retried.
THEOREM Implements == Spec => ImplementsContract
<1>1. Init => Contract!ContractInit
  <2> SUFFICES ASSUME Init PROVE Contract!ContractInit
    OBVIOUS
  <2>1. Serving \subseteq Replica /\ \A r \in Serving : exposed[r] = 0
    BY WeightSyncAssumption DEF Init, Serving
  <2>2. [r \in Serving |-> exposed[r]] = [r \in Serving |-> 0]
    BY <2>1
  <2> QED BY <2>1, <2>2 DEF Init, Contract!ContractInit
<1>2. UNCHANGED vars => UNCHANGED Contract!contract
  BY DEF vars, manager, cluster, control, Serving, Known, Contract!contract
<1>3. TypeOK /\ AttemptFenced /\ ServeInv /\ ServesCommitted /\ ServesCommitted' /\ [Next]_vars
        => [Contract!Withdraw \/ Contract!CommitVersion \/ Contract!Serve]_(Contract!contract)
  BY <1>2, StepContract
<1> QED BY <1>1, <1>3, TypeCorrect, Fenced, Serves, ServingAgrees, PTL
        DEF Spec, ImplementsContract, Contract!ContractSpec

-----------------------------------------------------------------------------
(***************************************************************************)
(* Members resume.                                                          *)
(***************************************************************************)

\* Membership epochs only grow, and what left the manager does not come back:
\* an attempt that is invalid stays invalid.
LEMMA StaysInvalid ==
  ASSUME TypeOK, ServeInv, ResumeInv, Next, pc \in PastCommit
  PROVE  att'.epoch = att.epoch /\ epoch' >= epoch /\ (Valid(att)' => att.epoch = epoch)
         /\ \A r \in att.members : r \in Known' => r \in Known
<1>0. /\ att \in AttemptType /\ epoch \in Nat /\ att.epoch \in Nat /\ att.epoch <= epoch
      /\ pc \notin {"idle", "create"}
  BY DEF TypeOK, TxnTypeOK, ManagerTypeOK, AttemptType, ResumeInv, PastCommit
<1>1. att'.epoch = att.epoch
  <2>1. CASE Manager
    <3>1. att' = att \/ \E S : att' = [att EXCEPT !.members = S]
      BY <2>1, <1>0
      DEF Manager, StartSync, CreateAttempt, Deadline, StageOk, StageFailed, StageFatal,
          StageStale, RetryWith, Commit, WakeDone, ResumeDone, PublishDone
    <3> QED BY <3>1, <1>0 DEF AttemptType
  <2>2. ASSUME NEW c \in calls, Remote(c) PROVE att' = att
    BY <2>2, RemoteEffect DEF remoteRest
  <2>3. ASSUME NEW r \in Replica, Control(r) PROVE att' = att
    BY <2>3
    DEF Control, Declare, ReportFailure, Isolate, OnReplicaDead, AddPendingReplica,
        SuperviseReplica, AddReplicas, Promote, Die, supRest, remoteRest, txn
  <2> QED BY <2>1, <2>2, <2>3 DEF Next
<1>2. epoch' = epoch \/ epoch' = epoch + 1
  <2>1. CASE Manager
    BY <2>1
    DEF Manager, StartSync, CreateAttempt, Deadline, StageOk, StageFailed, StageFatal,
        StageStale, Commit, WakeDone, ResumeDone, PublishDone, Drop, manager
  <2>2. ASSUME NEW c \in calls, Remote(c) PROVE epoch' = epoch
    BY <2>2, RemoteEffect DEF remoteRest, manager
  <2>3. ASSUME NEW r \in Replica, Control(r) PROVE epoch' = epoch \/ epoch' = epoch + 1
    BY <2>3
    DEF Control, Declare, ReportFailure, Isolate, OnReplicaDead, AddPendingReplica,
        SuperviseReplica, AddReplicas, Promote, Die, Drop, remoteRest, manager
  <2> QED BY <2>1, <2>2, <2>3 DEF Next
<1>3. Valid(att)' => att.epoch = epoch
  BY <1>0, <1>1, <1>2 DEF Valid
<1>4. \A r \in att.members : r \in Known' => r \in Known
  <2>1. CASE Manager
    BY <2>1
    DEF Manager, StartSync, CreateAttempt, Deadline, StageOk, StageFailed, StageFatal,
        StageStale, Commit, WakeDone, ResumeDone, PublishDone, Drop, manager, Known
  <2>2. ASSUME NEW c \in calls, Remote(c) PROVE Known' = Known
    BY <2>2, RemoteEffect DEF remoteRest, manager, Known
  <2>3. ASSUME NEW r \in Replica, Control(r) PROVE \A q \in att.members : q \in Known' => q \in Known
    <3>1. CASE AddPendingReplica(r) \/ AddReplicas(r)
      <4>1. Known' \subseteq Known \cup {r} /\ sup[r] = "absent"
        BY <3>1 DEF AddPendingReplica, AddReplicas, Known
      <4> QED BY <4>1 DEF ServeInv, Arrived
    <3>2. CASE ~AddPendingReplica(r) /\ ~AddReplicas(r)
      BY <2>3, <3>2
      DEF Control, Declare, ReportFailure, Isolate, OnReplicaDead, SuperviseReplica,
          Promote, Die, Drop, remoteRest, manager, Known
    <3> QED BY <3>1, <3>2
  <2> QED BY <2>1, <2>2, <2>3 DEF Next
<1> QED BY <1>0, <1>1, <1>2, <1>3, <1>4

LEMMA RemoteResume ==
  ASSUME TypeOK, AttemptFenced, ResumeInv, NEW c \in calls, Remote(c)
  PROVE  ResumeInv'
<1>1. /\ calls' \subseteq calls /\ UNCHANGED <<epoch, pc, att>> /\ Valid(att)' = Valid(att)
  BY RemoteEffect DEF remoteRest, manager, Known, Valid
<1>2. /\ att.members \subseteq Replica
      /\ mode \in [Replica -> {"running", "paused", "asleep"}]
      /\ \A d \in calls : d.id \in Nat /\ d.id <= att.id /\ att.id \in Nat
  BY DEF TypeOK, TxnTypeOK, ClusterTypeOK, CallType, AttemptFenced, NoLaterAttempt
<1>3. \A r, ops : CallsTo(r, ops)' \subseteq CallsTo(r, ops)
  BY <1>1 DEF CallsTo
<1>4. ASSUME pc = "WAKE_UP", NEW r \in att.members
      PROVE  /\ mode'[r] \in {"asleep", "paused"} /\ CallsTo(r, {"RESUME"})' = {}
             /\ Answered("WAKE_UP", r)' => mode'[r] = "paused" /\ CallsTo(r, Quieting)' = {}
  <2>0. /\ mode[r] \in {"asleep", "paused"} /\ CallsTo(r, {"RESUME"}) = {}
        /\ Answered("WAKE_UP", r) => mode[r] = "paused" /\ CallsTo(r, Quieting) = {}
    BY <1>4 DEF ResumeInv
  <2>1. ~(c.to = r /\ c.op = "RESUME")
    BY <2>0 DEF CallsTo
  <2>2. mode'[r] \in {"asleep", "paused"}
    BY <2>0, <2>1, <1>2, ModeEffect
  <2>3. CASE Answered("WAKE_UP", r)
    <3>1. ~(c.to = r /\ c.op \in Quieting)
      BY <2>0, <2>3 DEF CallsTo
    <3>2. mode'[r] = "paused"
      BY <2>0, <2>1, <2>3, <3>1, <1>2, ModeEffect DEF Quieting
    <3> QED BY <2>0, <2>2, <2>3, <3>2, <1>3
  <2>4. CASE c.to = r /\ c.id = att.id /\ c.op = "WAKE_UP" /\ ~CallError(c)
    <3>1. First(c) /\ mode'[r] = "paused"
      BY <2>0, <2>4, <1>2, ModeEffect DEF Waking, Quieting
    <3>2. ASSUME NEW d \in CallsTo(r, Quieting) PROVE FALSE
      <4>1. d \in calls /\ d.to = r /\ d.op \in Quieting
        BY DEF CallsTo
      <4>2. d.id = att.id /\ Rank(d.op) >= Rank("WAKE_UP")
        <5>1. d.id >= c.id /\ (d.id = c.id => Rank(d.op) >= Rank(c.op))
          BY <2>4, <3>1, <4>1, InOrder DEF Waking
        <5>2. d.id = att.id
          BY <5>1, <4>1, <2>4, <1>2
        <5> QED BY <5>1, <5>2, <2>4
      <4>3. Rank("ABORT_REQUESTS") = 2 /\ Rank("SLEEP") = 3 /\ Rank("WAKE_UP") = 11
        BY RankIs DEF StageOrder
      <4> QED BY <4>1, <4>2, <4>3 DEF Quieting
    <3>3. CallsTo(r, Quieting)' = {}
      BY <3>2, <1>3
    <3> QED BY <2>0, <2>2, <3>1, <3>3, <1>3
  <2> QED BY <2>0, <2>2, <2>3, <2>4, <1>2, <1>3, RemoteEffect
<1>5. ASSUME pc = "RESUME", Valid(att), NEW r \in att.members
      PROVE  /\ mode'[r] \in {"paused", "running"} /\ CallsTo(r, Quieting)' = {}
             /\ Answered("RESUME", r)' => mode'[r] = "running"
  <2>0. /\ mode[r] \in {"paused", "running"} /\ CallsTo(r, Quieting) = {}
        /\ Answered("RESUME", r) => mode[r] = "running"
    BY <1>5 DEF ResumeInv
  <2>1. ~(c.to = r /\ c.op \in Quieting)
    BY <2>0 DEF CallsTo
  <2>2. /\ mode'[r] \in {"paused", "running"}
        /\ mode[r] = "running" => mode'[r] = "running"
    BY <2>0, <2>1, <1>2, ModeEffect DEF Quieting
  <2>3. CASE c.to = r /\ c.op = "RESUME" /\ ~CallError(c)
    <3>1. mode'[r] = "running"
      BY <2>0, <2>3, <1>2, ModeEffect DEF Waking, Quieting
    <3> QED BY <2>0, <2>2, <3>1, <1>3
  <2> QED BY <2>0, <2>2, <2>3, <1>2, <1>3, RemoteEffect
<1> QED BY <1>1, <1>4, <1>5 DEF ResumeInv

LEMMA ControlResume ==
  ASSUME TypeOK, ServeInv, ResumeInv, NEW r \in Replica, Control(r)
  PROVE  ResumeInv'
<1>1. /\ calls' \subseteq calls /\ UNCHANGED <<mode, pc, att>>
      /\ pc # "PUBLISH" => UNCHANGED <<waiting, failed>>
  BY DEF Control, Declare, ReportFailure, Isolate, OnReplicaDead, AddPendingReplica,
         SuperviseReplica, AddReplicas, Promote, Die, supRest, remoteRest, txn, cluster
<1>2. \A q, ops : CallsTo(q, ops)' \subseteq CallsTo(q, ops)
  BY <1>1 DEF CallsTo
<1>3. epoch' = epoch \/ epoch' = epoch + 1
  BY DEF Control, Declare, ReportFailure, Isolate, OnReplicaDead, AddPendingReplica,
         SuperviseReplica, AddReplicas, Promote, Die, Drop, remoteRest, manager
<1>4. att.epoch <= epoch' /\ att.epoch \in Nat /\ epoch \in Nat
  BY <1>3 DEF ResumeInv, TypeOK, TxnTypeOK, ManagerTypeOK
<1>5. pc = "RESUME" /\ Valid(att)' => Valid(att)
  BY <1>1, StaysInvalid DEF Next, PastCommit, Valid
<1>6. \A q, s : s # "PUBLISH" => (Answered(s, q)' => Answered(s, q))
  BY <1>1 DEF Answered
<1> QED BY <1>1, <1>2, <1>4, <1>5, <1>6 DEF ResumeInv

LEMMA ManagerResume ==
  ASSUME TypeOK, ServeInv, ResumeInv, Manager
  PROVE  ResumeInv'
<1>t. /\ att \in AttemptType /\ att.epoch \in Nat /\ epoch \in Nat /\ att.epoch <= epoch
      /\ att.members \subseteq Replica
  BY DEF TypeOK, TxnTypeOK, ManagerTypeOK, AttemptType, ResumeInv
<1>1. UNCHANGED mode /\ (epoch' = epoch \/ epoch' = epoch + 1)
  BY DEF Manager, StartSync, CreateAttempt, Deadline, StageOk, StageFailed, StageFatal,
         StageStale, Commit, WakeDone, ResumeDone, PublishDone, Drop, manager, cluster
<1>2. CASE CreateAttempt
  <2>1. att'.epoch = epoch /\ epoch' = epoch /\ pc' \notin {"WAKE_UP", "RESUME"}
    BY <1>2 DEF CreateAttempt, Enter
  <2> QED BY <2>1, <1>t DEF ResumeInv
<1>3. CASE ~CreateAttempt
  <2>1. att'.epoch = att.epoch
    <3>1. att' = att \/ (\E S : att' = [att EXCEPT !.members = S])
          \/ (\E S : att' = [att EXCEPT !.version = @ + 1, !.members = S])
      BY <1>3
      DEF Manager, StartSync, Deadline, StageOk, StageFailed, StageFatal,
          StageStale, RetryWith, Commit, WakeDone, ResumeDone, PublishDone
    <3> QED BY <3>1, <1>t DEF AttemptType
  <2>2. att'.epoch <= epoch'
    BY <2>1, <1>1, <1>t
  <2>3. CASE Commit
    <3>1. /\ pc = "commit" /\ pc' = "WAKE_UP" /\ UNCHANGED att
          /\ waiting' = Participants("WAKE_UP", att)
          /\ calls' = calls \cup Sent("WAKE_UP", att, gen)
      BY <2>3 DEF Commit, Enter
    <3>2. \A r \in att.members : Asleep(r)
      BY <3>1 DEF ServeInv, MembersSleep, Silent
    <3>3. \A r \in att.members : mode[r] = "asleep" /\ CallsTo(r, {"RESUME"})' = {}
      BY <3>1, <3>2 DEF Asleep, CallsTo, Waking, Sent
    <3>4. \A r \in att.members : ~Answered("WAKE_UP", r)'
      BY <3>1 DEF Answered, Participants
    <3> QED BY <2>2, <3>1, <3>3, <3>4, <1>1 DEF ResumeInv
  <2>4. CASE WakeDone
    <3> DEFINE lost == IF Valid(att) THEN failed ELSE {}
               a == [att EXCEPT !.members = @ \ lost]
    <3>1. /\ pc = "WAKE_UP" /\ pc' = "RESUME" /\ att' = a /\ waiting' = a.members
          /\ waiting = {} \/ ~Valid(att)
          /\ calls' = calls \cup Sent("RESUME", a, gen) /\ UNCHANGED <<active, pending, epoch>>
      BY <2>4 DEF WakeDone, manager
    <3>2. a.members = att.members \ lost /\ a.epoch = att.epoch
      BY <1>t DEF AttemptType
    <3>3. Valid(att)' => Valid(att)
      <4>1. ~Valid(att) => a = att
        BY <1>t DEF AttemptType
      <4> QED BY <3>1, <4>1 DEF Valid, Known
    <3>4. ASSUME Valid(att)', NEW r \in a.members
          PROVE  /\ mode[r] \in {"paused", "running"} /\ CallsTo(r, Quieting)' = {}
                 /\ ~Answered("RESUME", r)'
      <4>1. Answered("WAKE_UP", r) /\ r \in att.members
        BY <3>1, <3>2, <3>3, <3>4 DEF Answered
      <4>2. mode[r] = "paused" /\ CallsTo(r, Quieting) = {}
        BY <4>1, <3>1 DEF ResumeInv
      <4> HIDE DEF a
      <4>3. CallsTo(r, Quieting)' = {}
        BY <4>2, <3>1 DEF CallsTo, Quieting, Sent
      <4>4. ~Answered("RESUME", r)'
        BY <3>1, <3>4 DEF Answered
      <4> QED BY <4>2, <4>3, <4>4
    <3> HIDE DEF a
    <3> QED BY <2>2, <3>1, <3>4, <1>1 DEF ResumeInv
  <2>5. CASE Deadline
    <3>1. /\ UNCHANGED <<pc, att, calls, active, pending, epoch>>
          /\ failed' = failed \cup (waiting \cap Replica) /\ waiting' = {}
      BY <2>5 DEF Deadline, manager
    <3>2. \A r \in att.members : \A s : Answered(s, r)' => Answered(s, r)
      BY <3>1, <1>t DEF Answered
    <3> QED BY <3>1, <3>2, <1>1 DEF ResumeInv, CallsTo, Valid, Known
  <2>6. CASE StartSync \/ StageOk \/ StageFailed \/ StageFatal \/ StageStale \/ ResumeDone
               \/ PublishDone
    <3>1. pc' \notin {"WAKE_UP", "RESUME"}
      <4>1. CASE StageOk
        <5>1. pc \in PreCommitNames
          BY <4>1, StageSets DEF StageOk
        <5> QED BY <4>1, <5>1, AfterIs DEF StageOk, Enter, PreCommitNames, StageNames
      <4>2. CASE StageFailed \/ StageFatal \/ StageStale
        BY <4>2 DEF StageFailed, StageFatal, StageStale, RetryWith
      <4> QED BY <2>6, <4>1, <4>2 DEF StartSync, ResumeDone, PublishDone
    <3> QED BY <2>2, <3>1 DEF ResumeInv
  <2> QED BY <1>3, <2>3, <2>4, <2>5, <2>6 DEF Manager
<1> QED BY <1>2, <1>3

\* A transaction that publishes with its membership intact has resumed every
\* member that did not fail (_wake_and_resume), whatever abort or sleep of an
\* abandoned attempt was still on its way to it.
THEOREM MembersResume == Spec => ResumedUnlessPruned
<1> DEFINE A == pc = "RESUME" /\ pc' = "PUBLISH" /\ Valid(att) =>
                  \A r \in att.members \ failed : mode[r] = "running"
<1>1. Init => ResumeInv
  BY DEF Init, ResumeInv
<1>2. TypeOK /\ ResumeInv /\ UNCHANGED vars => ResumeInv'
  BY DEF vars, manager, txn, cluster, ResumeInv, CallsTo, Answered, Valid, Known
<1>3. TypeOK /\ AttemptFenced /\ ServeInv /\ ResumeInv /\ [Next]_vars => ResumeInv'
  BY <1>2, RemoteResume, ControlResume, ManagerResume DEF Next
<1>4. ASSUME TypeOK, ResumeInv, Next, pc = "RESUME", pc' = "PUBLISH", Valid(att),
             NEW r \in att.members \ failed
      PROVE  mode[r] = "running"
  <2>1. pc' = pc \/ Manager
    <3>1. ASSUME NEW c \in calls, Remote(c) PROVE pc' = pc
      BY <1>4, <3>1, RemoteEffect DEF remoteRest
    <3>2. ASSUME NEW q \in Replica, Control(q) PROVE pc' = pc
      BY <3>2
      DEF Control, Declare, ReportFailure, Isolate, OnReplicaDead, AddPendingReplica,
          SuperviseReplica, AddReplicas, Promote, Die, supRest, remoteRest, txn
    <3> QED BY <1>4, <3>1, <3>2 DEF Next
  <2>2. ResumeDone
    BY <1>4, <2>1, StageSets
    DEF Manager, StartSync, CreateAttempt, Deadline, StageOk, StageFailed, StageFatal,
        StageStale, Commit, WakeDone, PublishDone, PreCommitNames, StageNames
  <2>3. waiting = {}
    BY <1>4, <2>2 DEF ResumeDone
  <2> QED BY <1>4, <2>3 DEF ResumeInv, Answered
<1>5. TypeOK /\ ResumeInv /\ [Next]_vars => [A]_vars
  BY <1>4
<1> QED BY TypeCorrect, Fenced, Serves, <1>1, <1>3, <1>5, PTL DEF Spec, ResumedUnlessPruned
=============================================================================
