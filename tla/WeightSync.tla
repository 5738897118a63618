------------------------------ MODULE WeightSync ------------------------------
(***************************************************************************)
(* The fault-tolerant weight synchronisation of rollout_elastic: the        *)
(* checkpoint-engine manager that pushes a trainer's weights to the rollout *)
(* replicas as a multi-stage transaction, the replicas and their            *)
(* communicator state, and the part of the Supervisor and load balancer     *)
(* that changes membership while a transaction runs.                        *)
(*                                                                          *)
(* A transaction (one update_weights call) makes attempts.  An attempt      *)
(* freezes its members and walks through the stages below; each stage sends *)
(* one remote call to every participant and waits, with a deadline, for all *)
(* of them.  A call whose stage was abandoned is not recalled: it stays in  *)
(* `calls' and may still execute.                                           *)
(***************************************************************************)
EXTENDS Integers, FiniteSets

CONSTANTS
  Replica,     \* ids of all rollout replicas, present and future
  Initial,     \* the replicas the job starts with
  ScaleOut,    \* replicas that arrive through the add_replicas API
  Trainer,     \* the training-side worker group
  Mortal,      \* bound: the replicas that may die
  Suspect,     \* bound: the replicas that may be declared dead while alive
  MaxRetries,  \* fault_tolerance.max_weight_sync_retries
  MaxVersion,  \* bound: number of update_weights transactions
  RebuildGroup \* the engine's rebuild_group option

ASSUME WeightSyncAssumption ==
  /\ Initial \subseteq Replica /\ Initial # {} /\ IsFiniteSet(Replica)
  /\ ScaleOut \subseteq Replica \ Initial
  /\ Mortal \subseteq Replica /\ Suspect \subseteq Replica
  /\ Trainer \notin Replica
  /\ MaxRetries \in Nat /\ MaxVersion \in Nat
  /\ RebuildGroup \in BOOLEAN

VARIABLES
  \* --- CheckpointEngineManager ---
  active,      \* self.replicas
  pending,     \* self._pending_replicas
  epoch,       \* self._membership_epoch
  dirty,       \* self.membership_changed
  gen,         \* self._reset_generation
  pc,          \* the stage the transaction is in, "idle" or "raised"
  att,         \* the current attempt: id, version, epoch, members
  retry,       \* retry_index
  needsReset,  \* needs_reset
  waiting,     \* participants of the stage that have not answered
  failed,      \* replicas that failed in the stage
  fatal,       \* participants whose failure is not retryable
  acked,       \* replicas whose promotion the Supervisor acknowledged
  \* --- replicas and trainer ---
  alive,       \* the replicas whose processes run
  mode,        \* "running", "paused" or "asleep"
  fence,       \* the server's (attempt, target) opened by begin_weight_sync
  exposed,     \* the server's global_steps
  loaded,      \* the version of the weights in the model, Torn while writing
  stream,      \* the attempt whose transfer the write fence is open for
  comm,        \* the communicator each engine holds: generation and members
  calls,       \* remote calls sent and not yet executed
  \* --- Supervisor and load balancer ---
  sup,         \* what the Supervisor thinks of a replica
  reported,    \* failures reported to the Supervisor, not yet handled
  lb,          \* the servers the load balancer routes to
  \* --- history ---
  committed    \* the version of the last committed transaction

manager  == <<active, pending, epoch, dirty, gen>>
txn      == <<pc, att, retry, needsReset, waiting, failed, fatal, acked>>
cluster  == <<alive, mode, fence, exposed, loaded, stream, comm>>
control  == <<sup, reported, lb>>
vars     == <<manager, txn, cluster, calls, control, committed>>

Participant == Replica \cup {Trainer}
Torn    == -1                      \* a model some buckets of which are written
NoGroup == {}                      \* an engine without a communicator

(***************************************************************************)
(* The stages of an attempt, in the order the manager runs them.            *)
(***************************************************************************)
StageOrder ==
  <<"RESET_GROUP", "ABORT_REQUESTS", "SLEEP", "PREPARE", "INIT_PROCESS_GROUP",
    "BEGIN", "TRANSFER", "FINALIZE", "EXPOSE", "VERIFY_VERSION",
    "WAKE_UP", "RESUME">>
Rank(s) == CHOOSE i \in 1..12 : StageOrder[i] = s
Stage == {StageOrder[i] : i \in 1..12}
PreCommit == {StageOrder[i] : i \in 1..10}
After(s) == StageOrder[Rank(s) + 1]

\* Stages run by the checkpoint-engine workers, trainer included; the other
\* stages go to the replicas' inference servers.
EngineStage ==
  {"RESET_GROUP", "PREPARE", "INIT_PROCESS_GROUP", "TRANSFER", "FINALIZE"}
\* Stages whose calls are coroutines of the manager's own loop: they start
\* only after the first validity check of the stage wait.
LocalStage == {"ABORT_REQUESTS", "SLEEP", "WAKE_UP", "RESUME"}

\* (The definitions whose names end in an underscore and a word are mutations
\* of the one that follows: each is a slip the code could contain, and breaks
\* a property.)  Here the manager forgets the trainer.
Participants_rollout(s, a) == a.members

\* The members of attempt a that run stage s.
Participants(s, a) == a.members \cup (IF s \in EngineStage THEN {Trainer} ELSE {})
Known == active \cup pending

\* _is_attempt_valid: no active member was removed, no member disappeared.
Valid(a) == a.epoch = epoch /\ a.members \subseteq Known

\* Ray delivers the calls one process makes to one actor in order.
SameActor(c, d) ==
  c.to = d.to /\ (c.op \in EngineStage) = (d.op \in EngineStage)
Earlier(c, d) == c.id < d.id \/ (c.id = d.id /\ Rank(c.op) < Rank(d.op))

-----------------------------------------------------------------------------
(***************************************************************************)
(* The manager's stages.                                                    *)
(***************************************************************************)

\* The calls that stage s of attempt a sends; a dead process receives none.
\* Calls of a local stage are not even started if the attempt is stale.
Sent(s, a, g) ==
  IF s \in LocalStage /\ ~Valid(a) THEN {}
  ELSE [op : {s}, to : Participants(s, a) \cap (alive \cup {Trainer}),
        id : {a.id}, version : {a.version}, members : {a.members}, gen : {g}]

\* Enter stage s of attempt a: send its calls and start to wait.
Enter(s, a, g) ==
  /\ pc' = s
  /\ waiting' = Participants(s, a)
  /\ failed' = {} /\ fatal' = {}
  /\ calls' = calls \cup Sent(s, a, g)

\* update_weights: snapshot the members; an empty snapshot is an error.
StartSync ==
  /\ pc = "idle" /\ att.version < MaxVersion
  /\ pc' = IF Known = {} THEN "raised" ELSE "create"
  /\ att' = [att EXCEPT !.version = @ + 1, !.members = Known]
  /\ needsReset' = (dirty \/ pending # {})
  /\ retry' = 0
  /\ UNCHANGED <<manager, waiting, failed, fatal, acked, cluster, calls,
                 control, committed>>

\* _create_attempt: a fresh id and the present epoch; the first stage is the
\* communicator reset if one is due.
CreateAttempt ==
  LET a == [id |-> att.id + 1, version |-> att.version, epoch |-> epoch,
            members |-> att.members] IN
  /\ pc = "create"
  /\ att' = a
  /\ gen' = IF needsReset THEN gen + 1 ELSE gen
  /\ Enter(IF needsReset THEN "RESET_GROUP" ELSE "ABORT_REQUESTS", a, gen')
  /\ UNCHANGED <<active, pending, epoch, dirty, retry, needsReset, acked,
                 cluster, control, committed>>

\* Mutations: the trainer is counted among the failed replicas; members that
\* timed out are not recorded as failed.
Deadline_everyone ==
  /\ pc \in Stage /\ waiting # {} /\ Valid(att)
  /\ failed' = failed \cup waiting
  /\ waiting' = {}
  /\ UNCHANGED <<manager, pc, att, retry, needsReset, fatal, acked, cluster,
                 calls, control, committed>>
Deadline_forgiving ==
  /\ pc \in Stage /\ waiting # {} /\ Valid(att)
  /\ waiting' = {}
  /\ UNCHANGED <<manager, pc, att, retry, needsReset, failed, fatal, acked,
                 cluster, calls, control, committed>>

\* The stage deadline: every member still awaited counts as timed out.  (A
\* call that failed with a transient error ends the same way, only earlier.)
Deadline ==
  /\ pc \in Stage /\ waiting # {} /\ Valid(att)
  /\ failed' = failed \cup (waiting \cap Replica)
  /\ fatal' = fatal \cup (waiting \cap {Trainer})
  /\ waiting' = {}
  /\ UNCHANGED <<manager, pc, att, retry, needsReset, acked, cluster, calls,
                 control, committed>>

\* Every member answered and the attempt is still valid: the next stage, or
\* the commit.  A completed reset clears the membership flag.
StageOk ==
  /\ pc \in PreCommit /\ waiting = {} /\ failed = {} /\ fatal = {} /\ Valid(att)
  /\ IF pc = "VERIFY_VERSION"
     THEN pc' = "commit" /\ UNCHANGED <<waiting, failed, fatal, calls>>
     ELSE Enter(After(pc), att, gen)
  /\ dirty' = (dirty /\ pc # "RESET_GROUP")
  /\ needsReset' = (needsReset /\ pc # "RESET_GROUP")
  /\ UNCHANGED <<active, pending, epoch, gen, att, retry, acked, cluster,
                 control, committed>>

\* Drop the replicas R from the manager; losing an active one dirties the
\* membership (remove_replicas, on_replica_dead, _handle_stage_failure).
Drop(R) ==
  /\ active' = active \ R
  /\ pending' = pending \ R
  /\ epoch' = IF R \cap active # {} THEN epoch + 1 ELSE epoch
  /\ dirty' = (dirty \/ R \cap active # {})

\* Mutation: a retry that keeps the communicator.
RetryWith_unreset(S) ==
  IF S = {} \/ retry >= MaxRetries
  THEN pc' = "raised" /\ UNCHANGED <<att, retry, needsReset>>
  ELSE /\ pc' = "create"
       /\ att' = [att EXCEPT !.members = S]
       /\ retry' = retry + 1
       /\ UNCHANGED needsReset

\* Retry the transaction with the members in S; with no one left, or when the
\* retries are spent, the exception reaches the training loop.
RetryWith(S) ==
  IF S = {} \/ retry >= MaxRetries
  THEN pc' = "raised" /\ UNCHANGED <<att, retry, needsReset>>
  ELSE /\ pc' = "create"
       /\ att' = [att EXCEPT !.members = S]
       /\ retry' = retry + 1
       /\ needsReset' = TRUE

\* A stage failed by its members.  Retryable: prune and report the failed
\* replicas and retry without them.
StageFailed ==
  /\ pc \in PreCommit /\ waiting = {} /\ Valid(att)
  /\ failed # {} /\ fatal = {}
  /\ RetryWith(att.members \ failed)
  /\ IF retry >= MaxRetries THEN UNCHANGED <<active, pending, epoch, dirty>>
                            ELSE Drop(failed)
  /\ reported' = IF pc' = "raised" THEN reported ELSE reported \cup failed
  /\ failed' = {}
  /\ UNCHANGED <<gen, waiting, fatal, acked, cluster, calls, sup, lb, committed>>

\* A trainer failure, or one that is not transient, is raised at once.
StageFatal ==
  /\ pc \in PreCommit /\ waiting = {} /\ Valid(att) /\ fatal # {}
  /\ pc' = "raised"
  /\ UNCHANGED <<manager, att, retry, needsReset, waiting, failed, fatal, acked,
                 cluster, calls, control, committed>>

\* Mutation: the commit does not handle a stale attempt.
StageStale_early ==
  /\ pc \in PreCommit /\ ~Valid(att)
  /\ RetryWith(att.members \cap Known)
  /\ waiting' = {} /\ failed' = {} /\ fatal' = {}
  /\ UNCHANGED <<manager, acked, cluster, calls, control, committed>>

\* A stage, or the commit, found the attempt invalid: whatever the members
\* answered is discarded and those still registered try again.
StageStale ==
  /\ pc \in PreCommit \cup {"commit"} /\ ~Valid(att)
  /\ RetryWith(att.members \cap Known)
  /\ waiting' = {} /\ failed' = {} /\ fatal' = {}
  /\ UNCHANGED <<manager, acked, cluster, calls, control, committed>>

\* Mutation: generation is resumed without the wake-up.
Commit_hasty ==
  /\ pc = "commit" /\ Valid(att)
  /\ dirty' = FALSE
  /\ committed' = att.version
  /\ Enter("RESUME", att, gen)
  /\ UNCHANGED <<active, pending, epoch, gen, att, retry, needsReset, acked,
                 cluster, control>>

\* _commit_attempt, then wake the members up.
Commit ==
  /\ pc = "commit" /\ Valid(att)
  /\ dirty' = FALSE
  /\ committed' = att.version
  /\ Enter("WAKE_UP", att, gen)
  /\ UNCHANGED <<active, pending, epoch, gen, att, retry, needsReset, acked,
                 cluster, control>>

\* The wake-up stage ends: the members that did not fail are resumed.  A stage
\* found invalid reports neither values nor failures, so every member counts
\* as awake.  Wake failures stay in `failed', outside the resumed members.
WakeDone ==
  LET lost == IF Valid(att) THEN failed ELSE {}
      a    == [att EXCEPT !.members = @ \ lost]
  IN /\ pc = "WAKE_UP" /\ (waiting = {} \/ ~Valid(att))
     /\ pc' = "RESUME"
     /\ att' = a
     /\ waiting' = a.members
     /\ failed' = lost /\ fatal' = fatal \cap lost
     /\ calls' = calls \cup Sent("RESUME", a, gen)
     /\ UNCHANGED <<manager, retry, needsReset, acked, cluster, control,
                    committed>>

\* The resume stage ends: failed members are reported and removed, then the
\* synchronised pending replicas are published one by one.
ResumeDone ==
  LET valid == Valid(att)
      lost  == IF valid THEN failed ELSE failed \ att.members
      worst == IF valid THEN fatal ELSE fatal \ att.members
  IN /\ pc = "RESUME" /\ (waiting = {} \/ ~valid)
     /\ failed' = {} /\ fatal' = {}
     /\ IF worst # {}
        THEN /\ pc' = "raised" /\ waiting' = {}
             /\ UNCHANGED <<active, pending, epoch, dirty, reported>>
        ELSE /\ Drop(lost)
             /\ reported' = reported \cup lost
             /\ pc' = IF lost # {} /\ Known \subseteq lost THEN "raised"
                                                           ELSE "PUBLISH"
             /\ waiting' = pending' \cap att.members
     /\ UNCHANGED <<gen, att, retry, needsReset, acked, cluster, calls, sup, lb,
                    committed>>

\* _publish_promoted_replicas: the replicas the Supervisor acknowledged, and
\* that are still pending, become active.
PublishDone ==
  /\ pc = "PUBLISH" /\ waiting = {}
  /\ active' = active \cup (pending \cap acked)
  /\ pending' = pending \ acked
  /\ acked' = {}
  /\ pc' = "idle"
  /\ UNCHANGED <<epoch, dirty, gen, att, retry, needsReset, waiting, failed,
                 fatal, cluster, calls, control, committed>>

-----------------------------------------------------------------------------
(***************************************************************************)
(* The remote side: one action per kind of call.                            *)
(***************************************************************************)

\* Call c is answered; the manager counts the answer only while it still
\* waits in the stage that sent the call.
Answer(c, ok, retryable) ==
  LET heard == c.id = att.id /\ c.op = pc /\ c.to \in waiting IN
  /\ calls' = calls \ {c}
  /\ waiting' = IF heard THEN waiting \ {c.to} ELSE waiting
  /\ failed' = IF heard /\ ~ok THEN failed \cup ({c.to} \cap Replica) ELSE failed
  /\ fatal' = IF heard /\ ~ok /\ ~retryable THEN fatal \cup {c.to} ELSE fatal
Done(c) == Answer(c, TRUE, TRUE)

\* A transfer that has opened the write fence no longer holds its actor's queue.
Started(c) == c.op = "TRANSFER" /\ c.id <= stream[c.to]
First(c) == \A d \in calls : (SameActor(c, d) /\ ~Started(d)) => ~Earlier(d, c)
Next1(c, op) == c.op = op /\ ~Started(c) /\ First(c)

remoteRest == <<manager, pc, att, retry, needsReset, acked, control, committed>>

\* force_destroy_nccl_group: monotone in the generation; no peer is involved.
ResetGroup(c) ==
  /\ Next1(c, "RESET_GROUP")
  /\ comm' = IF c.gen > comm[c.to].gen
             THEN [comm EXCEPT ![c.to] = [gen |-> c.gen, group |-> NoGroup]]
             ELSE comm
  /\ Done(c)
  /\ UNCHANGED <<alive, mode, fence, exposed, loaded, stream, remoteRest>>

\* abort_all_requests, sleep, wake_up and resume_generation of a server.
SetMode(c, op, from, to) ==
  /\ Next1(c, op)
  /\ mode' = [mode EXCEPT ![c.to] = IF @ \in from THEN to ELSE @]
  /\ Done(c)
  /\ UNCHANGED <<alive, fence, exposed, loaded, stream, comm, remoteRest>>
AbortRequests(c) == SetMode(c, "ABORT_REQUESTS", {"running"}, "paused")
Sleep(c)  == SetMode(c, "SLEEP", {"running", "paused"}, "asleep")
WakeUp(c) == SetMode(c, "WAKE_UP", {"asleep"}, "paused")
ResumeGeneration(c) == SetMode(c, "RESUME", {"paused"}, "running")

\* prepare: local buffers only.
Prepare(c) ==
  /\ Next1(c, "PREPARE") /\ Done(c)
  /\ UNCHANGED <<cluster, remoteRest>>

\* init_process_group.  An engine that keeps a communicator of another size
\* fails its assertion; the others meet in the group's rendezvous, which
\* completes only with every participant alive and of one generation.
InitGroup(c) ==
  LET kept(p)   == ~RebuildGroup /\ comm[p].group # NoGroup
      foreign(p) == kept(p) /\ comm[p].group # c.members
      peers      == c.members \cup {Trainer}
  IN /\ Next1(c, "INIT_PROCESS_GROUP")
     /\ \/ /\ foreign(c.to)
           /\ Answer(c, FALSE, FALSE)
           /\ UNCHANGED comm
        \/ /\ ~foreign(c.to)
           /\ kept(c.to) \/
                /\ c.members \subseteq alive
                /\ \A d \in calls : d.op = c.op /\ d.id = c.id => First(d)
                /\ \A p \in peers : ~foreign(p) /\ comm[p].gen = comm[c.to].gen
           /\ comm' = [comm EXCEPT ![c.to].group = c.members]
           /\ Done(c)
     /\ UNCHANGED <<alive, mode, fence, exposed, loaded, stream, remoteRest>>

\* begin_weight_sync: a server accepts no attempt older than the one it has.
BeginWeightSync(c) ==
  /\ Next1(c, "BEGIN")
  /\ IF c.id < fence[c.to].id
     THEN Answer(c, FALSE, TRUE) /\ UNCHANGED fence
     ELSE /\ fence' = [fence EXCEPT ![c.to] = [id |-> c.id, version |-> c.version]]
          /\ Done(c)
  /\ UNCHANGED <<alive, mode, exposed, loaded, stream, comm, remoteRest>>

\* update_weights starts at a participant: the write fence of its model opens
\* for the attempt (WeightSyncFence.begin) and buckets begin to arrive.
TransferStart(c) ==
  /\ Next1(c, "TRANSFER") /\ comm[c.to].group = c.members
  /\ stream' = [stream EXCEPT ![c.to] = c.id]
  /\ loaded' = IF c.to = Trainer THEN loaded ELSE [loaded EXCEPT ![c.to] = Torn]
  /\ UNCHANGED <<alive, mode, fence, exposed, comm, calls, waiting, failed,
                 fatal, remoteRest>>

\* Mutation: buckets are written whatever attempt the fence is open for.
TransferEnd_unfenced(c) ==
  /\ Started(c)
  /\ \A p \in c.members \cup {Trainer} : stream[p] >= c.id
  /\ Done(c)
  /\ loaded' = IF c.to # Trainer THEN [loaded EXCEPT ![c.to] = c.version]
                                ELSE loaded
  /\ UNCHANGED <<alive, mode, fence, exposed, stream, comm, remoteRest>>

\* The last bucket: once every participant has joined the broadcast, the write
\* is complete, unless a newer attempt opened the fence in between, in which
\* case the buckets were drained and the call fails as stale.
TransferEnd(c) ==
  /\ Started(c)
  /\ \A p \in c.members \cup {Trainer} : stream[p] >= c.id
  /\ Answer(c, stream[c.to] = c.id, FALSE)
  /\ loaded' = IF c.to # Trainer /\ stream[c.to] = c.id
               THEN [loaded EXCEPT ![c.to] = c.version] ELSE loaded
  /\ UNCHANGED <<alive, mode, fence, exposed, stream, comm, remoteRest>>

\* finalize: a call of an older generation is ignored; with rebuild_group the
\* communicator is destroyed after every transfer.
Finalize(c) ==
  /\ Next1(c, "FINALIZE")
  /\ comm' = IF c.gen >= comm[c.to].gen /\ RebuildGroup
             THEN [comm EXCEPT ![c.to].group = NoGroup] ELSE comm
  /\ Done(c)
  /\ UNCHANGED <<alive, mode, fence, exposed, loaded, stream, remoteRest>>

\* set_global_steps: refused unless the server's context is this attempt.
SetGlobalSteps(c) ==
  LET current == fence[c.to] = [id |-> c.id, version |-> c.version] IN
  /\ Next1(c, "EXPOSE")
  /\ exposed' = IF current THEN [exposed EXCEPT ![c.to] = c.version] ELSE exposed
  /\ Answer(c, current, FALSE)
  /\ UNCHANGED <<alive, mode, fence, loaded, stream, comm, remoteRest>>

\* get_global_steps: the manager treats another version as a failed member.
GetGlobalSteps(c) ==
  /\ Next1(c, "VERIFY_VERSION")
  /\ Answer(c, exposed[c.to] = c.version, TRUE)
  /\ UNCHANGED <<cluster, remoteRest>>

\* Any call may end in an error that is not transient.
CallError(c) ==
  /\ Answer(c, FALSE, FALSE)
  /\ UNCHANGED <<cluster, remoteRest>>

\* A replica's processes die; what was sent to them is lost.
Die(r) ==
  /\ r \in alive \cap Mortal
  /\ alive' = alive \ {r}
  /\ calls' = {c \in calls : c.to # r}
  /\ UNCHANGED <<mode, fence, exposed, loaded, stream, comm, waiting, failed,
                 fatal, remoteRest>>

-----------------------------------------------------------------------------
(***************************************************************************)
(* The Supervisor, the load balancer and the arrival of replicas.           *)
(***************************************************************************)
supRest == <<gen, txn, cluster, calls, committed>>
Handling == {r \in Replica : sup[r] = "isolated"}  \* holder of the admission lock

\* The heartbeat declares a dead replica, or, after enough missed probes, a
\* live one.
Declare(r) ==
  /\ sup[r] = "healthy" /\ (r \notin alive \/ r \in Suspect)
  /\ sup' = [sup EXCEPT ![r] = "declared"]
  /\ UNCHANGED <<active, pending, epoch, dirty, reported, lb, supRest>>

\* Mutation: a reported replica is not declared dead.
ReportFailure_ignored(r) ==
  /\ r \in reported
  /\ reported' = reported \ {r}
  /\ UNCHANGED <<active, pending, epoch, dirty, sup, lb, supRest>>

\* report_failure: an immediate death, unless the id is unknown or handled.
ReportFailure(r) ==
  /\ r \in reported
  /\ reported' = reported \ {r}
  /\ sup' = IF sup[r] = "healthy" THEN [sup EXCEPT ![r] = "declared"] ELSE sup
  /\ UNCHANGED <<active, pending, epoch, dirty, lb, supRest>>

\* on_dead, first step: the load balancer stops routing to the replica.
Isolate(r) ==
  /\ sup[r] = "declared" /\ Handling = {}
  /\ sup' = [sup EXCEPT ![r] = "isolated"]
  /\ lb' = lb \ {r}
  /\ UNCHANGED <<active, pending, epoch, dirty, reported, supRest>>

\* on_dead, second step: on_replica_dead of the manager.
OnReplicaDead(r) ==
  /\ sup[r] = "isolated"
  /\ sup' = [sup EXCEPT ![r] = "pruned"]
  /\ Drop({r})
  /\ UNCHANGED <<reported, lb, supRest>>

\* on_dead, third step: a replacement is spawned in the background; when it is
\* up, it is registered as pending ...
Spawned == {r \in Replica \ (Initial \cup ScaleOut) : sup[r] # "absent"}
AddPendingReplica(r) ==
  /\ r \notin Initial \cup ScaleOut /\ sup[r] = "absent"
  /\ Cardinality(Spawned) < Cardinality({d \in Replica : sup[d] = "pruned"})
  /\ alive' = alive \cup {r}
  /\ sup' = [sup EXCEPT ![r] = "unknown"]
  /\ pending' = pending \cup {r}
  /\ UNCHANGED <<active, epoch, dirty, gen, txn, mode, fence, exposed, loaded,
                 stream, comm, calls, reported, lb, committed>>

\* Mutation: a replacement is routed to as soon as it is up.
SuperviseReplica_routed(r) ==
  /\ r \in Spawned /\ sup[r] = "unknown"
  /\ sup' = [sup EXCEPT ![r] = "healthy"]
  /\ lb' = lb \cup {r}
  /\ UNCHANGED <<manager, supRest, reported>>

\* ... and then with the Supervisor.
SuperviseReplica(r) ==
  /\ r \in Spawned /\ sup[r] = "unknown"
  /\ sup' = [sup EXCEPT ![r] = "healthy"]
  /\ UNCHANGED <<manager, supRest, reported, lb>>

\* add_replicas: pending during a transaction, active at any other time.
AddReplicas(r) ==
  /\ r \in ScaleOut /\ sup[r] = "absent" /\ pc # "raised"
  /\ alive' = alive \cup {r}
  /\ sup' = [sup EXCEPT ![r] = "unknown"]
  /\ IF pc = "idle" THEN active' = active \cup {r} /\ UNCHANGED pending
                    ELSE pending' = pending \cup {r} /\ UNCHANGED active
  /\ UNCHANGED <<epoch, dirty, gen, txn, mode, fence, exposed, loaded,
                 stream, comm, calls, reported, lb, committed>>

\* promote_replica under the admission lock: a replica that is unknown or dead
\* is rejected.  Otherwise the load balancer admits it; the promotion is not
\* acknowledged if the replica is declared dead meanwhile, or if add_servers
\* raises, before or after it took effect.
Promote(r) ==
  /\ pc = "PUBLISH" /\ r \in waiting /\ Handling = {}
  /\ waiting' = waiting \ {r}
  /\ \/ sup[r] # "healthy" /\ UNCHANGED <<lb, acked, sup>>
     \/ /\ sup[r] = "healthy"
        /\ lb' = lb \cup {r} /\ acked' = acked \cup {r} /\ UNCHANGED sup
     \/ /\ sup[r] = "healthy" /\ (r \notin alive \/ r \in Suspect)
        /\ lb' = lb \cup {r} /\ sup' = [sup EXCEPT ![r] = "declared"]
        /\ UNCHANGED acked
     \/ sup[r] = "healthy" /\ lb' \in {lb, lb \cup {r}} /\ UNCHANGED <<acked, sup>>
  /\ UNCHANGED <<manager, pc, att, retry, needsReset, failed, fatal, cluster,
                 calls, reported, committed>>

-----------------------------------------------------------------------------
Init ==
  /\ active = Initial /\ pending = {} /\ epoch = 0 /\ dirty = FALSE /\ gen = 0
  /\ pc = "idle"
  /\ att = [id |-> 0, version |-> 0, epoch |-> 0, members |-> {}]
  /\ retry = 0 /\ needsReset = FALSE
  /\ waiting = {} /\ failed = {} /\ fatal = {} /\ acked = {}
  /\ alive = Initial
  /\ mode = [r \in Replica |-> "running"]
  /\ fence = [r \in Replica |-> [id |-> 0, version |-> 0]]
  /\ exposed = [r \in Replica |-> 0]
  /\ loaded = [r \in Replica |-> 0]
  /\ stream = [p \in Participant |-> 0]
  /\ comm = [p \in Participant |-> [gen |-> 0, group |-> NoGroup]]
  /\ calls = {}
  /\ sup = [r \in Replica |-> IF r \in Initial THEN "healthy" ELSE "absent"]
  /\ reported = {} /\ lb = Initial
  /\ committed = 0

Manager ==
  \/ StartSync \/ CreateAttempt \/ Deadline \/ StageOk \/ StageFailed
  \/ StageFatal \/ StageStale \/ Commit \/ WakeDone \/ ResumeDone \/ PublishDone
Remote(c) ==
  \/ ResetGroup(c) \/ AbortRequests(c) \/ Sleep(c) \/ Prepare(c) \/ InitGroup(c)
  \/ BeginWeightSync(c) \/ TransferStart(c) \/ TransferEnd(c) \/ Finalize(c)
  \/ SetGlobalSteps(c) \/ GetGlobalSteps(c) \/ WakeUp(c) \/ ResumeGeneration(c)
  \/ CallError(c)
Control(r) ==
  \/ Declare(r) \/ ReportFailure(r) \/ Isolate(r) \/ OnReplicaDead(r)
  \/ AddPendingReplica(r) \/ SuperviseReplica(r) \/ AddReplicas(r) \/ Promote(r)
  \/ Die(r)
Next ==
  \/ Manager
  \/ \E c \in calls : Remote(c)
  \/ \E r \in Replica : Control(r)
Spec == Init /\ [][Next]_vars

-----------------------------------------------------------------------------
(***************************************************************************)
(* What the program promises.                                               *)
(***************************************************************************)
Version == 0..MaxVersion
Phase == Stage \cup {"idle", "create", "commit", "PUBLISH", "raised"}

CallType ==
  [op : Stage, to : Participant, id : Nat, version : Version,
   members : SUBSET Replica, gen : Nat]

ManagerTypeOK ==
  /\ active \subseteq Replica /\ pending \subseteq Replica
  /\ epoch \in Nat /\ dirty \in BOOLEAN /\ gen \in Nat
TxnTypeOK ==
  /\ pc \in Phase
  /\ att \in [id : Nat, version : Version, epoch : Nat, members : SUBSET Replica]
  /\ retry \in 0..MaxRetries /\ needsReset \in BOOLEAN
  /\ waiting \subseteq Participant /\ failed \subseteq Replica
  /\ fatal \subseteq Participant /\ acked \subseteq Replica
ClusterTypeOK ==
  /\ alive \subseteq Replica
  /\ mode \in [Replica -> {"running", "paused", "asleep"}]
  /\ fence \in [Replica -> [id : Nat, version : Version]]
  /\ exposed \in [Replica -> Version]
  /\ loaded \in [Replica -> Version \cup {Torn}]
  /\ stream \in [Participant -> Nat]
  /\ comm \in [Participant -> [gen : Nat, group : SUBSET Replica]]
ControlTypeOK ==
  /\ sup \in [Replica -> {"absent", "unknown", "healthy", "declared", "isolated",
                          "pruned"}]
  /\ reported \subseteq Replica /\ lb \subseteq Replica
  /\ committed \in Version

\* The type of every variable; in particular a transaction never retries more
\* often than it may.
TypeOK ==
  /\ ManagerTypeOK /\ TxnTypeOK /\ ClusterTypeOK /\ ControlTypeOK
  /\ calls \subseteq CallType

\* The inductive reason for CommittedMembersAgree.  While an attempt runs, no
\* call and no fence is of a later attempt, and those of this attempt carry its
\* version; a member that has answered BEGIN, TRANSFER or EXPOSE keeps what it
\* answered for until the transaction is over, because the server's and the
\* model's fences turn every older call away.
Running == pc \in Stage \cup {"commit", "PUBLISH"}
PastExpose == {"VERIFY_VERSION", "commit", "WAKE_UP", "RESUME", "PUBLISH"}
PastTransfer == {"FINALIZE", "EXPOSE"} \cup PastExpose
PastBegin == {"TRANSFER"} \cup PastTransfer
Answered(s, r) == pc = s /\ r \notin waiting \cup failed

NoLaterAttempt ==
  /\ \A c \in calls : c.id <= att.id
  /\ \A r \in Replica : fence[r].id <= att.id /\ stream[r] <= att.id
  /\ Running =>
       /\ \A c \in calls : c.id = att.id => c.version = att.version
       /\ \A r \in Replica : fence[r].id = att.id => fence[r].version = att.version
MembersKeep ==
  \A r \in att.members :
    /\ pc \in PastBegin \/ Answered("BEGIN", r) =>
         fence[r].id = att.id
    /\ pc \in PastTransfer \/ Answered("TRANSFER", r) =>
         stream[r] = att.id /\ loaded[r] = att.version
    /\ pc \in PastExpose \/ Answered("EXPOSE", r) =>
         exposed[r] = att.version
AttemptFenced ==
  /\ NoLaterAttempt /\ MembersKeep
  /\ pc \in {"WAKE_UP", "RESUME", "PUBLISH"} => committed = att.version
  /\ pc = "PUBLISH" => waiting \subseteq att.members

\* Once a transaction has committed, each of its members holds the whole of
\* the committed weights and shows their version, whatever calls of older
\* attempts are still executing.
CommittedMembersAgree ==
  pc \in {"WAKE_UP", "RESUME", "PUBLISH"} =>
    /\ committed = att.version
    /\ \A r \in att.members :
         exposed[r] = committed /\ loaded[r] = committed /\ fence[r].id = att.id

\* A replica that serves requests on behalf of the manager, between and during
\* transactions, serves exactly the last committed version: never a model some
\* buckets of which are missing, never a version no transaction committed.
Serving == {r \in lb \cap Known : mode[r] = "running"}
ServesCommitted ==
  \A r \in Serving : loaded[r] = committed /\ exposed[r] = committed

\* No engine of an attempt enters a communicator rendezvous with a communicator
\* left from other members: a change of members is followed by a reset.  That
\* is so while the replicas are those of the start; a replacement that dies
\* before it is published, or a scale-out, changes the members without marking
\* the membership (see PrunedLeaveGroup and the README).
GroupFresh ==
  pc = "INIT_PROCESS_GROUP" /\ Valid(att) =>
    \A p \in att.members \cup {Trainer} :
      comm[p].group \in {NoGroup, att.members}

\* A replica that on_replica_dead has removed is in no communicator of the next
\* transaction: its removal marks the membership, so that the group is rebuilt
\* without it, as the docstring of its callers has it.  That fails for a
\* replacement that the transaction has synchronised and not published yet.
PrunedLeaveGroup ==
  pc = "INIT_PROCESS_GROUP" /\ Valid(att) =>
    \A p \in att.members \cup {Trainer} : \A r \in comm[p].group : sup[r] # "pruned"

\* While weights move, the trainer and every member hold one communicator of
\* one generation, built for exactly these members; calls of abandoned
\* attempts that arrive late do not take it from them.
OneCommunicator ==
  pc \in {"BEGIN", "TRANSFER"} /\ Valid(att) =>
    \A p \in att.members \cup {Trainer} :
      comm[p] = [gen |-> gen, group |-> att.members]

\* A replacement is routed to only with the committed weights: it is admitted
\* by the transaction that synchronised it, and not before.
AdmittedAfterCommit ==
  [][\A r \in lb' \ lb :
       pc = "PUBLISH" /\ r \in att.members /\ loaded[r] = committed]_vars

\* A transaction whose membership holds leaves the wake-up with every member
\* that did not fail generating again, even when another member failed to wake
\* or to resume.
ResumedUnlessPruned ==
  [][pc = "RESUME" /\ pc' = "PUBLISH" /\ Valid(att) =>
       \A r \in att.members \ failed : mode[r] = "running"]_vars

\* The same whatever happens to other members, as the docstring of
\* _wake_and_resume has it: a live member that stays registered is resumed.
HealthyMembersResumed ==
  pc = "idle" =>
    \A r \in att.members \cap Known \cap alive : mode[r] = "running"

\* Fairness: the manager's event loop and the stage deadlines, and the
\* Supervisor's consumer, keep running.  Remote calls need not.
Fairness ==
  /\ WF_vars(Manager)
  /\ \A r \in Replica :
       /\ WF_vars(Promote(r)) /\ WF_vars(ReportFailure(r))
       /\ WF_vars(Declare(r) /\ r \notin alive)
       /\ WF_vars(Isolate(r)) /\ WF_vars(OnReplicaDead(r))
FairSpec == Spec /\ Fairness

\* Every transaction ends, whatever members die, hang or answer late.
SyncTerminates == pc # "idle" ~> pc \in {"idle", "raised"}

\* A replica the manager gave up is isolated from traffic.
GivenUpIsIsolated ==
  \A r \in Initial : r \notin Known ~> (r \notin lb \/ pc = "raised")

\* The transaction implements the contract of SyncContract, for the replicas
\* the manager is responsible for.
Contract == INSTANCE SyncContract WITH shown <- [r \in Serving |-> exposed[r]]
ImplementsContract == Contract!ContractSpec
=============================================================================
