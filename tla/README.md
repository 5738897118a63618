# Formal models of the training recipes

TLA+ specifications, TLC configurations and TLAPS proofs for the parts of this
repository that have state of their own: the fault-tolerant rollout layer under
`src/rollout_elastic`, which keeps a reinforcement-learning job running while its
inference replicas die, are replaced and receive new weights; the older recovery
of rollout tokens under `src/fault_recover`; the multi-turn rollouts and the
resumable validation of `src/drkernel`; the way from returned rows to the batch of an
update, with drkernel's batch filter; and the DAPO training loops.  Paths below
are relative to the repository; `FT/` stands for
`src/rollout_elastic/workers/rollout/fault_tolerance/` and `patch/` for
`src/rollout_elastic/patch/`.

## 1. The system

| component | state it keeps | operations |
|---|---|---|
| `CheckpointEngineManager` (`patch/checkpoint.py`, `FT/weight_sync.py`) | active and pending replicas, membership epoch, `membership_changed`, reset generation, the running attempt | `update_weights` (a transaction of up to `max_weight_sync_retries + 1` attempts, each of 10 stages, then wake-up, resume and publication), `add_replicas`, `add_pending_replicas`, `remove_replicas`, `on_replica_dead` |
| replicas (`patch/vllm.py`, `patch/replica.py`) | serving mode, server context (attempt, target), `global_steps`, model weights with a write fence, communicator with a generation | reset, abort, sleep, prepare, init, begin, transfer, finalize, expose, version, wake, resume |
| load balancer (`FT/load_balancer.py`, actor in `patch/llm_server.py`) | servers, in-flight counters, dead set, sticky cache | acquire, release, mark_failed, add_servers, remove_servers, restart of the actor |
| clients (`patch/llm_server.py`, `FT/retry_client.py`) | the server held, retries, handle cache, request key | generate, retry after a fault, report, release |
| `Supervisor` (`FT/supervisor.py`, `FT/supervisor_thread.py`) | replicas, miss counters, dead set, pending deaths and wake-up queue, admission lock, spawn tasks | tick, record_ok/miss, report_failure, consumer, on_dead, promote_replica, add_replica, stop |
| wiring (`patch/experimental.py`) | references between the above | callbacks: death to manager, sync failure to Supervisor, spawn success to manager and Supervisor, promotion to balancer |
| progress store (`FT/progress/`) | queue of saves, pending counts, index of attempts, collection heap, directories on disk | save, load_latest, mark_superseded, the write loop, periodic_collect, sweep of leftovers, restart of the actor |
| token continuation (`patch/llm_server.py`, `FT/retry_client.py`, `patch/vllm.py`, `FT/progress/progress_checkpoint.py`) | the checkpoint of an attempt, tokens and version range of the answer, cached version | ask version, create_or_resume, call, version check, ingest and flush, join, retry |
| batches (`FT/batch.py`, `patch/experimental.py`, `src/drkernel/filters`) | rows of workers, queue of samples, samples collected, the batch | filter of partial batches, join with the prompts, padding, collection, filter of groups and rows |
| other utilities (`FT/aio.py`, `group_membership.py`) | none | bounded gathers |
| `src/fault_recover` | token queue, TokensDict actor with its saving thread and files, rebuild and reschedule counters, alarm | clear, try_load, update_datas, auto save, rebuild in a step, reschedule of the job |
| `src/drkernel` rollouts | phase, turns, mask and rewards of a trajectory | generate, submit, poll, feedback, turn rewards, TRLOO advantages |
| `src/drkernel` validation | accumulators, completed keys, the dump | resume, evaluate a chunk, append, finish |
| `src/dapo`, `src/dapo_predictor` | rows collected for a step, counters, policy, checkpoint, TransferQueue partitions | start, sample and filter, keep generating or give up, update, save, publish, next epoch |
| the other recipes | none of their own | launch scripts, configurations, patches of third-party code |

How they interact.  The trainer process runs the manager; its transaction sends
one Ray call per participant and stage and waits with a deadline.  A call that
was not answered in time is not recalled: it may run during a later attempt.
The Supervisor runs in a thread of the rollouter with a loop of its own: probes
and reports declare deaths, a serial consumer handles them (remove from the
balancer, prune in the manager, spawn a replacement).  A replacement becomes
pending in the manager, then known to the Supervisor; the next transaction
includes it, and after the commit the manager asks the Supervisor to promote it,
which adds it to the balancer under the same admission lock the consumer uses.
Clients talk to the balancer and the servers only, and learn of failures from
their own calls.  A server sends the tokens of a running request to the progress
store without waiting; before each attempt the client loads what has arrived and
sends the server it acquired the prefix, with the version it was prepared for.
The recipes are separate programs: each of their modules stands alone.

What is hard: calls of abandoned attempts that run late; membership that changes
between any two steps of a transaction; communicators that must be rebuilt for
exactly the current members; deaths that race admissions; marks, releases and
removals of several processes arriving at the balancer in any order; restart of
the balancer; and termination although anything remote may hang.  For the data: saves that
arrive late from attempts already given up, files renamed while a thread is in
them, prefixes sampled with weights that are being replaced, a rollout file that is
half copied when the job dies, a line of a dump cut in the middle, rewards assigned
to tokens by position.

What makes each component correct: all serving replicas hold the whole of the
last committed weights (manager and replicas); nothing removed is routed to and
no capacity leaks (balancer); a failed call moves to another server and ends
(clients); every death is handled once and for good, and admission does not undo
it (Supervisor); what a retry loads is one complete snapshot and never older than
what was there (store); an answer keeps its budget and reports exactly the versions
its tokens were sampled with (continuation); stored tokens are those the engines
hold, and a repeated step repeats its rollout (recovery); a reward is a measurement
of its own turn and credits the tokens of its turn (kernel rollouts); every prompt
is counted once (validation); an update learns from rows next to their own prompts, in
whole groups of the promised sizes (batches); an update sees whole groups of its own policy's
responses (DAPO).  PROJECT.json lists the hazards at their lines, each with the
properties that cover it.

## 2. Modules

| module | models |
|---|---|
| `SyncContract` | the abstract promise of weight synchronisation |
| `WeightSync` | manager, replicas, trainer group, and the part of Supervisor and balancer that changes membership during a transaction; refines `SyncContract` |
| `WeightSync_proofs` | nine TLAPS theorems about `WeightSync`, among them that it refines `SyncContract` |
| `RequestRouting` | balancer, clients, and the Supervisor's calls to the balancer |
| `RequestRouting_proofs` | TLAPS theorems about `RequestRouting` |
| `Supervisor` | Supervisor, its consumer, lock and tasks, with the balancer's queue and the manager's membership |
| `Supervisor_proofs` | TLAPS theorems about `Supervisor` |
| `ProgressStore` | the progress of one request on disk: streams, the store's event loop, its threads |
| `ProgressStore_proofs` | TLAPS theorems about `ProgressStore` |
| `TokenContinuation` | one request: client of either class, servers with changing weights, the store as its latest payload |
| `TokenContinuation_proofs` | TLAPS theorems about `TokenContinuation` |
| `TokenRecovery` | `fault_recover`: trainer, engines, token queue, TokensDict, files, restarts |
| `TokenRecovery_proofs` | TLAPS theorems about `TokenRecovery` |
| `KernelRollout` | a prompt group of `drkernel`: turns, evaluation calls, rewards, advantages |
| `KernelRollout_proofs` | TLAPS theorems about `KernelRollout` and about `BatchFilter`, and lemmas about sums |
| `ValidationResume` | `_validate_incremental` over crashes and resumes |
| `BatchFilter` | the operators of `PPOBatchFilter`: which rows one call may select |
| `BatchAssembly` | three trainers, from the rows of rollouts to the batch of an update; uses `BatchFilter` |
| `DynamicSampling` | the DAPO loops: base, predictor and TransferQueue |
| `DynamicSampling_proofs` | TLAPS theorems about `DynamicSampling` and about `ValidationResume`, and lemmas about retained, grouped and repeated rows |
| `Keeping` | the elements of a sequence at given positions, in order; used by `DynamicSampling` and `ValidationResume` |
| `MC...` | model values and small definitions for TLC, one per module |

Definitions whose names end in an underscore and a word are mutations: a
plausible slip in the definition that follows.  Each property of a passing run
is violated when one of them takes the place of the original.  Some properties are
conjunctions of parts that each have a name and a comment of their own
(`Durable == LiveOnDisk /\ OneSnapshot`); the tables name the parts.

### WeightSync

`pc` is the stage of the transaction; `StageOrder` is the sequence of stages in
`_execute_attempt`, preceded by the communicator reset and followed by the
post-commit stages.  `Enter` sends a stage's calls, `Deadline` is the end of
`wait_ray_stage` with members missing, and the four ways a stage can end are
`StageOk`, `StageFailed`, `StageFatal` and `StageStale` (its `attempt_valid`
check failed).  Each kind of remote call is one action of its receiver, which
executes it at any time while it is in `calls`, so late execution is the normal
case.  Decisions worth knowing:

- Calls of one caller to one actor run in order (Ray); a server and the engine
  worker of a replica are two actors.  A transfer that has begun does not block
  its actor's queue, because the engine's methods are asynchronous.
- `Deadline` also stands for a transient error of a call.  `CallError` is an
  error that is not transient.  A call sent to a dead process is not in `calls`.
- `TransferStart` and `TransferEnd` are the two ends of the stream of buckets;
  the model is `Torn` in between.  A transfer ends only when every participant
  has joined the broadcast.  If a newer attempt opened the model's fence, the
  buckets were drained and nothing was written.
- `InitGroup` completes as a rendezvous.  An engine that keeps a communicator of
  other members fails its assertion, as the engine in use does.
- `"raised"` is terminal: the exception leaves `update_weights` and ends the
  training loop.  Deadlock is therefore not checked in these runs.
- Ids are server addresses, and a replacement has a new one, so ids are not
  reused.  The balancer is reliable here; its failures are in the other modules.
- `Promote` covers the admission under the lock with its four outcomes:
  rejected, acknowledged, declared dead meanwhile, and raised.

### RequestRouting

`known`, `inflight`, `dead` and `sticky` are the fields of `_LoadBalancerCore`;
`Acquire`, `Release`, `MarkFailed`, `AddServers`, `RemoveServers` are its methods.
`sticky` is the LRU cache as a set of entries with an age each; `None`, no server, is
assumed not to be the address of one.
Each conversation has its own in-order channel `inbox` to the balancer, the
Supervisor has `control`.  The order in which Python's `min` breaks ties is left
open.  A release is sent and not awaited; a mark is awaited at most 3 s
(`MarkTimeout`), after which it is still executed; an acquisition has no timeout.
`Restart` is Ray's reconstruction of the actor: fields return to the constructor
arguments, unanswered calls are executed by the new incarnation.  When the restarts
are used up the balancer stays; its final loss, after which every call ends in an
error at its acquisition, is not modelled.  `Aborted` is the continuation of a
generation that a weight synchronisation aborted (`partial_rollout`).  `FullyAsync`
selects the client: the fully asynchronous one draws a new request id for every
retry and counts retries with `>=`, the other keeps its id and counts with `>`.
All conversations end, so deadlock is not checked.

### Supervisor

Tasks of one event loop interleave where they await, so an action is the code
between two awaits.  `tracker` is `HeartbeatTracker` with the pending deaths and
the number of wake-ups in the queue; `batch` is the consumer's snapshot;
`step` is the await in which `on_dead` is.  Calls to the balancer are executed
in order by `Execute`, later.  `RemovalDone` is the answer or the 10 s timeout:
on a timeout the call stays queued and will run.  With `CallsFail` the calls to
the balancer and the manager raise, with the call executed or not.  `Spawn` to
`AddReplica` are the replacement task and `on_spawn_success_fn`; `AskPromotion`
to `Publish` are `promote_replica` as the manager uses it.  History: `handled`
(on_dead was called), `lost` (its removal raised or was cancelled; the code only
logs that) and `early` (reported before `add_replica`).  `stop` cancels what does
not end in time.  The Supervisor may stop, so deadlock is not checked.

### ProgressStore

One recovery id.  A save is the pair of its stream (a generation on a server, an
abandoned one included) and its number of tokens; the token file and the manifest
of a directory each hold the save they come from, so a mixed snapshot is visible.
The actor's loop runs one task between two awaits: `LoopFree` says that nothing is
in the part of `_do_save` without an await, while the threads of the executor
(`StragglerWrites`, `RmEnter` to `RmDir`) run at any time.  `WriteShard` has the
three ends of a write (done, the directory was swept, `wait_for` gave up and the
thread runs on); `Swap`, `Replace` and `CleanOld` are the renames one at a time;
`Commit` is `_commit_revision`.  The collector takes what is due, deletes it in a
thread (entering a directory, emptying it and removing it are three steps: a rename
in between takes the thread along) and retries failed deletions.  `heap` holds the records of the attempts to collect, `gc.todo` those that
are due; `Picked` puts them in heap order.  History: `renewed`, the attempts that were committed
again while a record of an earlier commit was due.
External: what
POSIX does to a directory that is renamed or removed while a thread is in it.
`Load` and `ReadTokens` are `load_latest` with the following branches of
`create_or_resume`.

### TokenContinuation

A token is the version it was sampled with, and the store is the latest payload
that arrived.  `kind` is the client's class; where the two classes differ an action
has a disjunct for each.  `RetryLLMServerClient` takes its version from its cache
(`WeightsVersion`), loads and then acquires; `FullyAsyncLLMServerClient` acquires,
asks that server for its version (`AskVersion`) and loads.  `Start` is the version
check at the beginning of the server's `generate`; `Sample`, `SaveArrives` its loop
over outputs.  A synchronisation is `AbortAll` and `Resume`, per server.  A call that
timed out runs on and keeps saving.  The bound `Attempts` (a guard of `Send`) is on the
calls sent, so that calls have numbers; it is 5 in the runs and never reached there, so
it ends no request.  `Unavailable` is the common handling of
`ServerUnavailable`.  `StoreRestarts` loses the configuration of the actor: `init` is
called once, by the job's set-up.  External: the engine, which holds new requests
while it is paused and returns the tokens of an aborted one.

### TokenRecovery

A token is the life (a rebuild or a restart begins one) of the engines it was
sampled in.  `ClearWait`, `Wipe`, `UpdateIter`, `TryLoad` are the calls of
`init_index_prompt_tokens`, each of which waits for the actor; `clear` keeps the
actor's one thread until all requests are finished and saved, so `Update` waits.
`AutoSave` writes the tokens and, once all are finished, begins the copy to
`global_step_k.pt`, which is `Torn` until `AutoSaved`: a restart can find it so.
`Caught` counts as `catch_rollout_fault` does, `PreRebuild` and `Drained` are
`_pre_rebuild`, `Rebuild` the rest; `Reschedule` starts the job again with only the
disk.  The constant `CatchesUp` states an assumption: training a step takes longer
than the queue's backlog.  It is `TRUE` in the run and a
hypothesis of the theorems; see the remarks below.  `Flight` are the items on their way
to TokensDict (the item in hand, then the queue) in order, `Nth` counts those of one request.

### KernelRollout

`Generate` to `PollTimeout` are the state machine of `KernelAgentLoop` and one call
of `evaluate_kernel`, which submits a task under a fresh id and polls until the
client's timeout.  The mask keeps the number of the turn where the code has a one,
so that a property can tell to whom a token belongs; the trainer's operators
(`Starts` to `ComputeAdvantage`) only test it for zero.  `Redistribute`, `TurnReturn`
and `Advantage` are the redistribution of turn rewards and steps 1 to 5 of TRLOO;
advantages are multiplied by the number of other rows, which keeps them integers.
External: KernelGym, which runs a task late, fails it, or never answers.

### ValidationResume

One JSON line per row; only its key matters.  `TornAppend` leaves any prefix of an
append in the file, with the four ways it can end.  `Parsed` and `AfterTail` are
what the next append does to a line without its newline: it is glued to the next
record and both are lost.  `ColumnsAgree` is the length guard at the end.

### DynamicSampling

`loop` selects the trainer: `RayDAPOTrainer`, `PredictorRayDAPOTrainer`, or the one
on TransferQueue.  The three have the same steps, and an action names where they
differ (who sleeps the replicas, which cut is made, whether the epoch restarts).  A
row joins a prompt to the response at its position and remembers the policy that
generated it, so misaligned joins, cut groups and stale responses are visible.  A
policy is the sequence of sets of batches it learned from.  `SnakeSort` is
`snake_sort_indices`.  `Restart` is a crash, or a finished job launched again.
External: verl's checkpoints, which are atomic and keep weights, step and the
dataloader's position.  `critic_warmup` is 0.

The loops that keep some elements of a list, here the filter of groups and in
`ValidationResume` the prompts of a chunk, are `Retained` of `Keeping`: the n-th element
kept is the one at the position with n - 1 kept positions before it.  The library's
`SelectSeq` says the same by recursion over the sequence, about which the provers can show
nothing; `RetainedIsSelected`, an assumption that TLC evaluates in `sampling_steps`,
compares the two on every sequence of up to four of three values.

### BatchFilter and BatchAssembly

`BatchFilter` has no state.  A batch maps row numbers to a uid, a reward, a length
and whether the precision gates accept the row.  `Valid`, `LowVariance`, `OverLong`
and `Selectable` are stages 0 to 2 and the first pass of `filter_batch`,
`ChosenGroups` the choice among too many groups, `SelectSamples` is
`_select_samples`, `FilterOutcomes` the result.  What the code draws at random, and the order a
sort gives to equal keys, are sets of outcomes.  Rewards are integers; a tie of
`round` may go either way.

`BatchAssembly` follows a batch in three trainers, selected by `mode`.  In the
one-step trainer each agent loop worker answers with the rows that survived or with
an exception (`WorkerEnds`, `WorkerRaises`; `PartialBatch` is
`filter_partial_batch`); `GenNextBatch` is the manager's gathering and
`_async_gen_next_batch`; `PadAndTrain` is `pad_batch_to_size` with the update.  A row
is its position among the repeated prompts, so a row joined with another's prompt is
visible.  In the fully asynchronous trainers `PutSample` is the rollouter with its
staleness budget, `GetSample` one turn of `_get_samples_from_queue`,
`FilterAndTrain` the batch filter (drkernel) and the update, `UpdateWeights` the
synchronisation every `SyncEvery` updates.  External: the rollouter and the queue,
and verl's union of batches, which raises when both have a key with different
values; whether the rollout's rows carry their uids is the rollout's matter
(`carried`).

## 3. Runs

All bounds are constants of the modules and given in the cfg files.  For the
synchronisation two replicas and one replacement suffice for each hazard: one that
fails, one that survives and one that is admitted; three generations of attempts
(two transactions, or a retry and a further attempt) let calls of two older attempts
be late.  For the others the bounds are one more than the hazard needs: a third
attempt whose load meets saves of two older ones, a second turn and a second row for
a baseline, three crashes so that a torn line can be glued and torn again.  No run
uses symmetry.

| run | bounds | states | shows |
|---|---|---|---|
| `sync_versions` | 2 replicas, 1 mortal, 1 retry, 2 transactions, fair | 407 k | `TypeOK`, `AttemptFenced`, `CommittedMembersAgree`, `ServesCommitted`, `GroupFresh`; `SyncTerminates`, `GivenUpIsIsolated` |
| `sync_contract` | 1 replica that may die or be suspected + 1 replacement + 1 scale-out, 1 retry, 1 transaction | 720 k | `OneCommunicator`: while weights move all participants hold one communicator of one generation; `AdmittedAfterCommit`; `ResumedUnlessPruned`; refinement of `SyncContract` |
| `routing_calls` | 2 servers, one of them a replacement, 2 conversations of 2 turns, one per client class, 1 restart, 1 addition, 1 retry, cache of 1, fair | 1.3 M | `Balanced` (types; `CountsCovered`: no counter leaks), `RoutedFresh` (removed servers get no traffic, a retry changes server), `EveryCallEnds` |
| `supervisor_deaths` | 2 replicas + 1 replacement, threshold 2, calls may fail, stop, fair | 667 k | `NoLostDeath`, `HandledStaysOut`, `Managed` (types; `ActiveIsRouted`; `SupervisedIsManaged`), `HandledOnce`, `DeadLeavesTraffic` |
| `progress_collect` | 3 attempts, 1 save each, cap 2, 1 late write, 1 failed deletion, 1 swept directory, fair | 176 k | `Durable` (types; `PendingCounts`; `LatestIsIndexed`; `LiveOnDisk`; `OneSnapshot`), `NeverGoesBack`, `SupersededCollected` |
| `continuation_resume` | 2 servers, both classes, 3 policies, budget 2, 2 retries, 2 versions, 1 fault, fair | 1.7 M | `AnswerExact` (types; `BudgetKept`; `RangeIsExact`), `SurvivesSync`, `ExactPrefixIsCurrent`, `RequestEnds` |
| `recovery_steps` | 2 requests of 2 tokens, 2 steps, 1 rebuild, 1 reschedule, 2 faults, fair | 1.0 M | `TokensFollow` (types; `StoredFollowsEngine`; `OfThisStep`), `StepsRepeat` (`FinishedKept`, `SameRollout`), `TrainingEnds` |
| `kernel_turns` | 2 rows of 2 turns, response length 4, slack 1, feedback up to 2, 2 submissions, fair | 224 k | `RewardsMeasured` (types; `OwnKernelScored`; `OutlierMeasuredTwice`), `CreditIsOfTurns` (`TurnKeepsItsReward`, `CreditFollowsTurns`, `GroupsCancel`), `GroupIsTrained` |
| `validation_resume` | 3 chunks with a repeated prompt, 3 rollouts each, 3 crashes, fair | 14 k | `RowsComplete` (types; `CountedOnce`; `FinishedCoversAll`; `DumpKeepsUp`), `EvaluatesOnlyMissing`, `RunsFinish` |
| `sampling_steps` | 3 loops, generation batches of 3, training batches of 2, 2 responses, 2 ranks, 2 batches per epoch, 2 epochs, 3 steps, limit none or 2, 2 restarts, fair | 217 k | `BatchesWhole` (types; `RowsAligned`; `WholeGroups`; `OnPolicy`; `QueueDrained`; `GeneratesAwake`), `CheckpointsAgree` (`LearnsInOrder`, `CheckpointHoldsItsSteps`), `TrainingEnds` |
| `batch_rows` | 2 prompts of 4 rows, 2 workers, 2 ranks, threshold 50 %; 2 samples per update, slack 1, 5 samples; 4 kinds of rows, 4 configurations of the filter, fair | 90 k | `RowsSound` (types; `Aligned`; `EvenlyPadded`; `WholeGroups`; `FilterKeepsPromise`; `BothKindsKept`), `StepsEnd` |

Deadlock is checked in `validation_resume`, where a run can always be started again.
Elsewhere it is not: conversations, requests, trainings and the Supervisor end.

The run that ends in a violation is of a statement of the documentation that the code
does not keep:

| run | statement | what happens |
|---|---|---|
| `continuation_stale` | `RetryLLMServerClient` switches to a fresh server and regenerates, up to `max_retries` times | with token continuation on it sends the version it saw last, which only a completed call updates; after a synchronisation every server rejects it, each retry alike, and the request fails with all servers healthy |

### Seen while modelling

Behaviour that the modules have, or deliberately exclude, and that no run above
reports:

- *Scale-out.* `add_replicas` between two transactions does not set
  `membership_changed` (`patch/checkpoint.py:503`; DESIGN.md:76 says it rebuilds the
  group), so the next transaction keeps a communicator without the new member and
  fails in its rendezvous with the engine's assertion.  With `ScaleOut` non-empty and
  `MaxVersion` 2, `GroupFresh` is violated.
- *Pruned replacement.* `on_replica_dead` sets the flag only for an active replica
  (`patch/checkpoint.py:543`), while the docstring of the callback
  (`patch/experimental.py:1014`) says that the membership is marked dirty so that the next
  update rebuilds the group without the dead one.  A replacement stays pending until it is
  published, but it has joined the communicator of the transaction that synchronised it: when
  it dies between the commit and its publication, the next transaction begins without a
  reset and the others keep the communicator with it.  `PrunedLeaveGroup` in
  `WeightSync` states it and is violated with two replicas, one replacement, two
  transactions and no retries.
  For both reasons `GroupFresh` holds for the replicas of the start only, which is what
  `sync_versions` checks and `MeetsFresh` proves.
- *Resume.* `_wake_and_resume` means to resume healthy committed members even when
  another fails.  Any removal of an active member ends the wake and resume stages,
  before their calls have started if it came earlier; the transaction returns normally
  and a healthy member stays paused until the next one.  `HealthyMembersResumed` in
  `WeightSync` states it and is violated; `ResumedUnlessPruned` is what holds.
- *Balancer restart.* The actor is rebuilt from its constructor arguments
  (`patch/llm_server.py:915`): removals are forgotten.  `RoutedFresh` is stated for
  one life of the actor.
- *Retries.* The fully asynchronous client gives up at `retries >= max_retries`
  (`patch/llm_server.py:681`), one switch earlier than the other class and than
  `FT/types.py:62` says.
- *Store restart.* The progress actor may restart three times
  (`patch/llm_server.py:880`), without its configuration; every later call raises
  `RuntimeError`, which `is_transient_fault` does not accept, so each later request with
  progress on fails instead of degrading to a fresh attempt.  `SurvivesSync` and
  `HealthyRequestSucceeds` are stated for a store that lives.
- *Store.* After a deletion that failed halfway, `load_latest` can meet a slot whose
  latest attempt has left the index and raise `KeyError`.  The same happens without any
  failed deletion when a late save commits an attempt again while its record is due: the
  stale record then deletes it before its predecessors (it needs five streams, more than
  the run has; a first attempt at the proof led to it).
  `LatestIsIndexed` therefore excludes `rmFails` and `renewed`.  Also, a shard write that outlived
  its timeout can mix two saves of equal length; the sweep of `.tmp` and `.old` takes
  directories that are in use.  `OneSnapshot` and `LiveOnDisk` name these exceptions.
- *Recovery.* Without the chip check nobody clears the alarm of a rollout
  (`src/fault_recover/fault_manager.py:445`): it strikes in the training that follows
  and costs a restart (`AlarmFires`).  Without `CatchesUp`, `clear` can hold the actor
  for ever: it waits for tokens whose update waits for the actor.
- *Validation.* A resumed run that also evaluates a new chunk fails its length guard,
  because the column `"score"` is read back and not appended
  (`src/drkernel/trainer/drkernel_async_rollouter.py:621`); the third start succeeds.  A
  dump cut within a character makes every later resume raise.  Neither loses a row.
- *Partial batches, one step.* The surviving rows are joined with the prompts by
  position, and the prompts cut from the end (`patch/experimental.py:474`).  Unless the
  failed rows are the last ones, the union raises if the rows carry their uids, and the
  step's rows stand next to wrong prompts if they do not; the docstring at line 108 says
  that surviving samples are kept.  `Aligned` is stated for the other cases.  The
  manager also swallows every exception of a worker (line 215), while
  `FT/batch.py:52` says that programming errors must surface.  Groups that lack rows
  are trained on after padding, which the docstring at line 1036 calls a bias.
- *Partial batches, fully asynchronous.* A sample that lacks rows is dropped but has
  counted toward the rollouter's staleness.  With more of them between two
  synchronisations than the threshold leaves beyond an interval (with threshold 0: one),
  the trainer waits for samples and the rollouter for the trainer.  `PutSample` has
  the bound `faults < Slack`; without it `StepsEnd` fails.
- *Batch filter.* A group with more rows than the target counts as incomplete when
  complete ones are preferred (`src/drkernel/filters/unified_filter.py:450`), and groups that are over-long
  are rejected only under `remove_clip`, which the comment at line 72 does not say.
  With a target of one row, the strategies by efficiency always keep a negative one.
  The log says that short batches are skipped by the trainer; the trainer here trains
  on them, and on the whole batch when everything was rejected.  `BothKindsKept` and
  `FilterKeepsPromise` name these exceptions.
- *DAPO.* When the epochs are used up, the checkpoint after the loop is named after a
  step that was not trained (`src/dapo/dapo_ray_trainer.py:442`) and a started batch is
  dropped; a resumed run computes its epoch from the step after the increment; the
  TransferQueue loop starts its epochs at 0; with `critic_warmup` above 0 the replicas
  that were put to sleep stay asleep, since only the branch of the actor update wakes
  them (line 358).  `CheckpointHoldsItsSteps` is stated while no run has used up its
  epochs.
- `request_timeout_s` is documented as the outer budget of the retry chain of a prompt,
  and no code reads it; a replacement task that fails is not tried again.

## 4. Fairness

`WeightSync`: weak fairness of the manager's loop with its deadlines (every wait
has a timeout), of the Supervisor's consumer, of its heartbeat for replicas that
are dead, and of posted reports.  None for remote calls: they may hang for ever.
`RequestRouting`: weak fairness of the balancer's execution of what it received,
of the bounded waits and of the client's own steps; a call to a server returns or
times out (`_ft_call_timeout_s`), strongly fair because a weight synchronisation may
abort it again and again: each continuation starts from the tokens produced so far
and has a smaller budget left.  Removal, death and restart need not happen.
`Supervisor`: weak fairness of the loop's tasks and of the balancer; strong
fairness of `StartDeath`, since `asyncio.Lock` serves waiters in order and so a
stream of promotions does not starve the consumer.  The model's promotions wait
for the balancer without a timeout, as the code does, so `DeadLeavesTraffic`
depends on the balancer executing its calls.

`ProgressStore`: the loop serves its tasks and the threads run (weak); an attempt that
is due again and again is taken (strong, per attempt), since its time passes.
`TokenContinuation`: weak fairness of the client and of the servers together; faults,
timeouts and synchronisations need not happen.
`TokenRecovery`: strong fairness of the trainer and of the consumer, because the saver
holds the lock of TokensDict again and again but sleeps in between; weak for saver and
engines.
`KernelRollout`: weak fairness of the event loop and the trainer, whose waits all have
timeouts; none for KernelGym.
`ValidationResume`: weak fairness of the run and of `Resume`.  The second is an
assumption about the operator, who starts a stopped validation again.
`BatchAssembly`: weak fairness of the workers together (rows end or time out), of the
rollouter while its budget lasts, and of the trainer's coroutine; faults need not happen.
`DynamicSampling`: weak fairness of the loop; restarts need not happen.

## 5. Proofs

Eight modules hold 30 theorems and the lemmas they rest on.  Each is about every value of
the constants that the module's assumption admits, none depends on fairness, and each
inductive invariant was checked by TLC on the module's run (or a smaller instance) before it
was proved.  The proof of each invariant has one lemma per action, or per group of actions
that disturb the same conjuncts.

### WeightSync_proofs

For every set of replicas, every bound and every number of retries, from
`WeightSyncAssumption` (and, for `MeetsFresh`, one hypothesis).  There are four
invariants, each on top of the one before where it needs it:

- `TypeCorrect` (`TypeOK`), `Fenced` (`AttemptFenced`), `CommittedAgree`
  (`CommittedMembersAgree`) and `AdmittedCommitted` (`AdmittedAfterCommit`).
  `AttemptFenced` together with `TypeOK` is inductive.  It says that no call, server
  fence or write fence belongs to a later attempt than the current one, that those of the
  current attempt carry its version, and that a member that has answered BEGIN, TRANSFER
  or EXPOSE keeps what it answered for: its fence, its open stream with the whole weights,
  its version.  `CommittedMembersAgree` alone is not inductive: at the commit nothing
  would exclude that an old transfer still writes.  The argument does not use the order in
  which an actor executes its calls: the two fences alone suffice.
- `OneGroup` (`OneCommunicator`), by `CInv`: no participant or call is of a later
  generation than the manager's (`Generations`), a replica that was in no attempt has no communicator
  and no calls (`NewcomersUntouched`), the calls of the running attempt carry its members and generation
  with FINALIZE the last of an actor (`CallsOfAttempt`), when no reset is due, every
  participant is of the manager's generation or new and without a communicator
  (`OfGeneration`), and who has answered INIT_PROCESS_GROUP holds the attempt's communicator
  with no call left that would take it away (`Joined`).
- `MeetsFresh` (`GroupFresh`), by `GInv`, under `FixedReplicas` (no replacements and no
  scale-out; without it the statement is false, see *Scale-out* and *Pruned replacement* above): members
  only leave; a participant of the new generation during a reset has no communicator; in an
  attempt after a reset, or without one, every member can meet the others; between attempts
  a clear `membership_changed` means that the active replicas can meet.
- `ServingAgrees` (`ServesCommitted`) and `Implements` (the refinement of `SyncContract`:
  initial states map to initial states, each step to one of its steps or a stutter), by
  `ServeInv`: a replica in the traffic sleeps with no call on its way that wakes it, or has
  settled on the committed weights, which no call on its way changes (`InTraffic`); from the
  sleep stage to the commit the members sleep, since the attempt wakes nobody before it
  (`MembersSleep`, `NoEarlyWake`), and after it they have settled (`MembersSettled`); until
  the commit what is in the traffic is a member of the attempt (`TrafficIsMember`, `Arrived`);
  versions only grow (`Ahead`).  The contract's commit is the step that needs all of it.
  Unlike the fences, this argument and the two about communicators need the order in which an
  actor executes its calls (here as `InOrder`).
- `MembersResume` (`ResumedUnlessPruned`), by `ResumeInv`: after a commit whose
  membership still holds, a member that answered the wake-up is paused, one that answered
  the resume generates, and no call on its way puts it back to sleep.

### Supervisor_proofs

`DeathsAreTaken` (`NoLostDeath`), `RemovalsAreFinal` (`HandledStaysOut`),
`ComponentsAgree` (`Managed`), `DeathsAreHandledOnce` (`HandledOnce`), for every set of
replicas and any threshold.  `IInv` adds to `TypeOK` and `NoLostDeath`: no call is queued twice at the
balancer, an addition only while its promotion waits for it, a removal only for a handled
death (`Queue`); the lock is held by the death that is being handled or by the one promotion
whose addition is under way (`Locking`); a death goes from declared to pending to the
snapshot to handled, once (`Deaths`); a replacement task follows a handled death and brings
up a new replica, supervised only when the task adds it (`Replacements`); once a death was
handled no addition of the replica is under way, and it is routed to only until its removal
is executed (`StaysOut`); a promotion has its addition queued or executed (`Promoted`); and
the manager knows what it was told of, until it reports it (`Known`).  The properties alone
are not inductive: that no addition overtakes a removal rests on the lock and the order of the
balancer's queue together.

### RequestRouting_proofs

`CountersAgree` (`Balanced`) and `RoutingIsFresh` (`RoutedFresh`), for any number of
servers, conversations, restarts and retries and any cache size.  `Base` is the shape of
the state: the core's fields, an LRU cache within its size, clients, and mail boxes in
which messages follow the client's state.  `CountsCovered` compares a counter with the clients at the
server and the releases on their way, so most lemmas are about cardinalities of the messages
of a kind in the mail boxes.  `Lives` says what holds within one life of the actor: a removed
server is not routed to, a client's server is known, and a server a client has reported is
out of the routing or has the report on its way.

### ProgressStore_proofs

`Resumable` (`Durable`) and `SlotGoesForward` (`NeverGoesBack`), for any number of
attempts, saves, stalled writes, failed deletions and sweeps.  `IInv` relates the event
loop, its threads and the disk: what is live has its files or is being renamed
(`LiveFiles`); what the writer has written up to its step (`Written`); a directory's files
are of one save unless a named exception happened (`Snapshots`); a deletion
fails only if a save takes the directory away (`Deletion`); the `.tmp` of a save is not swept
while the collector deletes attempts (`TmpStays`); and the records are those of the eligible
attempts in the order of their numbers, and only the latest attempt is live (`Ordered`).  `Ordered` is what `LatestIsIndexed` needs, and its failure in
a first attempt is the remark on *Store* above.

### TokenContinuation_proofs

For every set of servers and every bound:

- `ExactPrefixCurrent` (`ExactPrefixIsCurrent`).  The invariant says what ties a
  prefix to weights along the way from one call to the next.  The tokens a call has
  sampled are of one version, because a synchronisation ends the running calls before
  the server's version changes, and calls that wait while it is paused have no tokens
  (`OneVersion`).  So a payload's range covers its tokens (`Covers`, kept by the join:
  `JoinedCovers`), and one that "exact" accepts, whose range is the requested version
  alone, holds nothing else (`LoadedFollows`).  The attempt and the call carry that
  version with the prefix (`CkptFollows`, `PrefixFollows`), and `Start` compares it with
  the server's.  It is needed although the property names only the last step: a server
  checks the version the checkpoint was prepared for, never its tokens.
- `AnswerIsExact` (`AnswerExact`): the range of every body on the way is exactly that of its
  tokens or unknown, and within the budget (`BodiesSound`, `CallSound`); a client that waits
  waits for the call that carries its checkpoint (`Waits`).
- `SyncIsSurvived` (`SurvivesSync`), by `SyncInv`: as long as nothing but synchronisations
  happens, each retry so far is paid for by a server that took new weights after its version
  was asked.  A server only moves forward from that version, so no synchronisation pays
  twice.

### TokenRecovery_proofs

`TokensAreFollowed` (`TokensFollow`) and `RolloutsAreRepeated` (`StepsRepeat`), under
`CatchesUp`: without it items of a step that are still in the queue reach TokensDict in the
next, which is a remark above and not a gap of the proof.  The invariant has the trainer's
control points (`Control`); that the n-th item of a request on its way is the token that
follows those stored, for every n (`Follows`, over `Flight`); that stored records
are of their step, no longer than a response and finished when that long (`Data`); that the
rollout of a step beyond which the trainer has gone is in its file, or in the copy that is
written (`Files`); and that a rollout repeated after a restart follows the one on disk until it is
finished (`Underway`).

### KernelRollout_proofs

For every group, any number of turns, tokens and submissions, and whatever KernelGym
answers:

- `MeasuredRewards` (`RewardsMeasured`).  `RInv` adds to the property that the mask fits
into the context (`Fits`), that a row under evaluation lacks exactly the reward of its
current turn and that a second evaluation means that the first found an anomaly (`Progress`),
and that scores are computed when all rows have ended (`Scored`).  `OneRow` reduces a step to
the row that takes it, given that KernelGym never takes a finding back; `EvaluatedKeeps` is
the rest of `_handle_evaluating`, which five actions share.
- `CreditedTurns` (`CreditIsOfTurns`: `TurnKeepsItsReward`, `CreditFollowsTurns`,
  `GroupsCancel`).  `KInv` adds to `RInv` the shape of a mask (`Masks`): each turn has one
  run, the runs are in order and apart, every run begins within the response length, and a
  row generates only into an empty mask or behind feedback, with room left.  The last part is
  the guard `RoomAfter`; with `<=` in its place a turn could begin at the response length and
  its run be cut away with its reward.  `Shape` of the cut mask makes the runs the turns
  (`SpansAreTurns`, a bijection from the starts of runs to the turns; `EndsOfTurns`), so
  the only score of a run is the reward of its turn (`TurnSums`).  Returns are then sums of
  rewards (`ReturnIs`), and with the members of a turn as a set `M`, each advantage is
  `Cardinality(M)` times the return less the sum of all returns (`AdvantageIs`), which sums to
  zero (`Cancel`).

The sums of any number of terms need induction over data.  The induction theorems of the
library take a predicate as parameter, which the provers here cannot instantiate.  `SetInduction`
states induction for a set of numbers in place of a predicate, and is proved without it: of a
number that is not in the set, the finite set of smaller ones that are not would map
injectively into a proper subset of itself.  From it follow induction over the subsets of a finite set
(`SubsetInduction`), that the recursion of `SumFunctionOnSet` has a solution and one value
(`SumExists`, `SumAgrees`), and the rules for sums (`SumAny` to `SumShift`).

### KernelRollout_proofs: the batch filter

The shares of `BatchFilter` need the facts about finite sets that the sums above need, so its
theorems are in the same module.  For every configuration that passes the filter's validation and every finite batch with
integer rewards:

- `SelectsGroupSize`: a selection from a group with too many rows has exactly the
  target size.  The code clamps the number of rows of either kind to those there are,
  so this needs that the clamp never bites: `ShareFits` shows by arithmetic that the
  rounded share `k` of `T` slots, from `p` positive and `n` negative rows with
  `T < p + n`, satisfies `k <= p` and `T - k <= n`; `CountsFit` adds the row kept for
  the minority.
- `FilterGuarantees`: the output guarantees in the docstring of `filter_batch`: at most
  the target number of groups, and groups between the minimal and the target size
  (`ChosenFew` for the choice of groups, `SelectionSize` for each group, and that groups
  of different uids are disjoint).

### DynamicSampling_proofs: the training loops

For any sizes of batches (`DynamicSamplingAssumption`: positive, a training batch no larger
than a generation batch), any number of responses, epochs, steps and restarts, and any rewards:

- `BatchesStayWhole` (`BatchesWhole`) and `CheckpointsStayTrue` (`CheckpointsAgree`).  The
  invariant `DapoInv` has the types (`DapoScalars`); how far the counters get (`DapoBounds`:
  a loop that still samples is below its limit); that a step clears what it put into the
  queue (`DapoQueue`); that a row collected was generated by the policy in training for its
  own prompt, from a batch this policy has not learned from (`DapoRows`); that the rows are
  whole groups, as many as `prompts` counts (`DapoGroups`); that policy and checkpoint
  learned from batches in order, none beyond their position in the stream (`DapoLearned`);
  and that steps and updates agree until a run has used up its epochs (`DapoCounted`).
  `BatchesWhole` alone is not inductive: it speaks of the update only, and says nothing of
  the rows that a rejected batch leaves for the next one.

`HasGroups(s, c, d)` is what every operation has to keep: `s` is `N` rows for each of `c`
different uids of the first `d` batches, in the order of those.  The snake of the predictor is a
permutation of the prompts, so the reordered batch has it; the filter keeps or drops a
group whole, so `Retained` at the positions of whole groups has it; uids carry their
batch, so a joined sequence has it for both lists together; and the cut at
`TrainBatch * N` rows falls between groups.  Positions are counted by `Rank`, and
`RanksNumber` shows that ranks number a finite set of positions from 1 to its
cardinality; this replaces the induction that `SelectSeq` would need.

### DynamicSampling_proofs: the validation

`RowsStayComplete` (`RowsComplete`) and `EvaluatesWhatIsMissing`
(`EvaluatesOnlyMissing`), for any dataset, number of rollouts and number of crashes
(`ValidationResumeAssumption`).  The two machines share no constant, variable or action, only
the lemmas about rows; so that one module can extend both, those of the validation are
called `ValInit`, `ValNext`, `ValSpec` and so on.  The invariant is `VInv`:

- `Counted`: in the dump, and in the rows of the run, no prompt has more rows than one pass
  over some chunk generates.  It is kept because a run generates only for keys that are not
  completed, so the rows of a chunk and those before it share no prompt.
- `Marked`: the completed keys are those of the rows, and contain the keys of the dump and of
  every chunk passed.
- `Paid`: the prompts that lack rows in the dump, with the one whose line has no newline
  yet (`Hanging`) and one more for any torn end, are at most two for each crash.  A crash in an
  append tears the rows of one prompt (`RepeatedWhole`: a cut falls within the rows of one
  prompt) and leaves an end to which the next append glues the first row of another; counting
  the second when the crash happens is what makes the bound inductive.
- `Saved`: the rows that the dump does not have are at most two, and none while its
  end is torn: the torn line and the line glued to it are lost by the one append
  that follows.

`Times(k, s)` counts the rows of a prompt; `TimesJoin`, `TimesCut`, `TimesEnds`,
`TimesRetained` and `TimesRepeated` say what joining, cutting, taking off an end,
retaining and repeating do to it, and `Written` what an append, whole or torn,
makes of the dump.

### Only model-checked

Liveness under fairness, which the proof system does not reach: `SyncTerminates`,
`GivenUpIsIsolated`, `EveryCallEnds`, `DeadLeavesTraffic`, `SupersededCollected`,
`RequestEnds`, `TrainingEnds`, `GroupIsTrained`, `RunsFinish` and `StepsEnd`.  `GroupFresh` beyond fixed replicas is false.

`RowsSound` of `BatchAssembly`.  Its batches pass through flattened lists of answers and
of samples of any length (`FlattenSeq`), the choice of the batch filter and a padding that sums
over rows, in three trainers; what the flattening returns needs the same kind of
groundwork as `Retained` did.  Its part about the filter rests on `FilterGuarantees`, which is proved;
the rest is checked over all reachable states of `batch_rows`.

## 6. Not modelled

- *Batches*: the bounded gathers (`FT/aio.py`), partitions of a list with unit tests; the
  log probabilities behind the precision gates; metrics.
- *Progress store*: `shutdown`, and the index rebuilt from disk: a process draws a
  fresh `run_id`, so it never finds its own past there.
- *Supervisor thread*: start and stop of the loop's thread.  A report made while it
  does not run is dropped; both trainers start it before the first transaction.
- *fault_recover*: the measurement of the chip probe, and tokens put into the queue by
  an engine that is being killed.  The log probabilities of a token follow it.
- *drkernel*: the extraction of kernels and
  the wording of feedback, metrics, the KernelGym overlay, and the Ray reward client:
  the agent loop has replaced it, and its submit and poll loop is that of
  `evaluate_kernel` except that it falls through to polling after its last 429.
- *Patch registration, placement, configuration*: sequential and without a protocol.
- *The other recipes* (a fifth of the Python lines, most of the shell): launch scripts,
  configurations, forks of third-party numeric code (attention, quantisation, FSDP
  fine-tuning) and reference logs.  They keep no state that outlives a call, so there
  is nothing for a model checker to interleave.  This bounds what share of the lines
  the modules can cover.

## 7. Plan

1. The proof left: `RowsSound` of `BatchAssembly`, whose part about the filter follows from
   `FilterGuarantees`; the lemmas about retained, joined and repeated rows carry over, those
   about flattened lists of answers are missing.
2. A composition of `Supervisor`, `WeightSync` and `RequestRouting` on an abstract
   service contract, in place of a run that it subsumes.
3. `ProgressStore` as the refinement of the store that `TokenContinuation` assumes (the
   latest payload), up to the exceptions named above.
