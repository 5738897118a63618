---------------------------- MODULE BatchAssembly ----------------------------
(***************************************************************************)
(* From the rows that rollouts return to the batch an update learns from,   *)
(* for three trainers:                                                      *)
(*                                                                          *)
(*   "oneStep"     OneStepOffRayTrainer with fault tolerance: the prompts    *)
(*                 of a batch, each n times, are divided over agent loop     *)
(*                 workers; rows that fail are left out, the rest is joined  *)
(*                 with the prompts, cut, and padded to the full size;       *)
(*   "fullyAsync"  FullyAsyncTrainer with fault tolerance: samples, each the *)
(*                 n rows of a prompt, come through a queue, and samples     *)
(*                 with missing rows are dropped;                            *)
(*   "drkernel"    the trainer of drkernel: whole samples, filtered.         *)
(*                                                                          *)
(* The one-step trainer generates its next batch while it trains; the two   *)
(* batches share nothing that is modelled here, so they follow each other.  *)
(*                                                                          *)
(* External (verl): the union of two batches, the rollouter of the fully    *)
(* asynchronous trainers, which pauses while it is ahead of the weights by  *)
(* Budget samples and puts None at the end, and the message queue.          *)
(***************************************************************************)
EXTENDS BatchFilter, SequencesExt

CONSTANTS
  Modes,        \* the trainers
  P, N,         \* prompts of a batch (train_batch_size), rollout.n
  Workers,      \* number of agent loop workers
  Dp,           \* data parallel ranks of the actor
  MinOk,        \* min_ok_ratio, in percent
  Required,     \* required_samples of an update
  SyncEvery,    \* trigger_parameter_sync_step
  Slack,        \* samples the staleness threshold allows beyond an interval
  Kinds,        \* the kinds of rows a rollout of drkernel may be, a sequence
  Configs,      \* the filter's configurations
  Total,        \* samples or batches of the data
  None,         \* the message that ends the queue
  Raised, Pending  \* an exception in place of an answer, and no answer yet

ASSUME BatchAssemblyAssumption ==
  /\ Modes \subseteq {"oneStep", "fullyAsync", "drkernel"}
  /\ {P, N, Workers, Dp, Required, SyncEvery, Total} \subseteq Nat \ {0}
  /\ MinOk \in 1..100 /\ Slack \in Nat
  /\ (P * N) % Workers = 0 /\ (P * N) % Dp = 0
  /\ \A c \in Configs : FilterConfig(c)

VARIABLES
  mode,
  carried,     \* the rollout's rows carry the uid of their prompt (see Union)
  config,      \* the filter's configuration
  phase,       \* of the trainer, see Phases
  step,        \* updates of the policy
  answers,     \* oneStep: per worker, the positions it returned, or an exception
  queue,       \* fullyAsync, drkernel: the samples, as numbers of rows, and None
  produced,    \* samples and None put into the queue
  ahead,       \* samples put since the last synchronisation, staleness_samples
  collected,   \* the trainer's queue_samples
  faults,      \* rows that failed in this step; samples that lack rows since the sync
  batch,       \* the rows before the last selection or padding
  trained      \* how often each row of batch is in the update

vars == <<mode, carried, config, phase, step, answers, queue, produced, ahead,
          collected, faults, batch, trained>>

Phases == {"generate", "collect", "assembled", "trained", "done", "failed"}

Size      == P * N
PromptOf(i) == (i - 1) \div N + 1
Chunk(w)  == ((w - 1) * (Size \div Workers) + 1)..(w * (Size \div Workers))
Budget    == Required * SyncEvery + Slack
NoAnswers == [w \in 1..Workers |-> Pending]

Init ==
  /\ mode \in Modes
  /\ carried \in IF mode = "oneStep" THEN BOOLEAN ELSE {TRUE}
  /\ config \in IF mode = "drkernel" THEN Configs ELSE {CHOOSE c \in Configs : TRUE}
  /\ phase = IF mode = "oneStep" THEN "generate" ELSE "collect"
  /\ step = 0
  /\ answers = NoAnswers
  /\ queue = <<>>
  /\ produced = 0 /\ ahead = 0 /\ collected = <<>> /\ faults = 0
  /\ batch = <<>> /\ trained = <<>>

stream == <<queue, produced, ahead, collected>>
setting == <<mode, carried, config>>

-----------------------------------------------------------------------------
(***************************************************************************)
(* One step off policy.                                                     *)
(***************************************************************************)

\* filter_partial_batch: whether ok of n rows are enough.
Enough(ok, n) == 100 * ok >= MinOk * n

\* What a worker returns when its rows in bad failed with a fault.
PartialBatch(w, bad) ==
  LET ok == Chunk(w) \ bad
  IN  IF Enough(Cardinality(ok), Cardinality(Chunk(w))) THEN SetToSortSeq(ok, <)
      ELSE Raised

\* A worker answers: some of its rows may have failed with faults, or one with
\* another exception, which the worker raises.
WorkerEnds(w) ==
  /\ mode = "oneStep" /\ phase = "generate" /\ answers[w] = Pending
  /\ \E bad \in SUBSET Chunk(w) :
       /\ answers' = [answers EXCEPT ![w] = PartialBatch(w, bad)]
       /\ faults' = faults + Cardinality(bad)
  /\ UNCHANGED <<setting, phase, step, stream, batch, trained>>

\* An exception that is no fault, or the loss of the worker's process.
WorkerRaises(w) ==
  /\ mode = "oneStep" /\ phase = "generate" /\ answers[w] = Pending
  /\ answers' = [answers EXCEPT ![w] = Raised]
  /\ faults' = faults + Cardinality(Chunk(w))
  /\ UNCHANGED <<setting, phase, step, stream, batch, trained>>

\* The rows of the workers that did not raise, in the order of the workers.
Gathered ==
  FlattenSeq(SelectSeq([w \in 1..Workers |-> answers[w]], LAMBDA a : a # Raised))

\* The repeated prompts, cut to the number of rows, next to the rows.
Paired(rows) ==
  [i \in DOMAIN rows |-> [prompt |-> PromptOf(i), answer |-> rows[i]]]

Matches(pairs) ==
  \A i \in DOMAIN pairs : PromptOf(pairs[i].answer) = pairs[i].prompt

\* DataProto.union: a key that both batches have must have equal values.
UnionFails(pairs) == carried /\ ~Matches(pairs)

\* The rows that make the batch a multiple of the ranks.
Divisible(pairs) ==
  LET rem == Len(pairs) % Dp
  IN  IF rem # 0 /\ Len(pairs) > Dp THEN SubSeq(pairs, 1, Len(pairs) - rem)
      ELSE pairs

\* generate_sequences of the manager and the rest of _async_gen_next_batch.
GenNextBatch ==
  /\ mode = "oneStep" /\ phase = "generate"
  /\ \A w \in 1..Workers : answers[w] # Pending
  /\ LET pairs == Paired(Gathered)
     IN  IF Gathered = <<>> \/ UnionFails(pairs)
         THEN phase' = "failed" /\ UNCHANGED batch
         ELSE phase' = "assembled" /\ batch' = Divisible(pairs)
  /\ answers' = NoAnswers
  /\ UNCHANGED <<setting, step, stream, faults, trained>>

\* pad_batch_to_size repeats the batch and adds a part of it.  Which rows are
\* in that part depends on the order _balance_batch left them in, any order.
PadAndTrain ==
  /\ mode = "oneStep" /\ phase = "assembled"
  /\ \E more \in Subsets(DOMAIN batch, Size % Len(batch)) :
       trained' = [i \in DOMAIN batch |->
                     Size \div Len(batch) + IF i \in more THEN 1 ELSE 0]
  /\ step' = step + 1
  /\ phase' = "trained"
  /\ UNCHANGED <<setting, answers, stream, faults, batch>>

\* The next batch, or the last step was reached.
NextBatch ==
  /\ mode = "oneStep" /\ phase = "trained"
  /\ phase' = IF step = Total THEN "done" ELSE "generate"
  /\ batch' = <<>> /\ trained' = <<>> /\ faults' = 0
  /\ UNCHANGED <<setting, step, answers, stream>>

-----------------------------------------------------------------------------
(***************************************************************************)
(* The fully asynchronous trainers.                                         *)
(***************************************************************************)

\* The rollouter finishes a sample of which k rows survived.  The staleness
\* budget counts a sample whatever its rows.
PutSample(k) ==
  /\ mode # "oneStep"
  /\ produced < Total /\ ahead < Budget
  /\ k < N => mode = "fullyAsync" /\ Enough(k, N) /\ faults < Slack
  /\ queue' = Append(queue, k)
  /\ produced' = produced + 1
  /\ ahead' = ahead + 1
  /\ faults' = IF k < N THEN faults + 1 ELSE faults
  /\ UNCHANGED <<setting, phase, step, answers, collected, batch, trained>>

PutNone ==
  /\ mode # "oneStep" /\ produced = Total
  /\ queue' = Append(queue, None)
  /\ produced' = produced + 1
  /\ UNCHANGED <<setting, phase, step, answers, ahead, collected, faults, batch,
                 trained>>

\* The kinds of N rows.  The rows of one prompt are alike but for their kind, so
\* their order is taken to be that of the kinds.
Ordered == {f \in [1..N -> DOMAIN Kinds] : \A i \in 2..N : f[i - 1] <= f[i]}

\* The kinds of a sample's rows; only the filter tells rows apart.
KindsOf(size) ==
  IF mode = "drkernel" THEN {SubSeq(f, 1, size) : f \in Ordered}
  ELSE {[i \in 1..size |-> 1]}

\* The samples' rows in order: assemble_batch_from_rollout_samples.
Assembled(samples) ==
  FlattenSeq([s \in DOMAIN samples |->
    [i \in DOMAIN samples[s] |-> [uid |-> s] @@ Kinds[samples[s][i]]]])

\* Mutation: samples that lack rows are kept.
GetSample_keepsPartial ==
  /\ mode # "oneStep" /\ phase = "collect"
  /\ queue # <<>>
  /\ queue' = Tail(queue)
  /\ IF Head(queue) = None THEN phase' = "done" /\ UNCHANGED <<collected, batch>>
     ELSE /\ \E kinds \in KindsOf(Head(queue)) : collected' = Append(collected, kinds)
          /\ IF Len(collected') < Required THEN UNCHANGED <<phase, batch>>
             ELSE phase' = "assembled" /\ batch' = Assembled(collected')
  /\ UNCHANGED <<setting, step, answers, produced, ahead, faults, trained>>

\* Mutation: None is passed over like a sample that lacks rows.
GetSample_passesNone ==
  /\ mode # "oneStep" /\ phase = "collect"
  /\ queue # <<>>
  /\ queue' = Tail(queue)
  /\ IF Head(queue) # N THEN UNCHANGED <<phase, collected, batch>>
     ELSE /\ \E kinds \in KindsOf(N) : collected' = Append(collected, kinds)
          /\ IF Len(collected') < Required THEN UNCHANGED <<phase, batch>>
             ELSE phase' = "assembled" /\ batch' = Assembled(collected')
  /\ UNCHANGED <<setting, step, answers, produced, ahead, faults, trained>>

\* One turn of the loop of _get_samples_from_queue: the stream has ended, the
\* sample lacks rows, or it is kept; with enough of them the batch is assembled.
GetSample ==
  /\ mode # "oneStep" /\ phase = "collect"
  /\ queue # <<>>
  /\ queue' = Tail(queue)
  /\ \/ /\ Head(queue) = None
        /\ phase' = "done"
        /\ UNCHANGED <<collected, batch>>
     \/ /\ Head(queue) \notin {None, N}
        /\ UNCHANGED <<phase, collected, batch>>
     \/ /\ Head(queue) = N
        /\ \E kinds \in KindsOf(N) : collected' = Append(collected, kinds)
        /\ IF Len(collected') < Required THEN UNCHANGED <<phase, batch>>
           ELSE phase' = "assembled" /\ batch' = Assembled(collected')
  /\ UNCHANGED <<setting, step, answers, produced, ahead, faults, trained>>

\* fit_step: the filter of drkernel, if any, and the update.
FilterAndTrain ==
  /\ mode # "oneStep" /\ phase = "assembled"
  /\ phase' = "trained"
  /\ step' = step + 1
  /\ collected' = <<>>
  /\ UNCHANGED <<setting, answers, queue, produced, ahead, faults, batch>>
  /\ \E S \in IF mode = "drkernel" THEN FilterBatch(config, batch)
              ELSE {DOMAIN batch} :
       trained' = [i \in DOMAIN batch |-> IF i \in S THEN 1 ELSE 0]

\* After every SyncEvery updates the weights are sent and the samples still in
\* the queue are those the rollouter is ahead.
UpdateWeights ==
  /\ mode # "oneStep" /\ phase = "trained"
  /\ IF step % SyncEvery = 0
     THEN /\ ahead' = Cardinality({i \in DOMAIN queue : queue[i] # None})
          /\ faults' = Cardinality({i \in DOMAIN queue : queue[i] \notin {None, N}})
     ELSE UNCHANGED <<ahead, faults>>
  /\ batch' = <<>> /\ trained' = <<>>
  /\ phase' = "collect"
  /\ UNCHANGED <<setting, step, answers, queue, produced, collected>>

-----------------------------------------------------------------------------

Generation == \E w \in 1..Workers : WorkerEnds(w) \/ WorkerRaises(w)
Production == (\E k \in 1..N : PutSample(k)) \/ PutNone
Trainer    == GenNextBatch \/ PadAndTrain \/ NextBatch \/ GetSample
                \/ FilterAndTrain \/ UpdateWeights

Next == Generation \/ Production \/ Trainer

Spec == Init /\ [][Next]_vars

\* Rows end or time out, the rollouter goes on while its budget lasts, and the
\* trainer's coroutine runs.
FairSpec == Spec /\ WF_vars(Generation) /\ WF_vars(Production) /\ WF_vars(Trainer)
-----------------------------------------------------------------------------
(***************************************************************************)
(* Properties.                                                              *)
(***************************************************************************)

Pair == [prompt : 1..P, answer : 1..Size]

\* The types of the variables.
TypeOK ==
  /\ mode \in Modes /\ carried \in BOOLEAN /\ config \in Configs
  /\ phase \in Phases /\ {step, produced, ahead, faults} \subseteq Nat
  /\ \A w \in 1..Workers : answers[w] \in {Pending, Raised} \cup Seq(Chunk(w))
  /\ queue \in Seq((1..N) \cup {None}) /\ collected \in Seq(Seq(DOMAIN Kinds))
  /\ IF mode = "oneStep" THEN batch \in Seq(Pair)
     ELSE \A i \in DOMAIN batch : batch[i].uid \in 1..Required
  /\ trained # <<>> => DOMAIN trained = DOMAIN batch

Selected == {i \in DOMAIN trained : trained[i] > 0}

\* A row is trained with the prompt it answers, when no row failed or when the
\* rows carry the uids that the union compares.
Aligned ==
  mode = "oneStep" /\ (carried \/ faults = 0) => Matches(batch)

\* Whatever failed, a step of the one-step trainer learns from as many rows as
\* it asked for, and from each surviving row as often as from any other, or
\* once more.
EvenlyPadded ==
  mode = "oneStep" /\ phase = "trained" =>
    /\ FoldFunction(+, 0, trained) = Size
    /\ \A i, j \in DOMAIN trained : trained[i] <= trained[j] + 1
    /\ \A i, j \in DOMAIN batch : batch[i].answer = batch[j].answer => i = j

\* The fully asynchronous trainers assemble whole groups, as many as required.
WholeGroups ==
  mode # "oneStep" /\ batch # <<>> =>
    /\ Uids(batch) = 1..Required
    /\ \A u \in 1..Required : Cardinality(Group(batch, u)) = N

\* What the filter's documentation guarantees of its output holds for what is
\* trained, unless the filter rejected everything.
FilterKeepsPromise ==
  mode = "drkernel" /\ phase = "trained" =>
    Selected = DOMAIN batch \/ Guaranteed(config, batch, Selected)

\* Rows that are cut from a group of successes and failures leave some of
\* both, unless one row is kept or rows are drawn without regard to reward.
BothKindsKept ==
  mode = "drkernel" /\ phase = "trained" /\ Selected # DOMAIN batch
    /\ config.strategy # "uniform" /\ config.groupSize > 1 =>
    \A u \in {batch[i].uid : i \in Selected} :
      LET all  == Remaining(config, batch, u)
          kept == Group(batch, u) \cap Selected
      IN  /\ Positive(batch, all) # {} => Positive(batch, kept) # {}
          /\ Negative(batch, all) # {} => Negative(batch, kept) # {}

\* What an update learns from, whichever rows failed or were rejected.
RowsSound ==
  /\ TypeOK /\ Aligned /\ EvenlyPadded /\ WholeGroups
  /\ FilterKeepsPromise /\ BothKindsKept

\* Training ends: rows that fail, samples that are dropped and a stream that
\* ends in the middle of a batch do not leave the trainer waiting.
StepsEnd == <>[](phase \in {"done", "failed"})

=============================================================================
