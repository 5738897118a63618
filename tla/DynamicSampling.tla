--------------------------- MODULE DynamicSampling ---------------------------
(***************************************************************************)
(* The DAPO training loops: RayDAPOTrainer, its subclass that orders the    *)
(* prompts by a predictor's scores, and the version on TransferQueue.       *)
(*                                                                          *)
(* A step draws generation batches from the dataloader, samples n responses *)
(* per prompt, drops the prompts whose rewards do not vary and goes on      *)
(* until train_batch_size prompts are left or max_num_gen_batches are       *)
(* spent; then it updates the policy, saves a checkpoint when one is due    *)
(* and sends the weights to the rollout replicas.  A process that dies is   *)
(* started again and resumes from the latest checkpoint.                    *)
(*                                                                          *)
(* verl's checkpoints are external: a save is atomic and keeps the weights, *)
(* the step and the position of the dataloader.  critic_warmup is 0.        *)
(***************************************************************************)
EXTENDS Integers, SequencesExt, Keeping

CONSTANTS
  Loops,         \* the training loops: "dapo", "predictor", "queue"
  GenBatch,      \* prompts of a generation batch, gen_batch_size
  TrainBatch,    \* train_batch_size
  N,             \* rollout.n
  Ranks,         \* data parallel ranks the predictor packs for
  Length,        \* batches of one pass over the dataloader
  Epochs,        \* total_epochs
  TotalSteps,    \* total_training_steps
  SaveFreq,      \* save_freq
  Limits,        \* values of max_num_gen_batches, 0 is no limit
  MaxRestarts    \* bound on the starts after the first

ASSUME DynamicSamplingAssumption ==
  /\ Loops \subseteq {"dapo", "predictor", "queue"}
  /\ {GenBatch, TrainBatch, N, Ranks, Length} \subseteq Nat \ {0}
  /\ {Epochs, TotalSteps, SaveFreq} \subseteq Nat \ {0}
  /\ TrainBatch <= GenBatch
  /\ Limits \subseteq Nat
  /\ MaxRestarts \in Nat

Prompt == 1..GenBatch

VARIABLES
  loop, filter, limit,  \* which loop runs, filter_groups.enable and its limit
  phase,      \* where the loop is, see Phases
  epoch,      \* the pass over the dataloader
  drawn,      \* batches of the stream drawn so far, and of this pass
  batch,      \* the rows collected for the step
  prompts,    \* num_prompt_in_batch
  gens,       \* num_gen_batches
  steps,      \* global_steps
  weights,    \* the trainer's policy: the batches it learned from, in order
  replicas,   \* the policy of the rollout replicas, and whether they are awake
  queue,      \* partitions in the TransferQueue, and those the step will clear
  saved,      \* the latest checkpoint
  starts, ended  \* starts after the first; runs that used up their epochs

vars == <<loop, filter, limit, phase, epoch, drawn, batch, prompts, gens,
          steps, weights, replicas, queue, saved, starts, ended>>

Phases == {"down", "sample", "decide", "save", "publish", "done", "raised"}

config == <<loop, filter, limit>>
past   == <<saved, starts, ended>>

\* A row joins a prompt of the dataset, known by its uid, to a response.
RowOf(b, p, q, w) == [uid |-> <<b, p>>, answers |-> <<b, q>>, policy |-> w]

Init ==
  /\ loop \in Loops
  /\ filter \in BOOLEAN
  /\ limit \in IF filter THEN Limits ELSE {0}
  /\ phase = "down"
  /\ epoch = 0
  /\ drawn = [all |-> 0, pass |-> 0]
  /\ batch = <<>>
  /\ prompts = 0 /\ gens = 0 /\ steps = 0
  /\ weights = <<>>
  /\ replicas = [policy |-> <<>>, awake |-> FALSE]
  /\ queue = [held |-> {}, clear |-> {}]
  /\ saved = [steps |-> 0, drawn |-> drawn, weights |-> <<>>]
  /\ starts = 0 /\ ended = 0
-----------------------------------------------------------------------------
(***************************************************************************)
(* Starting a run.                                                          *)
(***************************************************************************)
\* The epoch a run starts its count at.
Epoch0 == IF loop = "queue" THEN 0 ELSE (saved.steps + 1) \div Length

\* (Names that end in an underscore and a word are slips the code could
\* contain in the definition that follows.)
Start_fresh ==
  /\ phase = "down"
  /\ phase' = "sample"
  /\ steps' = saved.steps + 1
  /\ drawn' = [all |-> 0, pass |-> 0]
  /\ weights' = saved.weights
  /\ replicas' = [policy |-> saved.weights, awake |-> TRUE]
  /\ epoch' = Epoch0
  /\ batch' = <<>>
  /\ prompts' = 0 /\ gens' = 0
  /\ queue' = [held |-> {}, clear |-> {}]
  /\ UNCHANGED <<config, past>>

\* fit: _load_checkpoint, update_weights and the counters before the loop.
Start ==
  /\ phase = "down"
  /\ phase' = "sample"
  /\ steps' = saved.steps + 1
  /\ drawn' = saved.drawn
  /\ weights' = saved.weights
  /\ replicas' = [policy |-> saved.weights, awake |-> TRUE]
  /\ epoch' = Epoch0
  /\ batch' = <<>>
  /\ prompts' = 0 /\ gens' = 0
  /\ queue' = [held |-> {}, clear |-> {}]
  /\ UNCHANGED <<config, past>>
-----------------------------------------------------------------------------
(***************************************************************************)
(* Sampling.                                                                *)
(***************************************************************************)

\* snake_sort_indices, on prompts: sorted by descending score, dealt to the
\* ranks back and forth, and read rank by rank.
SortedPos(score, p) ==
  Cardinality({q \in Prompt : \/ score[q] > score[p]
                              \/ score[q] = score[p] /\ q < p})
RankOf(score, p) ==
  LET pos    == SortedPos(score, p)
      offset == pos % Ranks
  IN  IF (pos \div Ranks) % 2 = 0 THEN offset ELSE Ranks - 1 - offset
Place(score, p) ==
  Cardinality({q \in Prompt :
    \/ RankOf(score, q) < RankOf(score, p)
    \/ /\ RankOf(score, q) = RankOf(score, p)
       /\ SortedPos(score, q) <= SortedPos(score, p)})
SnakeSort(score) ==
  [i \in Prompt |-> CHOOSE p \in Prompt : Place(score, p) = i]

\* The prompt of row i when each prompt is repeated N times in place.
PromptAt(order, i) == order[((i - 1) \div N) + 1]

\* The order of the prompts in the generation, and that of the rows they are
\* joined with (_apply_predictor_order on both).
Order(score) == IF loop = "predictor" THEN SnakeSort(score)
                ELSE [i \in Prompt |-> i]
JoinOrder(score) == Order(score)

\* The rows of generation batch b, joined with their responses by position.
Generated(b, score) ==
  [i \in 1..(GenBatch * N) |->
     RowOf(b, PromptAt(JoinOrder(score), i), PromptAt(Order(score), i),
           replicas.policy)]

\* The partitions of a step in the TransferQueue: one per generation batch,
\* named by its number, and one with the batch of the update.
UpdatePart == -1
Listed == queue.clear \union {gens}

\* One batch of the dataloader is generated and rewarded; varied are the
\* prompts whose rewards differ.  The scores matter to the predictor only.
Sample(score, varied) ==
  LET b    == drawn.all + 1
      rows == Generated(b, score)
      kept == Retained(rows, {i \in DOMAIN rows : rows[i].uid[2] \in varied})
  IN  /\ phase = "sample"
      /\ epoch < Epochs
      /\ drawn.pass < Length
      /\ loop # "predictor" => score = [p \in Prompt |-> 0]
      /\ ~filter \/ N = 1 => varied = Prompt    \* a group of one is kept
      /\ drawn' = [all |-> b, pass |-> drawn.pass + 1]
      /\ gens' = gens + 1
      /\ queue' = IF loop = "queue"
                  THEN [held |-> queue.held \union {gens}, clear |-> Listed]
                  ELSE queue
      /\ \/ /\ filter
            /\ batch' = batch \o kept
            /\ prompts' = prompts + Cardinality(varied)
         \/ /\ ~filter
            /\ batch' = rows
            /\ UNCHANGED prompts
      /\ phase' = "decide"
      /\ UNCHANGED <<config, epoch, steps, weights, replicas, past>>

Short == filter /\ prompts < TrainBatch

\* Too few prompts are left: the next generation batch ...
KeepGenerating ==
  /\ phase = "decide"
  /\ Short
  /\ limit = 0 \/ gens < limit
  /\ phase' = "sample"
  /\ UNCHANGED <<config, epoch, drawn, batch, prompts, gens, steps, weights,
                 replicas, queue, past>>

GiveUp_beyond ==
  /\ phase = "decide"
  /\ Short
  /\ limit > 0 /\ gens > limit
  /\ phase' = "raised"
  /\ UNCHANGED <<config, epoch, drawn, batch, prompts, gens, steps, weights,
                 replicas, queue, past>>

\* ... or the ValueError.
GiveUp ==
  /\ phase = "decide"
  /\ Short
  /\ limit > 0 /\ gens >= limit
  /\ phase' = "raised"
  /\ UNCHANGED <<config, epoch, drawn, batch, prompts, gens, steps, weights,
                 replicas, queue, past>>

\* batch[:traj_bsz]; only the TransferQueue loop also cuts unfiltered batches.
Cut(rows) == IF filter \/ loop = "queue" THEN SubSeq(rows, 1, TrainBatch * N)
             ELSE rows
-----------------------------------------------------------------------------
(***************************************************************************)
(* Training.                                                                *)
(***************************************************************************)

\* The batch is aligned, the replicas are put to sleep, and the policy learns
\* from the batch.
Update ==
  /\ phase = "decide"
  /\ ~Short
  /\ batch' = Cut(batch)
  /\ weights' = Append(weights, {batch'[i].uid[1] : i \in DOMAIN batch'})
  /\ replicas' = IF loop = "queue" THEN replicas
                 ELSE [replicas EXCEPT !.awake = FALSE]
  /\ queue' = IF loop = "queue"
              THEN [queue EXCEPT !.held = @ \union {UpdatePart}] ELSE queue
  /\ phase' = "save"
  /\ UNCHANGED <<config, epoch, drawn, prompts, gens, steps, past>>

LastStep == steps >= TotalSteps
Due      == LastStep \/ steps % SaveFreq = 0
Snapshot == [steps |-> steps, drawn |-> drawn, weights |-> weights]

\* The checkpoint, if one is due or, not in the queue loop, the instance is
\* about to expire (should_save_ckpt_esi).
Save(expiring) ==
  /\ phase = "save"
  /\ loop = "queue" => ~expiring
  /\ saved' = IF Due \/ expiring THEN Snapshot ELSE saved
  /\ phase' = "publish"
  /\ UNCHANGED <<config, epoch, drawn, batch, prompts, gens, steps, weights,
                 replicas, queue, starts, ended>>

EndStep_keeping ==
  /\ phase = "publish"
  /\ replicas' = [policy |-> weights, awake |-> TRUE]
  /\ queue' = [held |-> queue.held \ (queue.clear \union {UpdatePart}),
               clear |-> {}]
  /\ prompts' = 0 /\ gens' = 0
  /\ phase' = IF LastStep THEN "done" ELSE "sample"
  /\ steps' = IF LastStep THEN steps ELSE steps + 1
  /\ UNCHANGED <<config, epoch, drawn, batch, weights, past>>

\* The rest of the step: the weights go to the replicas, the queue is cleared
\* and the counters are reset.
EndStep ==
  /\ phase = "publish"
  /\ replicas' = [policy |-> weights, awake |-> TRUE]
  /\ queue' = [held |-> queue.held \ (queue.clear \union {UpdatePart}),
               clear |-> {}]
  /\ batch' = <<>>
  /\ prompts' = 0 /\ gens' = 0
  /\ phase' = IF LastStep THEN "done" ELSE "sample"
  /\ steps' = IF LastStep THEN steps ELSE steps + 1
  /\ UNCHANGED <<config, epoch, drawn, weights, past>>
-----------------------------------------------------------------------------
\* The next pass over the dataloader.
NextEpoch ==
  /\ phase = "sample"
  /\ epoch < Epochs
  /\ drawn.pass = Length
  /\ epoch' = epoch + 1
  /\ drawn' = [drawn EXCEPT !.pass = 0]
  /\ UNCHANGED <<config, phase, batch, prompts, gens, steps, weights, replicas,
                 queue, past>>

\* The epochs are used up before the steps: what is collected is dropped, and
\* the step that has not been trained gives its number to a last checkpoint.
EndEpochs ==
  /\ phase = "sample"
  /\ epoch >= Epochs
  /\ saved' = IF saved.steps = steps THEN saved ELSE Snapshot
  /\ ended' = ended + 1
  /\ phase' = "done"
  /\ UNCHANGED <<config, epoch, drawn, batch, prompts, gens, steps, weights,
                 replicas, queue, starts>>

\* The process dies, or a finished job is launched again.
Restart ==
  /\ phase # "down"
  /\ starts < MaxRestarts
  /\ starts' = starts + 1
  /\ phase' = "down"
  /\ UNCHANGED <<config, epoch, drawn, batch, prompts, gens, steps, weights,
                 replicas, queue, saved, ended>>

Next ==
  \/ Start
  \/ \E score \in [Prompt -> {0, 1}], varied \in SUBSET Prompt :
       Sample(score, varied)
  \/ KeepGenerating
  \/ GiveUp
  \/ Update
  \/ \E expiring \in BOOLEAN : Save(expiring)
  \/ EndStep
  \/ NextEpoch
  \/ EndEpochs
  \/ Restart

Spec == Init /\ [][Next]_vars

\* The loop runs on; nothing has to die or be launched again.
Fairness == WF_vars(Next /\ starts' = starts)

FairSpec == Spec /\ Fairness
-----------------------------------------------------------------------------
(***************************************************************************)
(* Properties.                                                              *)
(***************************************************************************)

\* The type of every variable; a limit on the generation batches is kept.
TypeOK ==
  /\ loop \in Loops /\ filter \in BOOLEAN /\ limit \in Limits \union {0}
  /\ phase \in Phases
  /\ epoch \in Nat
  /\ drawn \in [all : Nat, pass : 0..Length]
  /\ \A i \in DOMAIN batch :
       /\ batch[i].uid \in (1..drawn.all) \X Prompt
       /\ batch[i].answers \in (1..drawn.all) \X Prompt
  /\ prompts \in Nat
  /\ gens \in Nat /\ (limit > 0 => gens <= limit)
  /\ steps \in 0..(TotalSteps + MaxRestarts)
  /\ replicas.awake \in BOOLEAN
  /\ queue.clear \subseteq Nat /\ queue.held \subseteq Nat \union {UpdatePart}
  /\ saved.steps \in 0..(TotalSteps + MaxRestarts)
  /\ starts \in 0..MaxRestarts /\ ended \in 0..(MaxRestarts + 1)

\* Every row joins a prompt with a response to that prompt, also when the
\* predictor has reordered the generation batch.
RowsAligned == \A i \in DOMAIN batch : batch[i].uid = batch[i].answers

\* What a step trains on is whole groups: n rows for each of its prompts, and
\* with the filter exactly train_batch_size prompts.  Cutting the collected
\* rows never leaves a group with fewer responses, whose advantages would be
\* estimated from a part of it.
WholeGroups ==
  phase = "save" =>
    /\ \A i \in DOMAIN batch :
         Cardinality({j \in DOMAIN batch : batch[j].uid = batch[i].uid}) = N
    /\ filter => Len(batch) = TrainBatch * N

\* A step learns from responses of the very policy it updates, however many
\* generation batches they were collected from.
OnPolicy ==
  phase = "save" =>
    \A i \in DOMAIN batch : batch[i].policy = Front(weights)

\* No batch of the stream is learned from in two steps of one policy, nor out
\* of order: a checkpoint's weights and its position in the stream agree.
LearnsInOrder ==
  \A i, j \in DOMAIN weights : i < j =>
    \A b \in weights[i], c \in weights[j] : b < c

\* As long as no run has used up its epochs, the checkpoint of step s holds
\* the policy after s steps.  (The checkpoint saved after the loop has the
\* number of a step that has not been trained.)
CheckpointHoldsItsSteps ==
  ended = 0 => saved.steps = Len(saved.weights)

\* Before a step's first generation batch the TransferQueue is empty: what a
\* step has put there is cleared, whatever number of batches it took.
QueueDrained == phase = "sample" /\ gens = 0 => queue.held = {}

\* Responses are generated by replicas that are awake.
GeneratesAwake == phase = "sample" => replicas.awake

\* What a step trains on: whole groups of its own responses.
BatchesWhole ==
  TypeOK /\ RowsAligned /\ WholeGroups /\ OnPolicy /\ QueueDrained /\ GeneratesAwake

\* A checkpoint's step, weights and position in the stream agree.
CheckpointsAgree == LearnsInOrder /\ CheckpointHoldsItsSteps

\* The training comes to its end or gives up, with or without a limit on the
\* generation batches, however often it is restarted.
TrainingEnds == []<>(phase \in {"done", "raised"})
=============================================================================
