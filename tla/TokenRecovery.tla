----------------------------- MODULE TokenRecovery -----------------------------
(***************************************************************************)
(* Rollout recovery of fault_recover: the trainer's steps, the requests of  *)
(* a rollout on the engines, the queue on which engines push the tokens     *)
(* they sample, the task that moves them to the TokensDict actor, its       *)
(* thread that saves them to disk, the rebuild of the worker group inside a *)
(* step, and the restart of the whole job from the model checkpoint.        *)
(*                                                                         *)
(* A token is the life of the engines it was sampled in.  Lives are         *)
(* numbered: a rebuild and a restart begin a new one.                       *)
(***************************************************************************)
EXTENDS Integers, Sequences, FiniteSets

CONSTANTS
  Req,            \* global ids of a batch
  Length,         \* tokens of a response
  MaxStep,        \* total_training_steps
  MaxRebuilds,    \* max_rebuild_times
  MaxReschedules, \* max_reschedule_times
  MaxFaults,      \* bound: faults of the rollout and of the rest of a step
  CatchesUp       \* assumption: training a step outlasts the backlog of the queue

ASSUME RecoveryAssumption ==
  /\ IsFiniteSet(Req) /\ Req # {} /\ Length \in Nat \ {0} /\ MaxStep \in Nat \ {0}
  /\ MaxRebuilds \in Nat /\ MaxReschedules \in Nat /\ MaxFaults \in Nat
  /\ CatchesUp \in BOOLEAN

VARIABLES
  saveFreq, chipCheck,       \* save_freq; whether timeout_chip_free > 0
  \* --- trainer process ---
  step, pc, life,
  rebuilds,                  \* rebuild_times of the running step
  reschedules, faults,
  alarm,                     \* signal.alarm is set
  \* --- engines and queue ---
  engine,                    \* tokens of a request: the prefix sent and those sampled
  queue, hand,               \* the queue, and the item its consumer has taken
  \* --- TokensDict ---
  stored,                    \* index_prompt_tokens
  iter, isFinished,          \* iteration, is_rollout_finished_step
  saving, copying,           \* the saving thread runs; the step it copies the file of, or 0
  known,                     \* saved_step_ckpt: the step whose file is noted at a step, or 0
  \* --- disk ---
  tokens,                    \* auto_save_path: the iteration and what was stored
  done,                      \* global_step_k.pt, Torn while it is being copied
  ckpt,                      \* latest model checkpoint
  \* --- history ---
  passed                     \* the rollouts of the steps the trainer has gone beyond

trainer == <<saveFreq, chipCheck, step, pc, life, rebuilds, reschedules, faults, alarm>>
rollout == <<engine, queue, hand>>
dict    == <<stored, iter, isFinished, saving, copying, known>>
disk    == <<tokens, done, ckpt>>
vars    == <<trainer, rollout, dict, disk, passed>>

Step   == 1 .. MaxStep
NoItem == [req |-> 0, step |-> 0, life |-> 0, fin |-> FALSE]
Blank  == [toks |-> <<>>, fin |-> FALSE, step |-> 0]     \* nothing stored of a request
Fresh  == [r \in Req |-> Blank]
NoFile == [kind |-> "none", data |-> Fresh]
Torn   == [kind |-> "torn", data |-> Fresh]
File(d) == [kind |-> "file", data |-> d]

Init ==
  /\ saveFreq \in 1 .. MaxStep /\ chipCheck \in BOOLEAN
  /\ step = 1 /\ pc = "clear" /\ life = 1 /\ rebuilds = 0 /\ reschedules = 0
  /\ faults = 0 /\ alarm = FALSE
  /\ engine = [r \in Req |-> <<>>] /\ queue = <<>> /\ hand = NoItem
  /\ stored = Fresh /\ iter = 0 /\ isFinished = FALSE /\ saving = FALSE
  /\ copying = 0 /\ known = [k \in Step |-> 0] /\ passed = [k \in Step |-> NoFile]
  /\ tokens = [iter |-> 0, data |-> Fresh] /\ done = [k \in Step |-> NoFile] /\ ckpt = 0

AllFinished == \A r \in Req : stored[r].fin

-----------------------------------------------------------------------------
(* init_index_prompt_tokens, call by call.                                  *)

\* (Names that end in an underscore and a word are slips the code could
\* contain in the definition that follows.)

\* clear keeps the actor until every request is finished and saved.  Without
\* the lock it then empties what is stored and removes the files of the steps
\* the model checkpoint covers.
Present    == {r \in Req : stored[r] # Blank}
HasFile_step == done[step] # NoFile   \* of the step to come
HasFile    == iter \in {k \in Step : done[k].kind # "none"}
ClearWait ==
  /\ pc = "clear" /\ copying = 0
  /\ Present = {} \/ ((\A r \in Present : stored[r].fin) /\ HasFile)
  /\ pc' = "wipe"
  /\ passed' = IF Present = {} THEN passed ELSE [passed EXCEPT ![step - 1] = File(engine)]
  /\ UNCHANGED <<saveFreq, chipCheck, step, life, rebuilds, reschedules, faults, alarm>>
  /\ UNCHANGED <<rollout, dict, disk>>

Expired == {k \in Step : known[k] # 0 /\ k <= ckpt}
Wipe ==
  /\ pc = "wipe" /\ pc' = "iter"
  /\ stored' = Fresh
  /\ known' = [k \in Step |-> IF k \in Expired THEN 0 ELSE known[k]]
  /\ done' = [k \in Step |-> IF \E j \in Expired : known[j] = k THEN NoFile ELSE done[k]]
  /\ UNCHANGED <<saveFreq, chipCheck, step, life, rebuilds, reschedules, faults, alarm>>
  /\ UNCHANGED <<rollout, iter, isFinished, saving, copying, tokens, ckpt, passed>>

UpdateIter ==
  /\ pc = "iter" /\ iter' = step /\ pc' = "load"
  /\ UNCHANGED <<saveFreq, chipCheck, step, life, rebuilds, reschedules, faults, alarm>>
  /\ UNCHANGED <<rollout, stored, isFinished, saving, copying, known, disk, passed>>

\* try_load: the finished rollout of the step, else what was saved of it.
TryLoad_any ==              \* what was saved is loaded for whatever step it is
  /\ pc = "load" /\ copying = 0
  /\ done[iter].kind # "torn"
  /\ isFinished' = (done[iter].kind = "file")
  /\ stored' = IF isFinished' THEN done[iter].data ELSE tokens.data
  /\ pc' = "begin"
  /\ UNCHANGED <<saveFreq, chipCheck, step, life, rebuilds, reschedules, faults, alarm>>
  /\ UNCHANGED <<rollout, iter, saving, copying, known, disk, passed>>
TryLoad ==
  /\ pc = "load" /\ copying = 0
  /\ IF done[iter].kind = "torn"
     THEN pc' = "raised" /\ UNCHANGED <<stored, isFinished>>
     ELSE /\ isFinished' = (done[iter].kind = "file")
          /\ stored' = IF isFinished' THEN done[iter].data
                       ELSE IF tokens.iter = iter THEN tokens.data ELSE stored
          /\ pc' = "begin"
  /\ UNCHANGED <<saveFreq, chipCheck, step, life, rebuilds, reschedules, faults, alarm>>
  /\ UNCHANGED <<rollout, iter, saving, copying, known, disk, passed>>

\* _update_gen_batch and the agent loops: a finished request is returned as it
\* is stored, another is sent with the tokens it has.
Resent == [r \in Req |-> stored[r].toks]
Dispatch ==
  /\ engine' = Resent
  /\ alarm' = TRUE

\* start_save, and the rollout begins under the alarm of the timeout wrapper.
Begin ==
  /\ pc = "begin" /\ pc' = "rollout"
  /\ saving' = TRUE
  /\ rebuilds' = 0 /\ Dispatch
  /\ UNCHANGED <<saveFreq, chipCheck, step, life, reschedules, faults>>
  /\ UNCHANGED <<queue, hand, stored, iter, isFinished, copying, known, disk, passed>>

-----------------------------------------------------------------------------
(* The rollout: tokens go to the queue before they go anywhere else.        *)

\* output_handler: one token of a request.
Emit(r) ==
  /\ pc \in {"rollout", "prepare"} /\ Len(engine[r]) < Length
  /\ engine' = [engine EXCEPT ![r] = Append(@, life)]
  /\ queue' = Append(queue, [req |-> r, step |-> step, life |-> life,
                             fin |-> Len(engine'[r]) = Length])
  /\ UNCHANGED <<trainer, hand, dict, disk, passed>>

\* The consumer task: takes an item, then waits for the actor to have it.
Take ==
  /\ hand = NoItem /\ queue # <<>>
  /\ hand' = Head(queue) /\ queue' = Tail(queue)
  /\ UNCHANGED <<trainer, engine, dict, disk, passed>>

\* update_datas, when clear does not keep the actor.
Update ==
  /\ hand # NoItem /\ pc # "clear" /\ copying = 0
  /\ stored' = [stored EXCEPT ![hand.req] =
                  [toks |-> Append(@.toks, hand.life), fin |-> hand.fin, step |-> hand.step]]
  /\ hand' = NoItem
  /\ UNCHANGED <<trainer, engine, queue, iter, isFinished, saving, copying, known, disk, passed>>

\* _auto_save under the lock: the tokens, and a copy once all are finished.
AutoSave ==
  /\ saving /\ copying = 0 /\ ~ isFinished
  /\ tokens' = [iter |-> iter, data |-> stored]
  /\ IF AllFinished
     THEN copying' = iter /\ done' = [done EXCEPT ![iter] = Torn]
     ELSE UNCHANGED <<copying, done>>
  /\ UNCHANGED <<trainer, rollout, stored, iter, isFinished, saving, known, ckpt, passed>>
AutoSaved_wide ==           \* the file is written of what is stored by now
  /\ copying # 0 /\ copying' = 0
  /\ done' = [done EXCEPT ![iter] = File(stored)]
  /\ known' = [known EXCEPT ![iter] = iter]
  /\ UNCHANGED <<trainer, rollout, stored, iter, isFinished, saving, tokens, ckpt, passed>>
AutoSaved ==                \* the iteration may have moved on since the copy began
  /\ copying # 0 /\ copying' = 0
  /\ done' = [done EXCEPT ![copying] = File(tokens.data)]
  /\ known' = [known EXCEPT ![iter] = copying]
  /\ UNCHANGED <<trainer, rollout, stored, iter, isFinished, saving, tokens, ckpt, passed>>

\* generate_sequences returns; without the chip check nobody clears the alarm.
RolloutEnds ==
  /\ pc = "rollout" /\ \A r \in Req : Len(engine[r]) = Length
  /\ pc' = "train"
  /\ alarm' = IF chipCheck THEN FALSE ELSE alarm
  /\ UNCHANGED <<saveFreq, chipCheck, step, life, rebuilds, reschedules, faults>>
  /\ UNCHANGED <<rollout, dict, disk, passed>>

-----------------------------------------------------------------------------
(* Faults of a rollout: catch_rollout_fault rebuilds and tries again.       *)

\* An exception of generate_sequences, or of a rebuild after the first one.
Caught ==
  /\ rebuilds' = rebuilds + 1
  /\ pc' = IF rebuilds < MaxRebuilds THEN "prepare" ELSE "raised"

\* A worker, an engine or an agent loop fails, or the timeout handler kills
\* them; the engines that are left go on.
RolloutFault ==
  /\ pc = "rollout" /\ faults < MaxFaults
  /\ faults' = faults + 1 /\ Caught
  /\ alarm' = IF chipCheck THEN FALSE ELSE alarm
  /\ UNCHANGED <<saveFreq, chipCheck, step, life, reschedules, rollout, dict, disk, passed>>

\* _pre_rebuild: only from the checkpoint of the step before.  Removing the
\* placement groups stops the engines; then the queue has to become empty.
PreRebuild ==
  /\ pc = "prepare"
  /\ pc' = IF step = ckpt + 1 THEN "drain" ELSE "raised"
  /\ UNCHANGED <<saveFreq, chipCheck, step, life, rebuilds, reschedules, faults, alarm>>
  /\ UNCHANGED <<rollout, dict, disk, passed>>

\* Resources may not be ready in time.
Drained ==
  /\ pc = "drain" /\ queue = <<>> /\ pc' \in {"rebuild", "raised"}
  /\ UNCHANGED <<saveFreq, chipCheck, step, life, rebuilds, reschedules, faults, alarm>>
  /\ UNCHANGED <<rollout, dict, disk, passed>>

\* rebuild_wg and rebuild_manager: new engines, the checkpoint loaded.  The
\* item the consumer had taken is stored by then: a rebuild outlasts a call.
LoadedStep == IF ckpt = 0 THEN step ELSE ckpt + 1
Rebuild ==
  /\ pc = "rebuild" /\ hand = NoItem
  /\ life' = life + 1 /\ step' = LoadedStep
  /\ Dispatch /\ pc' = "rollout"
  /\ UNCHANGED <<saveFreq, chipCheck, rebuilds, reschedules, faults>>
  /\ UNCHANGED <<queue, hand, dict, disk, passed>>
RebuildFault ==
  /\ pc = "rebuild" /\ faults < MaxFaults
  /\ faults' = faults + 1 /\ Caught
  /\ UNCHANGED <<saveFreq, chipCheck, step, life, reschedules, alarm, rollout, dict, disk, passed>>

-----------------------------------------------------------------------------
(* The rest of a step, and the restart of the job.                          *)

\* The model is updated and saved every save_freq steps and at the last one.
Train ==
  /\ pc = "train" /\ (CatchesUp => queue = <<>> /\ hand = NoItem)
  /\ ckpt' = IF step % saveFreq = 0 \/ step = MaxStep THEN step ELSE ckpt
  /\ step' = step + 1 /\ pc' = IF step = MaxStep THEN "ended" ELSE "clear"
  /\ UNCHANGED <<saveFreq, chipCheck, life, rebuilds, reschedules, faults, alarm>>
  /\ UNCHANGED <<rollout, dict, tokens, done, passed>>

TrainFault ==
  /\ pc = "train" /\ faults < MaxFaults
  /\ faults' = faults + 1 /\ pc' = "raised"
  /\ UNCHANGED <<saveFreq, chipCheck, step, life, rebuilds, reschedules, alarm>>
  /\ UNCHANGED <<rollout, dict, disk, passed>>

\* The handler raises TimeoutError wherever the process is.
AlarmFires ==
  /\ alarm /\ ~ chipCheck /\ faults < MaxFaults
  /\ pc \notin {"raised", "failed", "ended"}
  /\ faults' = faults + 1 /\ alarm' = FALSE
  /\ IF pc \in {"rollout", "prepare", "drain", "rebuild"}
     THEN Caught
     ELSE pc' = "raised" /\ UNCHANGED rebuilds
  /\ UNCHANGED <<saveFreq, chipCheck, step, life, reschedules, rollout, dict, disk, passed>>

\* reschedule: Ray is shut down and the job starts again; the disk stays.
Reschedule ==
  /\ pc = "raised"
  /\ IF reschedules = MaxReschedules
     THEN pc' = "failed" /\ UNCHANGED <<step, life, reschedules, rollout, dict>>
     ELSE /\ reschedules' = reschedules + 1
          /\ step' = ckpt + 1 /\ life' = life + 1
          /\ pc' = IF ckpt = MaxStep THEN "ended" ELSE "clear"
          /\ engine' = [r \in Req |-> <<>>] /\ queue' = <<>> /\ hand' = NoItem
          /\ stored' = Fresh /\ iter' = 0 /\ isFinished' = FALSE
          /\ saving' = FALSE /\ copying' = 0 /\ known' = [k \in Step |-> 0]
  /\ rebuilds' = 0 /\ alarm' = FALSE
  /\ UNCHANGED <<saveFreq, chipCheck, faults, disk, passed>>

-----------------------------------------------------------------------------
Trainer == \/ ClearWait \/ Wipe \/ UpdateIter \/ TryLoad \/ Begin \/ RolloutEnds
           \/ PreRebuild \/ Drained \/ Rebuild \/ Train \/ Reschedule
Tokens  == Take \/ Update \/ AutoSave \/ AutoSaved
Faulty  == RolloutFault \/ RebuildFault \/ TrainFault \/ AlarmFires
Next ==
  \/ Trainer \/ Tokens \/ Faulty
  \/ \E r \in Req : Emit(r)
Spec == Init /\ [][Next]_vars

\* Each process goes on: the trainer, the engines, the consumer, the saver.
\* The saver sleeps between two copies, so whoever wants its lock gets it.
FairSpec ==
  /\ Spec /\ SF_vars(Trainer) /\ SF_vars(Take \/ Update)
  /\ WF_vars(AutoSave /\ AllFinished) /\ WF_vars(AutoSaved)
  /\ WF_vars(\E r \in Req : Emit(r))

-----------------------------------------------------------------------------
(* Properties.                                                              *)

TypeOK ==
  /\ step \in 1 .. MaxStep + 1 /\ ckpt \in 0 .. MaxStep /\ iter \in 0 .. MaxStep
  /\ pc \in {"clear", "wipe", "iter", "load", "begin", "rollout", "prepare", "drain",
             "rebuild", "train", "raised", "failed", "ended"}
  /\ known \in [Step -> 0 .. MaxStep] /\ saving \in BOOLEAN /\ copying \in 0 .. MaxStep
  /\ rebuilds \in 0 .. MaxRebuilds + 1 /\ reschedules \in 0 .. MaxReschedules
  /\ \A r \in Req : Len(stored[r].toks) <= Length /\ Len(engine[r]) <= Length

\* What is on its way to TokensDict, in order; the number of an item among those
\* of its request.
Flight    == (IF hand = NoItem THEN <<>> ELSE <<hand>>) \o queue
Nth(r, j) == Cardinality({i \in 1 .. j : Flight[i].req = r})

\* During a rollout, what is stored of a request and what is on its way is what
\* its engine has been sent and has sampled: over rebuilds and restarts no
\* token is lost, stored twice, or kept that the resent prompt does not hold.
StoredFollowsEngine ==
  pc = "rollout" => \A r \in Req :
    LET n == Len(stored[r].toks) IN
    /\ Len(engine[r]) = n + Nth(r, Len(Flight))
    /\ stored[r].toks = SubSeq(engine[r], 1, n)
    /\ \A j \in 1 .. Len(Flight) :
         Flight[j].req = r => Flight[j].life = engine[r][n + Nth(r, j)]

\* The rollout of a step the trainer has gone beyond is on disk, or being
\* written again, until a model checkpoint covers the step.
FinishedKept == \A k \in Step : passed[k] # NoFile /\ ckpt < k => done[k] # NoFile

\* A step repeated after a restart is trained with the very responses it was
\* trained with before the trainer went beyond it.
SameRollout == pc = "train" /\ passed[step] # NoFile => engine = passed[step].data

\* Tokens of another step never enter what is stored of this one.
OfThisStep == pc = "rollout" => \A r \in Req : stored[r].step \in {0, step}

\* What is stored belongs to the rollout that runs, token by token.
TokensFollow == TypeOK /\ StoredFollowsEngine /\ OfThisStep

\* A rollout that was trained on is kept, and repeated when its step is.
StepsRepeat == FinishedKept /\ SameRollout

\* Training ends, or is given up after the restarts it may make: no wait of
\* clear, of the queue or of the actor lasts for ever.
TrainingEnds == <>(pc \in {"ended", "failed"})
=============================================================================
