--------------------------- MODULE ValidationResume ---------------------------
(***************************************************************************)
(* Validation of drkernel with an incremental dump and resume.              *)
(*                                                                          *)
(* A run goes through the dataset in chunks.  It skips the prompts whose    *)
(* resume key it has completed, generates rollouts for each of the others,  *)
(* adds the rows to its accumulators, appends one JSON line per row         *)
(* to the dump and marks the keys completed.  A process that dies in the    *)
(* append leaves any prefix of it in the file.  The next run first reads    *)
(* the file back: every line that parses is a row, its key is completed.    *)
(*                                                                          *)
(* Only keys are kept of a row: what a rollout says and earns is left out.  *)
(*                                                                          *)
(* The names of Init, Next and Spec, and of what else DynamicSampling has   *)
(* too, are this module's own: DynamicSampling_proofs extends both.         *)
(***************************************************************************)
EXTENDS Integers, FiniteSets, Sequences, SequencesExt, Keeping

CONSTANTS
  Key,         \* the resume keys
  Dataset,     \* the chunks of val_dataloader, each a sequence of keys
  Rollouts,    \* val_kwargs.n, rollouts of a prompt
  MaxCrashes   \* bound on the crashes

ASSUME ValidationResumeAssumption ==
  /\ IsFiniteSet(Key)
  /\ Dataset \in Seq(Seq(Key))
  /\ Rollouts \in Nat \ {0}
  /\ MaxCrashes \in Nat

VARIABLES
  lines,      \* the keys of the lines of the dump that parse
  tail,       \* how the dump ends
  stage,      \* what the run is doing
  pos,        \* the chunk it is at
  seeded,     \* keys of the rows it read back, in order
  fresh,      \* keys of the rows it generated, in order
  completed,  \* completed_keys
  crashes     \* how often a run died

valVars == <<lines, tail, stage, pos, seeded, fresh, completed, crashes>>
dump == <<lines, tail>>
run  == <<stage, pos, seeded, fresh, completed>>

\* The end of the dump: after a newline; after a whole record without its
\* newline; within a record; within one character of a record, which makes
\* the file undecodable (records are written with ensure_ascii=False).
Ends == {"newline", "record", "within", "character"}

Rows == seeded \o fresh               \* sample_scores and its companions

Count(k, s) == Cardinality({i \in DOMAIN s : s[i] = k})

ValInit ==
  /\ lines = <<>>
  /\ tail = "newline"
  /\ stage = "down"
  /\ pos = 1
  /\ seeded = <<>>
  /\ fresh = <<>>
  /\ completed = {}
  /\ crashes = 0
-----------------------------------------------------------------------------
(***************************************************************************)
(* Start of a run.                                                          *)
(***************************************************************************)

\* (Names that end in an underscore and a word are slips the code could
\* contain in the definition that follows.)

\* The keys _seed_from_incremental returns.
SeededKeys_full == {k \in Key : Count(k, lines) >= Rollouts}
SeededKeys == {k \in Key : Count(k, lines) > 0}

Stopped == stage \in {"down", "done", "failed"}

\* VAL_RESUME=1.  Reading an undecodable file raises.
Resume ==
  /\ Stopped
  /\ pos' = 1
  /\ fresh' = <<>>
  /\ \/ /\ tail # "character"
        /\ stage' = "loop"
        /\ seeded' = lines
        /\ completed' = SeededKeys
     \/ /\ tail = "character"
        /\ stage' = "failed"
        /\ seeded' = <<>>
        /\ completed' = {}
  /\ UNCHANGED <<dump, crashes>>

\* VAL_RESUME=0 empties the dump.
StartOver ==
  /\ Stopped
  /\ lines' = <<>>
  /\ tail' = "newline"
  /\ stage' = "loop"
  /\ pos' = 1
  /\ seeded' = <<>>
  /\ fresh' = <<>>
  /\ completed' = {}
  /\ UNCHANGED crashes
-----------------------------------------------------------------------------
(***************************************************************************)
(* The loop over the chunks.                                                *)
(***************************************************************************)

AtChunk == stage = "loop" /\ pos <= Len(Dataset)

\* The prompts of the chunk that are kept (keep_idx).
Missing == {i \in DOMAIN Dataset[pos] : Dataset[pos][i] \notin completed}
Keep    == Retained(Dataset[pos], Missing)

\* repeat(interleave=True) and row_keys: as many rows in a row for each prompt.
RowsOf(keys) == [i \in 1..(Rollouts * Len(keys)) |-> keys[((i - 1) \div Rollouts) + 1]]

SkipChunk ==
  /\ AtChunk
  /\ Keep = <<>>
  /\ pos' = pos + 1
  /\ UNCHANGED <<dump, stage, seeded, fresh, completed, crashes>>

\* Generation, rewards and the accumulators.
Evaluate ==
  /\ AtChunk
  /\ Keep # <<>>
  /\ fresh' = fresh \o RowsOf(Keep)
  /\ stage' = "append"
  /\ UNCHANGED <<dump, pos, seeded, completed, crashes>>

\* The file is opened with "a": the first record goes on the line the file
\* ends with, and when that is not empty neither of the two parses.
Parsed == IF tail = "record" THEN Front(lines) ELSE lines

AfterTail(s) == IF tail = "newline" \/ s = <<>> THEN s ELSE Tail(s)

\* _append_incremental_records, and completed_keys.add for each prompt.
Append_unmarked ==
  /\ stage = "append"
  /\ lines' = Parsed \o AfterTail(RowsOf(Keep))
  /\ tail' = "newline"
  /\ pos' = pos + 1
  /\ stage' = "loop"
  /\ UNCHANGED <<seeded, fresh, completed, crashes>>

AppendRecords ==
  /\ stage = "append"
  /\ lines' = Parsed \o AfterTail(RowsOf(Keep))
  /\ tail' = "newline"
  /\ completed' = completed \union ToSet(Keep)
  /\ pos' = pos + 1
  /\ stage' = "loop"
  /\ UNCHANGED <<seeded, fresh, crashes>>

\* The columns of reward_extra_infos_dict have the length of sample_scores,
\* but for "score": the reader takes it from each record for such a column,
\* and a chunk evaluated by this run adds nothing to it.
ColumnsAgree_twice == seeded = <<>>
ColumnsAgree == seeded = <<>> \/ fresh = <<>>

\* The length guard, and the end of _validate_incremental.
Finish ==
  /\ stage = "loop"
  /\ pos > Len(Dataset)
  /\ stage' = IF ColumnsAgree THEN "done" ELSE "failed"
  /\ UNCHANGED <<dump, pos, seeded, fresh, completed, crashes>>
-----------------------------------------------------------------------------
(***************************************************************************)
(* Crashes.                                                                 *)
(***************************************************************************)

Dies ==
  /\ crashes < MaxCrashes
  /\ crashes' = crashes + 1
  /\ stage' = "down"
  /\ pos' = 1
  /\ seeded' = <<>>
  /\ fresh' = <<>>
  /\ completed' = {}

\* Between appends, or before the append has written anything.
Crash ==
  /\ stage \in {"loop", "append"}
  /\ Dies
  /\ UNCHANGED dump

\* In the append: n records are whole, and the file ends as end says.
TornAppend(end) ==
  /\ stage = "append"
  /\ Dies
  /\ \E n \in 0..(Rollouts * Len(Keep)) :
       LET kept == AfterTail(SubSeq(RowsOf(Keep), 1, n))
       IN  /\ n = 0 => end \in {"within", "character"}
           /\ n = Rollouts * Len(Keep) => end = "record"
           /\ lines' = Parsed \o kept
           /\ tail' = IF end = "record" /\ kept = <<>> THEN "within" ELSE end

ValNext ==
  \/ Resume
  \/ StartOver
  \/ SkipChunk
  \/ Evaluate
  \/ AppendRecords
  \/ Finish
  \/ Crash
  \/ \E end \in Ends : TornAppend(end)

ValSpec == ValInit /\ [][ValNext]_valVars

\* A run goes on until it dies, and a run that has stopped is started again
\* with resume, which is what the dump is for.
ValFairness ==
  /\ WF_valVars(SkipChunk \/ Evaluate \/ AppendRecords \/ Finish)
  /\ WF_valVars(Resume)

ValFairSpec == ValSpec /\ ValFairness
-----------------------------------------------------------------------------
(***************************************************************************)
(* Properties.                                                              *)
(***************************************************************************)

\* The type of every variable.
ValTypeOK ==
  /\ lines \in Seq(Key)
  /\ tail \in Ends
  /\ stage \in {"down", "loop", "append", "done", "failed"}
  /\ pos \in 1..(Len(Dataset) + 1)
  /\ seeded \in Seq(Key)
  /\ fresh \in Seq(Key)
  /\ completed \subseteq Key
  /\ crashes \in 0..MaxCrashes

\* However often a validation is killed and resumed, the rows it averages
\* hold no rollouts of a prompt beyond what one pass over a chunk generates:
\* no prompt weighs more in the metrics because of a restart.
CountedOnce ==
  \A k \in ToSet(Rows) :
    \E c \in DOMAIN Dataset : Count(k, Rows) <= Rollouts * Count(k, Dataset[c])

\* A validation that finishes has a row of every prompt, and those that lack
\* rollouts are at most the two a torn append costs: the prompt it was
\* writing, and the one whose first line the next run glues to the torn one.
FinishedCoversAll ==
  stage = "done" =>
    LET prompts == UNION {ToSet(Dataset[c]) : c \in DOMAIN Dataset}
    IN  /\ \A k \in prompts : Count(k, Rows) > 0
        /\ Cardinality({k \in prompts : Count(k, Rows) < Rollouts}) <= 2 * crashes

\* Between chunks the dump has every row the run would average, but for the
\* two lines that a torn end and the line glued to it can cost: a crash then
\* loses the work of one chunk at most.
DumpKeepsUp ==
  stage = "loop" => Len(Rows) - Len(lines) \in 0..2

\* The rows of a run and of its dump, over any number of crashes.
RowsComplete == ValTypeOK /\ CountedOnce /\ FinishedCoversAll /\ DumpKeepsUp

\* No run generates rollouts of a prompt that has a row in the dump, so the
\* work a killed run has saved is not done again, nor a prompt that two
\* chunks hold evaluated twice.
EvaluatesOnlyMissing ==
  [][\A i \in DOMAIN fresh' : Len(fresh) < i => fresh'[i] \notin ToSet(lines)]_valVars

\* Started again as often as it stops, the validation ends with its metrics
\* again and again, unless the dump was cut within a character: that file no
\* later run can read.
RunsFinish == []<>(stage = "done" \/ tail = "character")
=============================================================================
