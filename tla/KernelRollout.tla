---------------------------- MODULE KernelRollout ----------------------------
(***************************************************************************)
(* The multi-turn rollouts of drkernel, from the model's first token to the *)
(* advantage of each token.                                                 *)
(*                                                                          *)
(* A row is one trajectory of a prompt group.  KernelAgentLoop lets the     *)
(* model write a kernel, has KernelGym evaluate it over HTTP, appends the   *)
(* feedback as a user turn and starts the next turn, within the response    *)
(* budget.  evaluate_kernel submits a task with a fresh id, retries a       *)
(* bounded number of times and polls until the client's timeout.  When the  *)
(* rows are complete the trainer cuts them to the response length, puts     *)
(* each turn's reward on the last token of the turn's run in the mask, and  *)
(* TRLOO turns these into returns and leave-one-out advantages.             *)
(*                                                                          *)
(* KernelGym is outside src/: it may run a task late, fail it, or never     *)
(* answer.  A generation returns at least one token.                        *)
(***************************************************************************)
EXTENDS Integers, SequencesExt

CONSTANTS
  Row,             \* the trajectories of one prompt
  MaxTurns,        \* max_assistant_turns
  ResponseLength,  \* response_length
  Slack,           \* prompt_length less the tokens of this prompt
  Lengths,         \* how many tokens the model may want to write
  MaxFeedback,     \* bound on the tokens of a feedback message
  MaxSubmits,      \* submit_max_retries
  Flaky            \* rows whose requests may fail; every task may be late

ASSUME KernelRolloutAssumption ==
  /\ IsFiniteSet(Row)
  /\ MaxTurns \in Nat \ {0}
  /\ ResponseLength \in Nat \ {0}
  /\ Slack \in Nat
  /\ Lengths \subseteq Nat \ {0}
  /\ MaxFeedback \in Nat \ {0}
  /\ MaxSubmits \in Nat \ {0}
  /\ Flaky \subseteq Row

Turn    == 1..MaxTurns
Run     == 1..2                    \* the first evaluation, and the rerun
Task    == Row \X Turn \X Run      \* one per call of evaluate_kernel
Penalty == -1

\* What KernelGym can find: "failed" is every result that earns the penalty,
\* a speedup above the bound is an anomaly.
Verdict   == {"failed", "correct", "anomalous"}
RewardOf  == [failed |-> Penalty, correct |-> 1, anomalous |-> 2]
Reward    == {RewardOf[v] : v \in Verdict}

VARIABLES
  phase,      \* the state of each row's loop; EVALUATING is submit, then poll
  turns,      \* assistant_turns
  mask,       \* response_mask; a 1 is written as the number of its turn
  rewards,    \* turn_rewards
  final,      \* should_terminate_after_eval
  run,        \* which evaluation of this turn is under way
  attempt,    \* submissions that failed
  server,     \* what KernelGym knows of each task
  scores,     \* token-level rewards, <<>> before the trainer has computed them
  credit      \* returns and advantages of the tokens, likewise

vars == <<phase, turns, mask, rewards, final, run, attempt, server, scores,
          credit>>

loop == <<turns, mask, rewards, final>>
eval == <<run, attempt>>
step == <<scores, credit>>

Init ==
  /\ phase = [r \in Row |-> "pending"]
  /\ turns = [r \in Row |-> 0]
  /\ mask = [r \in Row |-> <<>>]
  /\ rewards = [r \in Row |-> <<>>]
  /\ final = [r \in Row |-> FALSE]
  /\ run = [r \in Row |-> 1]
  /\ attempt = [r \in Row |-> 0]
  /\ server = [t \in Task |-> "absent"]
  /\ scores = <<>>
  /\ credit = <<>>
-----------------------------------------------------------------------------
(***************************************************************************)
(* The loop of one row.                                                     *)
(***************************************************************************)

\* _handle_pending
Pending(r) ==
  /\ phase[r] = "pending"
  /\ phase' = [phase EXCEPT ![r] = "generating"]
  /\ UNCHANGED <<loop, eval, server, step>>

\* hard_cap_hit, or the response holds an answer block.
FinalTurn(r, answer) ==
  \/ answer
  \/ Len(mask'[r]) >= ResponseLength
  \/ turns'[r] >= MaxTurns

\* The engine ends a generation when prompt and responses fill the context, so
\* a short prompt leaves room beyond the response length.
Generated(r, want) ==
  LET room == ResponseLength + Slack - Len(mask[r])
  IN  [j \in 1..(IF want <= room THEN want ELSE room) |-> turns[r] + 1]

\* _handle_generating, with an answer block in the response or not, with a
\* kernel in it or not.  Without a kernel the turn gets the penalty and the
\* loop ends.
Generate(r, n, answer, kernel) ==
  /\ phase[r] = "generating"
  /\ turns' = [turns EXCEPT ![r] = @ + 1]
  /\ mask' = [mask EXCEPT ![r] = @ \o Generated(r, n)]
  /\ final' = [final EXCEPT ![r] = FinalTurn(r, answer)]
  /\ \/ /\ kernel
        /\ phase' = [phase EXCEPT ![r] = "submit"]
        /\ UNCHANGED rewards
     \/ /\ ~kernel
        /\ phase' = [phase EXCEPT ![r] = "terminated"]
        /\ rewards' = [rewards EXCEPT ![r] = Append(@, Penalty)]
  /\ UNCHANGED <<eval, server, step>>
-----------------------------------------------------------------------------
(***************************************************************************)
(* One call of evaluate_kernel.                                             *)
(***************************************************************************)

\* (Names that end in an underscore and a word are slips the code could
\* contain in the definition that follows.)

\* The id drawn for the call: no other call has it.
TaskOf_constant(r) == <<r, 1, 1>>
TaskOf(r) == <<r, turns[r], run[r]>>

\* Whether the feedback of f tokens leaves room for another turn.
RoomAfter_equal(r, f) == Len(mask[r]) + f <= ResponseLength
RoomAfter(r, f) == Len(mask[r]) + f < ResponseLength

\* The rest of _handle_evaluating once the result is there: rerun an anomaly
\* once, record the reward, and unless this was the last turn append the
\* feedback if another turn fits behind it.
Rerun(r, v) == v = "anomalous" /\ run[r] = 1

Evaluated(r, v) ==
  /\ run' = [run EXCEPT ![r] = IF Rerun(r, v) THEN 2 ELSE 1]
  /\ attempt' = [attempt EXCEPT ![r] = 0]
  /\ \/ /\ Rerun(r, v)
        /\ phase' = [phase EXCEPT ![r] = "submit"]
        /\ UNCHANGED loop
     \/ /\ ~Rerun(r, v)
        /\ UNCHANGED <<turns, final>>
        /\ rewards' = [rewards EXCEPT ![r] = Append(@, RewardOf[v])]
        /\ \/ /\ final[r]
              /\ phase' = [phase EXCEPT ![r] = "terminated"]
              /\ UNCHANGED mask
           \/ /\ ~final[r]
              /\ \E f \in 1..MaxFeedback :
                   \/ /\ RoomAfter(r, f)
                      /\ mask' = [mask EXCEPT ![r] = @ \o [j \in 1..f |-> 0]]
                      /\ phase' = [phase EXCEPT ![r] = "generating"]
                   \/ /\ ~RoomAfter(r, f)
                      /\ phase' = [phase EXCEPT ![r] = "terminated"]
                      /\ UNCHANGED mask

\* POST /evaluate answered 200.
Accepted(r) ==
  /\ phase[r] = "submit"
  /\ server' = [server EXCEPT ![TaskOf(r)] = IF @ = "absent" THEN "queued" ELSE @]
  /\ phase' = [phase EXCEPT ![r] = "poll"]
  /\ UNCHANGED <<loop, eval, step>>

\* 429 or 503, a timeout or a failed connection: retry, the last time give
\* up.  A request that timed out may have reached the server.
Again(r) == attempt[r] + 1 < MaxSubmits

SubmitFails(r, reached) ==
  /\ phase[r] = "submit"
  /\ r \in Flaky
  /\ IF reached /\ server[TaskOf(r)] = "absent"
     THEN server' = [server EXCEPT ![TaskOf(r)] = "queued"]
     ELSE UNCHANGED server
  /\ \/ /\ Again(r)
        /\ attempt' = [attempt EXCEPT ![r] = @ + 1]
        /\ UNCHANGED <<phase, loop, run>>
     \/ /\ ~Again(r)
        /\ Evaluated(r, "failed")
  /\ UNCHANGED step

\* Any other answer is final.
Refused(r) ==
  /\ phase[r] = "submit"
  /\ r \in Flaky
  /\ Evaluated(r, "failed")
  /\ UNCHANGED <<server, step>>

\* A poll finds the task ended, or its results cannot be read.
PollEnds(r, read) ==
  /\ phase[r] = "poll"
  /\ ~read => r \in Flaky
  /\ server[TaskOf(r)] \in Verdict
  /\ Evaluated(r, IF read THEN server[TaskOf(r)] ELSE "failed")
  /\ UNCHANGED <<server, step>>

\* client_timeout
PollTimeout_unqueued(r) ==
  /\ phase[r] = "poll"
  /\ server[TaskOf(r)] # "queued"
  /\ Evaluated(r, "failed")
  /\ UNCHANGED <<server, step>>

PollTimeout(r) ==
  /\ phase[r] = "poll"
  /\ Evaluated(r, "failed")
  /\ UNCHANGED <<server, step>>

\* KernelGym ends a task, whether somebody still waits for it or not; once
\* the row has terminated nothing looks at its tasks any more.
Serve(t, v) ==
  /\ server[t] = "queued"
  /\ phase[t[1]] # "terminated"
  /\ server' = [server EXCEPT ![t] = v]
  /\ UNCHANGED <<phase, loop, eval, step>>
-----------------------------------------------------------------------------
(***************************************************************************)
(* The trainer.                                                             *)
(***************************************************************************)

\* The response_mask of the output: run cuts it at response_length.
Kept(r) == SubSeq(mask[r], 1, IF Len(mask[r]) < ResponseLength
                              THEN Len(mask[r]) ELSE ResponseLength)

\* _mask_runs: a run starts at a one that follows no one and ends at a one
\* that precedes none; SpanOf numbers the runs, 0 is a token outside them.
Starts(m) == {j \in 1..Len(m) : m[j] # 0 /\ (j = 1 \/ m[j - 1] = 0)}
Ends(m)   == {j \in 1..Len(m) : m[j] # 0 /\ (j = Len(m) \/ m[j + 1] = 0)}
SpanOf(m) == [j \in 1..Len(m) |->
                IF m[j] = 0 THEN 0 ELSE Cardinality({i \in Starts(m) : i <= j})]
Spans(m)  == 1..Cardinality(Starts(m))

\* _redistribute_per_turn_rewards, one row: the first rewards on the last
\* tokens of the first spans.
Redistribute(m, rs) ==
  [j \in 1..Len(m) |->
     IF j \in Ends(m) /\ SpanOf(m)[j] <= Len(rs) THEN rs[SpanOf(m)[j]] ELSE 0]

\* _fit_compute_reward, when every row of the group has been collected.
ComputeReward ==
  /\ \A r \in Row : phase[r] = "terminated"
  /\ scores = <<>>
  /\ scores' = [r \in Row |-> Redistribute(Kept(r), rewards[r])]
  /\ UNCHANGED <<phase, loop, eval, server, credit>>

\* Steps 2 and 3 of compute_trloo_outcome_advantage: a turn's reward is the
\* sum over its span, its return adds those of the later turns (gamma is 1).
TurnReward(m, s, k) ==
  LET at == SpanOf(m) IN SumFunctionOnSet(s, {j \in 1..Len(m) : at[j] = k})

TurnReturn(m, s, t) ==
  LET reward == [k \in Spans(m) |-> TurnReward(m, s, k)]
  IN  SumFunctionOnSet(reward, {k \in Spans(m) : k >= t})

\* Steps 4 and 5: the baseline of a turn is the mean return of the other rows
\* that have this turn.  Advantages are multiplied by the number of others.
Members(t) == {r \in Row : t \in Spans(Kept(r))}
Others(r, t) == Members(t) \ {r}

Advantage(r, t) ==
  LET ret    == [q \in Row |-> TurnReturn(Kept(q), scores[q], t)]
      others == Others(r, t)
  IN  IF others = {} THEN ret[r]
      ELSE Cardinality(others) * ret[r] - SumFunctionOnSet(ret, others)

\* Step 5: every token of a span has the return and the advantage of the turn.
Credits(r) ==
  LET m    == Kept(r)
      at   == SpanOf(m)
      turn == [k \in Spans(m) |-> [returns   |-> TurnReturn(m, scores[r], k),
                                   advantage |-> Advantage(r, k)]]
  IN  [j \in 1..Len(m) |-> IF at[j] = 0 THEN [returns |-> 0, advantage |-> 0]
                           ELSE turn[at[j]]]

ComputeAdvantage ==
  /\ scores # <<>>
  /\ credit = <<>>
  /\ credit' = [r \in Row |-> Credits(r)]
  /\ UNCHANGED <<phase, loop, eval, server, scores>>
-----------------------------------------------------------------------------
Submitting(r) == Accepted(r) \/ (\E b \in BOOLEAN : SubmitFails(r, b)) \/ Refused(r)
Polling(r)    == (\E b \in BOOLEAN : PollEnds(r, b)) \/ PollTimeout(r)
Generating(r) == \E n \in Lengths, a, k \in BOOLEAN : Generate(r, n, a, k)

Next ==
  \/ \E r \in Row : Pending(r)
  \/ \E r \in Row : Generating(r)
  \/ \E r \in Row : Accepted(r)
  \/ \E r \in Row, b \in BOOLEAN : SubmitFails(r, b)
  \/ \E r \in Row : Refused(r)
  \/ \E r \in Row, b \in BOOLEAN : PollEnds(r, b)
  \/ \E r \in Row : PollTimeout(r)
  \/ \E t \in Task, v \in Verdict : Serve(t, v)
  \/ ComputeReward
  \/ ComputeAdvantage

\* The event loop runs what is ready, every request and wait of the client has
\* a timeout, and the trainer goes on.  KernelGym owes nothing.
Working(r) == Pending(r) \/ Generating(r) \/ Submitting(r) \/ Polling(r)

Fairness == WF_vars((\E r \in Row : Working(r)) \/ ComputeReward \/ ComputeAdvantage)

Spec     == Init /\ [][Next]_vars
FairSpec == Spec /\ Fairness
-----------------------------------------------------------------------------
(***************************************************************************)
(* Properties.                                                              *)
(***************************************************************************)

\* The types; a row never has more rewards than turns, and after the reward
\* step every kept token has a score.
TypeOK ==
  /\ phase \in [Row -> {"pending", "generating", "submit", "poll", "terminated"}]
  /\ turns \in [Row -> 0..MaxTurns]
  /\ final \in [Row -> BOOLEAN]
  /\ run \in [Row -> Run]
  /\ attempt \in [Row -> 0..(MaxSubmits - 1)]
  /\ server \in [Task -> Verdict \cup {"absent", "queued"}]
  /\ \A r \in Row : /\ mask[r] \in Seq(0..MaxTurns)
                    /\ rewards[r] \in Seq(Reward)
                    /\ Len(mask[r]) <= ResponseLength + Slack
                    /\ Len(rewards[r]) <= turns[r]
  /\ scores # <<>> => \A r \in Row : Len(scores[r]) = Len(Kept(r))

\* A reward above the penalty was measured by KernelGym on the kernel of that
\* turn of that row: late, failed and repeated evaluations never give a turn
\* the result of another.
OwnKernelScored ==
  \A r \in Row : \A k \in 1..Len(rewards[r]) :
    \/ rewards[r][k] = Penalty
    \/ \E n \in Run : /\ server[<<r, k, n>>] \in Verdict
                      /\ RewardOf[server[<<r, k, n>>]] = rewards[r][k]

\* "A speedup above the upper-bound clamp is almost always measurement noise":
\* a turn has the clamped reward only if two evaluations found the anomaly.
OutlierMeasuredTwice ==
  \A r \in Row : \A k \in 1..Len(rewards[r]) :
    rewards[r][k] = RewardOf["anomalous"] =>
      \A n \in Run : server[<<r, k, n>>] = "anomalous"

\* Every reward of a turn is the result of evaluations of that turn.
RewardsMeasured == TypeOK /\ OwnKernelScored /\ OutlierMeasuredTwice

\* Every turn that was evaluated reaches the update: after the cut to the
\* response length each turn still has a run of its own in the mask, the
\* k-th run is the k-th turn, and the scores in it add up to its reward.
TurnKeepsItsReward ==
  scores # <<>> =>
    \A r \in Row :
      LET at == SpanOf(Kept(r))
      IN  /\ Spans(Kept(r)) = 1..turns[r]
          /\ Len(rewards[r]) = turns[r]
          /\ \A j \in DOMAIN at : at[j] = mask[r][j]
          /\ \A k \in 1..turns[r] : TurnReward(Kept(r), scores[r], k) = rewards[r][k]

\* A token of a turn is credited with the rewards of this and the later turns
\* of its row and no earlier one; a feedback token with nothing.
CreditFollowsTurns ==
  credit # <<>> =>
    \A r \in Row : \A j \in 1..Len(Kept(r)) :
      credit[r][j].returns =
        IF mask[r][j] = 0 THEN 0
        ELSE SumFunctionOnSet(rewards[r], mask[r][j]..Len(rewards[r]))

\* Leave-one-out: among the rows that have a turn the advantages cancel, so a
\* group of equal rewards moves nothing; a row alone with a turn keeps its
\* return.
GroupsCancel ==
  credit # <<>> =>
    \A t \in Turn :
      LET members == Members(t)
          at      == [r \in members |->
                        credit[r][CHOOSE j \in Ends(Kept(r)) : SpanOf(Kept(r))[j] = t]]
          summed  == SumFunctionOnSet([r \in members |-> at[r].advantage], members)
      IN  summed = IF Cardinality(members) = 1
                   THEN at[CHOOSE r \in members : TRUE].returns ELSE 0

\* From the reward of a turn to the advantage of its tokens nothing is lost,
\* moved to another turn or kept from a baseline.
CreditIsOfTurns == TurnKeepsItsReward /\ CreditFollowsTurns /\ GroupsCancel

\* Whatever KernelGym does, every trajectory ends and the group is trained on.
GroupIsTrained == <>(credit # <<>>)
=============================================================================
