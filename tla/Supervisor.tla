------------------------------ MODULE Supervisor ------------------------------
(***************************************************************************)
(* The Supervisor of the rollout replicas: the heartbeat and its miss        *)
(* counters, the queue of deaths and its serial consumer, the admission lock *)
(* that orders deaths and promotions, and the replacement tasks, all tasks   *)
(* of one event loop that interleave where they await.  The load balancer    *)
(* executes the Supervisor's calls in order, later; the checkpoint-engine    *)
(* manager reports failures and asks for promotions from outside.            *)
(***************************************************************************)
EXTENDS Integers, Sequences, FiniteSets, SequencesExt

CONSTANTS
  Replica,        \* ids of all replicas, present and future
  Initial,        \* the replicas at the start
  Mortal,         \* bound: the replicas that may die
  Flaky,          \* bound: the replicas that may miss probes or syncs while alive
  MissThreshold,  \* fault_tolerance.heartbeat_miss_threshold
  CallsFail       \* whether calls to the load balancer and the manager may raise

ASSUME SupervisorAssumption ==
  /\ Initial \subseteq Replica /\ IsFiniteSet(Replica)
  /\ Mortal \subseteq Replica /\ Flaky \subseteq Replica
  /\ MissThreshold \in Nat \ {0} /\ CallsFail \in BOOLEAN
  /\ {"none", "consumer"} \cap Replica = {}

VARIABLES
  \* --- Supervisor ---
  supervised,  \* self.replicas
  misses,      \* tracker.miss_counts
  dead,        \* tracker.dead
  pending,     \* _pending_dead
  tokens,      \* the length of _dead_queue
  probing,     \* probes of the present tick that have not returned
  batch,       \* what the consumer has left of its snapshot
  handling,    \* the replica on_dead runs for, or None
  step,        \* where on_dead is
  lock,        \* the holder of the admission lock: None, Consumer or a replica
  stopped,     \* _stop_event
  \* --- replacement tasks ---
  spawning,    \* inflight_spawns
  product,     \* the new replica a task has brought up, or None
  registered,  \* new replicas the manager has been told of
  \* --- load balancer ---
  routed,      \* servers it routes to
  lbCalls,     \* calls of the Supervisor it has not executed
  \* --- CheckpointEngineManager ---
  active,      \* self.replicas
  fresh,       \* self._pending_replicas
  promoting,   \* progress of promote_replica for a replica
  reports,     \* report_failure calls posted to the loop
  \* --- environment and history ---
  alive,       \* replicas whose processes run
  handled,     \* replicas on_dead was called for
  lost,        \* replicas whose removal raised or was cancelled
  early        \* replicas reported before they were supervised

tracker  == <<misses, dead, pending, tokens>>
consumer == <<batch, handling, step>>
tasks    == <<spawning, product, registered>>
balancer == <<routed, lbCalls>>
manager  == <<active, fresh>>
vars == <<supervised, tracker, probing, consumer, lock, stopped, tasks, balancer,
          manager, promoting, reports, alive, handled, lost, early>>

None == "none"
Consumer == "consumer"
Call(op, r) == [op |-> op, replica |-> r]
Queued(c) == \E i \in DOMAIN lbCalls : lbCalls[i] = c
\* c never reaches the load balancer, unless it was executed already.
Lose(c) ==
  \/ ~Queued(c) /\ UNCHANGED lbCalls
  \/ \E i \in DOMAIN lbCalls : lbCalls[i] = c /\ lbCalls' = RemoveAt(lbCalls, i)

-----------------------------------------------------------------------------
(***************************************************************************)
(* Heartbeat and reports.                                                   *)
(***************************************************************************)
heartRest == <<supervised, consumer, lock, stopped, tasks, balancer, manager,
               promoting, alive, handled, lost>>

\* A tick probes all replicas not yet dead; the next one waits for its probes.
Tick ==
  /\ ~stopped /\ probing = {}
  /\ probing' = supervised \ dead
  /\ UNCHANGED <<heartRest, tracker, reports, early>>

\* record_ok.
ProbeOk(r) ==
  /\ r \in probing \cap alive
  /\ probing' = probing \ {r}
  /\ misses' = IF r \in dead THEN misses ELSE [misses EXCEPT ![r] = 0]
  /\ UNCHANGED <<heartRest, dead, pending, tokens, reports, early>>

\* Definitions whose names end in an underscore and a word are mutations of the
\* one that follows: slips the code could contain, each breaking a property.
Enqueue_once(r) ==
  /\ dead' = dead \cup {r}
  /\ pending' = pending \cup {r}
  /\ tokens' = IF pending = {} THEN tokens + 1 ELSE tokens
\* r becomes dead and is queued for the consumer.
Enqueue(r) ==
  /\ dead' = dead \cup {r}
  /\ pending' = pending \cup {r}
  /\ tokens' = tokens + 1

\* A probe that failed or took too long: record_miss.
ProbeMiss(r) ==
  /\ r \in probing /\ (r \notin alive \/ r \in Flaky)
  /\ probing' = probing \ {r}
  /\ IF r \in dead THEN UNCHANGED tracker
     ELSE /\ misses' = [misses EXCEPT ![r] = @ + 1]
          /\ IF misses[r] + 1 >= MissThreshold THEN Enqueue(r)
             ELSE UNCHANGED <<dead, pending, tokens>>
  /\ UNCHANGED <<heartRest, reports, early>>

ReportFailure_again(r) ==
  /\ r \in reports
  /\ reports' = reports \ {r}
  /\ IF r \notin supervised THEN UNCHANGED tracker
     ELSE Enqueue(r) /\ misses' = [misses EXCEPT ![r] = MissThreshold]
  /\ early' = IF r \in supervised THEN early ELSE early \cup {r}
  /\ UNCHANGED <<heartRest, probing>>
\* report_failure runs on the loop: unknown and known-dead replicas are ignored.
ReportFailure(r) ==
  /\ r \in reports
  /\ reports' = reports \ {r}
  /\ IF r \notin supervised \/ r \in dead \cup pending THEN UNCHANGED tracker
     ELSE Enqueue(r) /\ misses' = [misses EXCEPT ![r] = MissThreshold]
  /\ early' = IF r \in supervised THEN early ELSE early \cup {r}
  /\ UNCHANGED <<heartRest, probing>>

-----------------------------------------------------------------------------
(***************************************************************************)
(* The consumer: one death at a time, under the admission lock.             *)
(***************************************************************************)
deathRest == <<supervised, misses, dead, probing, stopped, promoting, reports, alive,
               early>>

\* Wake up: drain the queue, then take a snapshot of the pending deaths.
TakeDeaths ==
  /\ ~stopped /\ batch = {} /\ tokens > 0
  /\ tokens' = 0
  /\ batch' = pending
  /\ UNCHANGED <<deathRest, pending, handling, step, lock, tasks, balancer,
                 manager, handled, lost>>

\* on_dead(r), up to its first await: the removal is sent.
StartDeath(r) ==
  /\ r \in batch /\ handling = None /\ lock = None
  /\ handling' = r /\ step' = "remove" /\ lock' = Consumer
  /\ handled' = handled \cup {r}
  /\ lbCalls' = Append(lbCalls, Call("remove", r))
  /\ UNCHANGED <<deathRest, pending, tokens, batch, tasks, routed, manager, lost>>

\* The removal was executed, or the wait for it timed out.
RemovalDone ==
  /\ step = "remove"
  /\ step' = "notify"
  /\ UNCHANGED <<deathRest, pending, tokens, batch, handling, lock, tasks,
                 balancer, manager, handled, lost>>

\* The load balancer is unavailable: the removal raises, and is only logged.
RemovalFails ==
  /\ CallsFail /\ step = "remove" /\ Queued(Call("remove", handling))
  /\ Lose(Call("remove", handling))
  /\ step' = "notify"
  /\ lost' = lost \cup {handling}
  /\ UNCHANGED <<deathRest, pending, tokens, batch, handling, lock, tasks, routed,
                 manager, handled>>

\* The checkpoint manager drops the replica; or the notification raises.
NotifyManager ==
  /\ step = "notify"
  /\ step' = "spawn"
  /\ \/ active' = active \ {handling} /\ fresh' = fresh \ {handling}
     \/ CallsFail /\ UNCHANGED manager
  /\ UNCHANGED <<deathRest, pending, tokens, batch, handling, lock, tasks,
                 balancer, handled, lost>>

\* The replacement task is created, the lock released, the death is over.
FinishDeath ==
  /\ step = "spawn"
  /\ spawning' = spawning \cup {handling}
  /\ pending' = pending \ {handling}
  /\ batch' = batch \ {handling}
  /\ handling' = None /\ step' = "idle" /\ lock' = None
  /\ UNCHANGED <<deathRest, tokens, product, registered, balancer, manager,
                 handled, lost>>

\* stop: no further tick and no further snapshot ...
Stop ==
  /\ ~stopped
  /\ stopped' = TRUE
  /\ UNCHANGED <<supervised, tracker, probing, consumer, lock, tasks, balancer,
                 manager, promoting, reports, alive, handled, lost, early>>

\* ... and probes and a consumer that do not end in time are cancelled where
\* they await, be it the lock.
CancelProbes ==
  /\ stopped /\ probing # {}
  /\ probing' = {}
  /\ UNCHANGED <<heartRest, tracker, reports, early>>
CancelConsumer ==
  /\ stopped
  /\ \E r \in batch : handling \in {None, r} /\ pending' = pending \ {r}
  /\ batch' = {} /\ handling' = None /\ step' = "idle"
  /\ lock' = IF lock = Consumer THEN None ELSE lock
  /\ lost' = lost \cup batch
  /\ UNCHANGED <<deathRest, tokens, tasks, balancer, manager, handled>>

-----------------------------------------------------------------------------
(***************************************************************************)
(* Replacement tasks.                                                       *)
(***************************************************************************)
taskRest == <<tracker, probing, consumer, lock, stopped, balancer, promoting,
              reports, handled, lost, early>>
NewIds == Replica \ (Initial \cup {product[d] : d \in Replica})

\* spawn_replacement(d): what is left of d is killed, a new replica comes up.
Spawn(d, n) ==
  /\ d \in spawning /\ product[d] = None /\ n \in NewIds
  /\ alive' = (alive \ {d}) \cup {n}
  /\ product' = [product EXCEPT ![d] = n]
  /\ UNCHANGED <<taskRest, supervised, spawning, registered, manager>>

\* It fails, before or after the kill: the task ends, and nobody retries it.
SpawnFails(d) ==
  /\ d \in spawning /\ product[d] = None
  /\ alive' \in {alive, alive \ {d}}
  /\ spawning' = spawning \ {d}
  /\ UNCHANGED <<taskRest, supervised, product, registered, manager>>

\* on_spawn_success, awaited part: the manager queues the new replica.
RegisterPending(d) ==
  /\ d \in spawning /\ product[d] # None /\ product[d] \notin registered
  /\ registered' = registered \cup {product[d]}
  /\ fresh' = fresh \cup {product[d]}
  /\ UNCHANGED <<taskRest, supervised, spawning, product, active, alive>>

\* The call to the manager raises, executed or not: the task ends, and the new
\* replica is left without a Supervisor.
RegistrationFails(d) ==
  /\ CallsFail /\ d \in spawning /\ product[d] # None /\ product[d] \notin registered
  /\ fresh' \in {fresh, fresh \cup {product[d]}}
  /\ spawning' = spawning \ {d}
  /\ UNCHANGED <<taskRest, supervised, product, registered, active, alive>>

\* add_replica, and the end of the task.
AddReplica(d) ==
  LET n == product[d] IN
  /\ d \in spawning /\ n \in registered
  /\ supervised' = supervised \cup {n}
  /\ dead' = dead \ {n}
  /\ misses' = [misses EXCEPT ![n] = 0]
  /\ spawning' = spawning \ {d}
  /\ UNCHANGED <<pending, tokens, probing, consumer, lock, stopped, balancer,
                 promoting, reports, handled, lost, early, product, registered,
                 manager, alive>>

-----------------------------------------------------------------------------
(***************************************************************************)
(* Promotion, the load balancer and the manager.                            *)
(***************************************************************************)
promoteRest == <<supervised, tracker, probing, consumer, stopped, tasks, reports,
                 alive, handled, lost, early>>

\* The manager has synchronised pending replica n and asks for its admission.
AskPromotion(n) ==
  /\ n \in fresh /\ promoting[n] = "no"
  /\ promoting' = [promoting EXCEPT ![n] = "asked"]
  /\ UNCHANGED <<promoteRest, lock, balancer, manager>>

StartPromotion_unchecked(n) ==
  /\ promoting[n] = "asked" /\ lock = None /\ n \in supervised
  /\ promoting' = [promoting EXCEPT ![n] = "adding"]
  /\ lock' = n
  /\ lbCalls' = Append(lbCalls, Call("add", n))
  /\ UNCHANGED <<promoteRest, routed, manager>>
\* promote_replica gets the lock: reject a replica that is unknown or dead, or
\* send its server to the load balancer.
StartPromotion(n) ==
  /\ promoting[n] = "asked" /\ lock = None
  /\ IF n \notin supervised \/ n \in dead
     THEN /\ promoting' = [promoting EXCEPT ![n] = "no"]
          /\ UNCHANGED <<lock, lbCalls>>
     ELSE /\ promoting' = [promoting EXCEPT ![n] = "adding"]
          /\ lock' = n
          /\ lbCalls' = Append(lbCalls, Call("add", n))
  /\ UNCHANGED <<promoteRest, routed, manager>>

EndPromotion_keeping(n) ==
  /\ promoting[n] = "adding" /\ ~Queued(Call("add", n))
  /\ promoting' = [promoting EXCEPT ![n] = IF n \in dead THEN "no" ELSE "acked"]
  /\ lock' = IF n \in dead THEN lock ELSE None
  /\ UNCHANGED <<promoteRest, balancer, manager>>
\* The addition was executed; the answer is whether n is still not dead.
EndPromotion(n) ==
  /\ promoting[n] = "adding" /\ ~Queued(Call("add", n))
  /\ promoting' = [promoting EXCEPT ![n] = IF n \in dead THEN "no" ELSE "acked"]
  /\ lock' = None
  /\ UNCHANGED <<promoteRest, balancer, manager>>

\* The addition raises, executed or not; the lock is released.
PromotionFails(n) ==
  /\ CallsFail /\ promoting[n] = "adding"
  /\ promoting' = [promoting EXCEPT ![n] = "no"]
  /\ lock' = None
  /\ Lose(Call("add", n))
  /\ UNCHANGED <<promoteRest, routed, manager>>

\* The answer reaches the manager: n becomes active if it is still pending.
Publish(n) ==
  /\ promoting[n] = "acked"
  /\ promoting' = [promoting EXCEPT ![n] = "no"]
  /\ active' = active \cup ({n} \cap fresh)
  /\ fresh' = fresh \ {n}
  /\ UNCHANGED <<promoteRest, lock, balancer>>

SyncFails_unreported(r) ==
  /\ r \in active \cup fresh /\ promoting[r] = "no"
  /\ r \notin alive \/ r \in Flaky
  /\ active' = active \ {r} /\ fresh' = fresh \ {r}
  /\ UNCHANGED <<supervised, tracker, probing, consumer, lock, stopped, tasks,
                 balancer, promoting, reports, alive, handled, lost, early>>
\* A synchronisation fails at r: the manager drops and reports it.
SyncFails(r) ==
  /\ r \in active \cup fresh /\ promoting[r] = "no"
  /\ r \notin alive \/ r \in Flaky
  /\ active' = active \ {r} /\ fresh' = fresh \ {r}
  /\ reports' = reports \cup {r}
  /\ UNCHANGED <<supervised, tracker, probing, consumer, lock, stopped, tasks,
                 balancer, promoting, alive, handled, lost, early>>

\* The load balancer executes the next call of the Supervisor.
Execute ==
  LET c == Head(lbCalls) IN
  /\ lbCalls # <<>>
  /\ lbCalls' = Tail(lbCalls)
  /\ routed' = IF c.op = "add" THEN routed \cup {c.replica} ELSE routed \ {c.replica}
  /\ UNCHANGED <<promoteRest, lock, manager, promoting>>

Die(r) ==
  /\ r \in alive \cap Mortal
  /\ alive' = alive \ {r}
  /\ UNCHANGED <<supervised, tracker, probing, consumer, lock, stopped, tasks,
                 balancer, manager, promoting, reports, handled, lost, early>>

-----------------------------------------------------------------------------
Init ==
  /\ supervised = Initial
  /\ misses = [r \in Replica |-> 0]
  /\ dead = {} /\ pending = {} /\ tokens = 0 /\ probing = {}
  /\ batch = {} /\ handling = None /\ step = "idle" /\ lock = None
  /\ stopped = FALSE
  /\ spawning = {} /\ product = [r \in Replica |-> None] /\ registered = {}
  /\ routed = Initial /\ lbCalls = <<>>
  /\ active = Initial /\ fresh = {}
  /\ promoting = [r \in Replica |-> "no"] /\ reports = {}
  /\ alive = Initial /\ handled = {} /\ lost = {} /\ early = {}

Consume ==
  \/ TakeDeaths \/ RemovalDone \/ RemovalFails \/ NotifyManager \/ FinishDeath
  \/ Stop \/ CancelProbes \/ CancelConsumer
Watch(r) == ProbeOk(r) \/ ProbeMiss(r) \/ ReportFailure(r) \/ StartDeath(r)
Replace(d) ==
  \/ \E n \in Replica : Spawn(d, n)
  \/ SpawnFails(d) \/ RegisterPending(d) \/ RegistrationFails(d) \/ AddReplica(d)
Admission(n) ==
  AskPromotion(n) \/ StartPromotion(n) \/ EndPromotion(n) \/ PromotionFails(n)
    \/ Publish(n)
Next ==
  \/ Tick \/ Consume \/ Execute
  \/ \E r \in Replica : Watch(r) \/ Replace(r) \/ Admission(r) \/ SyncFails(r) \/ Die(r)
Spec == Init /\ [][Next]_vars

-----------------------------------------------------------------------------
(***************************************************************************)
(* What the Supervisor promises.                                            *)
(***************************************************************************)
TypeOK ==
  /\ supervised \subseteq Replica /\ misses \in [Replica -> 0..MissThreshold]
  /\ dead \subseteq Replica /\ pending \subseteq Replica /\ tokens \in Nat
  /\ probing \subseteq Replica /\ batch \subseteq Replica
  /\ handling \in Replica \cup {None}
  /\ step \in {"idle", "remove", "notify", "spawn"}
  /\ lock \in Replica \cup {None, Consumer}
  /\ stopped \in BOOLEAN
  /\ spawning \subseteq Replica /\ product \in [Replica -> Replica \cup {None}]
  /\ registered \subseteq Replica
  /\ routed \subseteq Replica
  /\ lbCalls \in Seq([op : {"add", "remove"}, replica : Replica])
  /\ active \subseteq Replica /\ fresh \subseteq Replica
  /\ promoting \in [Replica -> {"no", "asked", "adding", "acked"}]
  /\ reports \subseteq Replica /\ alive \subseteq Replica
  /\ handled \subseteq Replica /\ lost \subseteq Replica /\ early \subseteq Replica

\* No wake-up is lost: a death that is not in the consumer's snapshot has a
\* token in the queue, however reports, probes and the drain interleave.
NoLostDeath == stopped \/ pending \subseteq batch \/ tokens > 0

\* on_dead is final: once a death was handled, the load balancer does not
\* route to the replica, or has its removal still to execute, and no addition
\* is under way.  A promotion that raced with the death does not undo it.
HandledStaysOut ==
  \A r \in dead \ (pending \cup lost) :
    /\ ~Queued(Call("add", r))
    /\ r \in routed => Queued(Call("remove", r))

\* A replica that the manager counts as active, and that is not declared dead,
\* is routed to: a promotion is acknowledged only if it took effect.
ActiveIsRouted == \A r \in active \ dead : r \in routed

\* Every supervised replica that is not dead is a member of the manager, or its
\* report is on the way, unless it failed before the Supervisor knew it.
SupervisedIsManaged ==
  \A r \in supervised \ (dead \cup early) :
    r \in active \cup fresh \cup reports

\* What supervision, balancer and manager hold agrees.
Managed == TypeOK /\ ActiveIsRouted /\ SupervisedIsManaged

\* on_dead is called once per replica, whatever combination of missed probes
\* and reports declares it.
HandledOnce ==
  [][\A r \in handled : handling' = r => handling = r]_vars

\* Fairness: the tasks of the loop and the load balancer run; asyncio.Lock is
\* first come, first served, so the consumer gets it in spite of promotions.
Fairness ==
  /\ WF_vars(TakeDeaths \/ RemovalDone \/ NotifyManager \/ FinishDeath)
  /\ WF_vars(Execute) /\ WF_vars(\E r \in Replica : EndPromotion(r))
  /\ SF_vars(\E r \in Replica : StartDeath(r))
FairSpec == Spec /\ Fairness

\* A replica declared dead leaves the traffic.
DeadLeavesTraffic ==
  \A r \in Replica :
    r \in dead ~> r \notin routed \/ r \in lost \/ stopped
=============================================================================
