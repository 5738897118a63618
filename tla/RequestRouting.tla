---------------------------- MODULE RequestRouting ----------------------------
(***************************************************************************)
(* Requests on their way to rollout servers: the global load balancer (an   *)
(* actor that executes the calls of each of its callers in order and that   *)
(* Ray restarts from its constructor arguments), the clients that acquire a *)
(* server, call it, report its failure and try again, and the part of the   *)
(* Supervisor that removes and adds servers.                                *)
(***************************************************************************)
EXTENDS Integers, FiniteSets, Sequences, SequencesExt

CONSTANTS
  Server,       \* ids of all inference servers, present and future
  Initial,      \* the servers the load balancer is constructed with
  Request,      \* conversations; each has one generate call at a time
  Mortal,       \* bound: the servers that may die
  FullyAsync,   \* requests of a FullyAsyncLLMServerClient; the others have a RetryLLMServerClient
  MaxRetries,   \* fault_tolerance.max_request_retries
  MaxTurns,     \* bound: generate calls per conversation
  MaxRestarts,  \* restarts of the load balancer (the code allows 3)
  MaxAdmits,    \* bound: times a server is added
  CacheSize     \* DEFAULT_ROUTING_CACHE_SIZE

None == "none"

ASSUME RoutingAssumption ==
  /\ Initial \subseteq Server /\ Initial # {} /\ Mortal \subseteq Server
  /\ IsFiniteSet(Server) /\ IsFiniteSet(Request)
  /\ FullyAsync \subseteq Request
  /\ MaxRetries \in Nat /\ MaxTurns \in Nat /\ MaxRestarts \in Nat
  /\ MaxAdmits \in Nat /\ CacheSize \in Nat \ {0}
  /\ None \notin Server

VARIABLES
  \* --- _LoadBalancerCore ---
  known,      \* the keys of _server and of _inflight
  inflight,   \* _inflight, 0 for a server without an entry
  dead,       \* _dead
  sticky,     \* _sticky: request key, server, and how many entries were used since
  restarts,   \* how often the actor was restarted
  \* --- clients ---
  phase,      \* where the generate call of a conversation is
  at,         \* the server it holds
  retries,    \* retries of the present generate call
  turn,       \* generate calls made so far
  handles,    \* _server_id_to_handle beyond the initial servers
  inbox,      \* calls of a client to the load balancer, in order
  \* --- servers and Supervisor ---
  alive,      \* servers whose process runs
  admits,     \* how often the Supervisor had a server added
  control,    \* calls of the Supervisor to the load balancer, in order
  \* --- history ---
  removed,    \* servers removed by the Supervisor and not added since
  shunned,    \* servers a generate call has reported and that were not added since
  recounted   \* servers whose counter was reset while the actor lived

core    == <<known, inflight, dead, sticky>>
client  == <<phase, at, retries, turn, handles>>
world   == <<alive, admits, control>>
history == <<removed, shunned, recounted>>
vars    == <<core, restarts, client, inbox, world, history>>

Least(S) == {s \in S : \A t \in S : inflight[s] <= inflight[t]}
Routable == known \ dead

\* The request id a generate call sends: the conversation's own, or, after a
\* retry of the fully asynchronous client, a fresh one.
Key(r) == IF r \in FullyAsync /\ retries[r] > 0 THEN <<r, turn[r], retries[r]>>
                                          ELSE <<r, 0, 0>>
Cached(k) == {e.server : e \in {f \in sticky : f.key = k}}

\* An LRU cache: of the entries E, the CacheSize ones used last, by age.
Entry(k, s, n) == [key |-> k, server |-> s, age |-> n]
Rank(E, e) == Cardinality({f \in E : f.age < e.age})
Cache(E) ==
  {Entry(e.key, e.server, Rank(E, e)) : e \in {f \in E : Rank(E, f) < CacheSize}}
Touch(k, s) == Cache({e \in sticky : e.key # k} \cup {Entry(k, s, -1)})

Call(op, s) == [op |-> op, server |-> s]
Send(r, call) == [inbox EXCEPT ![r] = Append(@, call)]
Freed(r) == Append(inbox[r], Call("release", at[r]))
Receives(r, op) == inbox[r] # <<>> /\ Head(inbox[r]).op = op
Executed(r) == [inbox EXCEPT ![r] = Tail(@)]

-----------------------------------------------------------------------------
(***************************************************************************)
(* The load balancer.                                                       *)
(***************************************************************************)

\* The server a conversation sticks to, unless it is dead.  (Definitions whose
\* names end in an underscore and a word are mutations of the one that
\* follows: slips the code could contain, each breaking a property.)
Hit(r) == Cached(Key(r)) \ dead

\* acquire_server: the cached server unless it is dead, else one of the
\* routable servers with the fewest requests; with none, AllServersFailed.
Acquire(r) ==
  LET pick == IF Hit(r) # {} THEN Hit(r) ELSE Least(Routable) IN
  /\ Receives(r, "acquire")
  /\ inbox' = Executed(r)
  /\ \/ /\ pick = {}
        /\ phase' = [phase EXCEPT ![r] = "failed"]
        /\ sticky' = Cache({e \in sticky : e.key # Key(r)})
        /\ UNCHANGED <<inflight, at>>
     \/ \E s \in pick :
          /\ phase' = [phase EXCEPT ![r] = IF s \in Initial \cup handles[r]
                                           THEN "calling" ELSE "resolving"]
          /\ at' = [at EXCEPT ![r] = s]
          /\ inflight' = [inflight EXCEPT ![s] = @ + 1]
          /\ sticky' = Touch(Key(r), s)
  /\ UNCHANGED <<known, dead, restarts, retries, turn, handles, world, history>>

\* get_server_handle: a load balancer that was restarted may not know the
\* server it handed out before; the error is not one the client retries.
Resolve_waiting(r) ==
  /\ phase[r] = "resolving" /\ at[r] \in known
  /\ phase' = [phase EXCEPT ![r] = "calling"]
  /\ handles' = [handles EXCEPT ![r] = @ \cup {at[r]}]
  /\ UNCHANGED <<at, core, restarts, retries, turn, inbox, world, history>>
Resolve(r) ==
  /\ phase[r] = "resolving"
  /\ IF at[r] \in known
     THEN /\ phase' = [phase EXCEPT ![r] = "calling"]
          /\ handles' = [handles EXCEPT ![r] = @ \cup {at[r]}]
          /\ UNCHANGED at
     ELSE /\ phase' = [phase EXCEPT ![r] = "failed"]
          /\ at' = [at EXCEPT ![r] = None]
          /\ UNCHANGED handles
  /\ UNCHANGED <<core, restarts, retries, turn, inbox, world, history>>

\* release_server, lenient: unknown servers are ignored and 0 is the floor.
Release(r) ==
  LET s == Head(inbox[r]).server IN
  /\ Receives(r, "release")
  /\ inbox' = Executed(r)
  /\ inflight' = IF s \in known /\ inflight[s] > 0
                 THEN [inflight EXCEPT ![s] = @ - 1] ELSE inflight
  /\ UNCHANGED <<known, dead, sticky, restarts, client, world, history>>

\* mark_failed: no routing to the server from now on.  The client that waited
\* for the mark goes on.
MarkFailed(r) ==
  LET s == Head(inbox[r]).server IN
  /\ Receives(r, "mark")
  /\ inbox' = Executed(r)
  /\ dead' = dead \cup ({s} \cap known)
  /\ phase' = IF phase[r] = "marking" THEN [phase EXCEPT ![r] = "faulted"] ELSE phase
  /\ UNCHANGED <<known, inflight, sticky, restarts, at, retries, turn, handles,
                 world, history>>

\* add_servers: a new server, or one that was dead, starts from 0.
AddServers ==
  LET s == Head(control).server IN
  /\ control # <<>> /\ Head(control).op = "add"
  /\ control' = Tail(control)
  /\ known' = known \cup {s}
  /\ dead' = dead \ {s}
  /\ inflight' = IF s \in dead \/ s \notin known
                 THEN [inflight EXCEPT ![s] = 0] ELSE inflight
  /\ recounted' = IF s \in dead THEN recounted \cup {s} ELSE recounted
  /\ removed' = removed \ {s}
  /\ shunned' = [r \in Request |-> shunned[r] \ {s}]
  /\ UNCHANGED <<sticky, restarts, client, inbox, alive, admits>>

\* remove_servers: out of the routing, and out of the cache.
RemoveServers_cached ==
  /\ control # <<>> /\ Head(control).op = "remove"
  /\ control' = Tail(control)
  /\ sticky' = Cache({e \in sticky : e.server # Head(control).server})
  /\ removed' = removed \cup {Head(control).server}
  /\ UNCHANGED <<known, inflight, dead, restarts, client, inbox, alive, admits,
                 shunned, recounted>>
RemoveServers ==
  LET s == Head(control).server IN
  /\ control # <<>> /\ Head(control).op = "remove"
  /\ control' = Tail(control)
  /\ dead' = dead \cup ({s} \cap known)
  /\ sticky' = Cache({e \in sticky : e.server # s})
  /\ removed' = removed \cup {s}
  /\ UNCHANGED <<known, inflight, restarts, client, inbox, alive, admits,
                 shunned, recounted>>

\* The actor process dies and Ray constructs it again; calls that were not
\* answered are executed by the new one (max_restarts, max_task_retries).
Restart ==
  /\ restarts < MaxRestarts
  /\ restarts' = restarts + 1
  /\ known' = Initial /\ dead' = {} /\ sticky' = {}
  /\ inflight' = [s \in Server |-> 0]
  /\ UNCHANGED <<client, inbox, world, history>>

-----------------------------------------------------------------------------
(***************************************************************************)
(* The clients.                                                             *)
(***************************************************************************)

\* generate is called for the next turn of a conversation.
Generate(r) ==
  /\ phase[r] \in {"idle", "done"} /\ turn[r] < MaxTurns
  /\ phase' = [phase EXCEPT ![r] = "acquiring"]
  /\ turn' = [turn EXCEPT ![r] = @ + 1]
  /\ retries' = [retries EXCEPT ![r] = 0]
  /\ shunned' = [shunned EXCEPT ![r] = {}]
  /\ inbox' = Send(r, Call("acquire", None))
  /\ UNCHANGED <<core, restarts, at, handles, world, removed, recounted>>

\* The `finally' of _generate_once: release without waiting.
Leave_holding(r, next) ==
  /\ phase' = [phase EXCEPT ![r] = next]
  /\ at' = [at EXCEPT ![r] = None]
  /\ inbox' = IF next = "done" THEN Send(r, Call("release", at[r])) ELSE inbox
Leave(r, next) ==
  /\ phase' = [phase EXCEPT ![r] = next]
  /\ at' = [at EXCEPT ![r] = None]
  /\ inbox' = Send(r, Call("release", at[r]))

\* The server answers, or fails with an error that is not transient.
Return(r) ==
  /\ phase[r] = "calling"
  /\ \/ at[r] \in alive /\ Leave(r, "done")
     \/ Leave(r, "failed")
  /\ UNCHANGED <<core, restarts, retries, turn, handles, world, history>>

\* The server is gone or the call timed out: report it to the load balancer.
Fault(r) ==
  /\ phase[r] = "calling"
  /\ phase' = [phase EXCEPT ![r] = "marking"]
  /\ inbox' = Send(r, Call("mark", at[r]))
  /\ shunned' = [shunned EXCEPT ![r] = @ \cup {at[r]}]
  /\ UNCHANGED <<core, restarts, at, retries, turn, handles, world, removed,
                 recounted>>

\* The wait for the mark is bounded; the call stays sent.
MarkTimeout(r) ==
  /\ phase[r] = "marking"
  /\ phase' = [phase EXCEPT ![r] = "faulted"]
  /\ UNCHANGED <<core, restarts, at, retries, turn, handles, inbox, world, history>>

\* The server refuses a continuation of another weight version: a retry, but
\* the server is not reported.
VersionRace(r) ==
  /\ phase[r] = "calling" /\ at[r] \in alive
  /\ phase' = [phase EXCEPT ![r] = "faulted"]
  /\ UNCHANGED <<core, restarts, at, retries, turn, handles, inbox, world, history>>

\* ServerUnavailable in generate: release, then retry or give up.
Exhausted(r, n) == IF r \in FullyAsync THEN n >= MaxRetries ELSE n > MaxRetries
Retry(r) ==
  /\ phase[r] = "faulted"
  /\ retries' = [retries EXCEPT ![r] = @ + 1]
  /\ phase' = [phase EXCEPT ![r] = IF Exhausted(r, retries'[r]) THEN "exhausted"
                                                            ELSE "acquiring"]
  /\ at' = [at EXCEPT ![r] = None]
  /\ inbox' = [inbox EXCEPT ![r] =
       IF Exhausted(r, retries'[r]) THEN Freed(r) ELSE Append(Freed(r), Call("acquire", None))]
  /\ UNCHANGED <<core, restarts, turn, handles, world, history>>

\* A weight synchronisation aborts the generation: the fully asynchronous client
\* goes on with the tokens it got, on the server it acquires next.
Aborted(r) ==
  /\ r \in FullyAsync /\ phase[r] = "calling" /\ at[r] \in alive
  /\ phase' = [phase EXCEPT ![r] = "acquiring"]
  /\ at' = [at EXCEPT ![r] = None]
  /\ inbox' = [inbox EXCEPT ![r] = Append(Freed(r), Call("acquire", None))]
  /\ UNCHANGED <<core, restarts, retries, turn, handles, world, history>>

-----------------------------------------------------------------------------
(***************************************************************************)
(* Servers and Supervisor.                                                  *)
(***************************************************************************)
Die(s) ==
  /\ s \in alive \cap Mortal
  /\ alive' = alive \ {s}
  /\ UNCHANGED <<core, restarts, client, inbox, admits, control, history>>

\* on_dead of a replica, dead or declared dead, removes its server.
Isolated(s) == s \in removed \/ Call("remove", s) \in ToSet(control)
Isolate(s) ==
  /\ s \in Mortal /\ ~Isolated(s) /\ (s \in Initial \/ admits[s] > 0)
  /\ control' = Append(control, Call("remove", s))
  /\ UNCHANGED <<core, restarts, client, inbox, alive, admits, history>>

\* promote_fn adds the server of a synchronised replacement; it does so again
\* after a transaction to which the first addition was not acknowledged.
Admit(s) ==
  /\ s \in alive \ Initial /\ ~Isolated(s) /\ admits[s] < MaxAdmits
  /\ admits' = [admits EXCEPT ![s] = @ + 1]
  /\ control' = Append(control, Call("add", s))
  /\ UNCHANGED <<core, restarts, client, inbox, alive, history>>

-----------------------------------------------------------------------------
Init ==
  /\ known = Initial /\ dead = {} /\ sticky = {} /\ restarts = 0
  /\ inflight = [s \in Server |-> 0]
  /\ phase = [r \in Request |-> "idle"]
  /\ at = [r \in Request |-> None]
  /\ retries = [r \in Request |-> 0] /\ turn = [r \in Request |-> 0]
  /\ handles = [r \in Request |-> {}]
  /\ inbox = [r \in Request |-> <<>>]
  /\ alive = Server
  /\ admits = [s \in Server |-> 0]
  /\ control = <<>>
  /\ removed = {} /\ shunned = [r \in Request |-> {}] /\ recounted = {}

Balance(r) == Acquire(r) \/ Release(r) \/ MarkFailed(r) \/ Resolve(r)
Serve(r) ==
  Generate(r) \/ Return(r) \/ Fault(r) \/ MarkTimeout(r) \/ VersionRace(r) \/ Retry(r)
    \/ Aborted(r)
Next ==
  \/ \E r \in Request : Balance(r) \/ Serve(r)
  \/ \E s \in Server : Die(s) \/ Isolate(s) \/ Admit(s)
  \/ AddServers \/ RemoveServers \/ Restart
Spec == Init /\ [][Next]_vars

-----------------------------------------------------------------------------
(***************************************************************************)
(* What the routing promises.                                               *)
(***************************************************************************)
Message == [op : {"acquire", "mark", "release"}, server : Server \cup {None}]
TypeOK ==
  /\ known \subseteq Server /\ dead \subseteq known
  /\ inflight \in [Server -> Nat]
  /\ \A e \in sticky : e.server \in known /\ e.age \in Nat
  /\ IsFiniteSet(sticky) /\ Cardinality(sticky) <= CacheSize
  /\ restarts \in 0..MaxRestarts
  /\ phase \in [Request -> {"idle", "acquiring", "resolving", "calling", "marking",
                            "faulted", "done", "failed", "exhausted"}]
  /\ at \in [Request -> Server \cup {None}]
  /\ retries \in [Request -> 0..(MaxRetries + 1)]
  /\ turn \in [Request -> 0..MaxTurns]
  /\ handles \in [Request -> SUBSET Server]
  /\ inbox \in [Request -> Seq(Message)]
  /\ \A r \in Request : Len(inbox[r]) <= 3
  /\ alive \subseteq Server /\ admits \in [Server -> 0..MaxAdmits]
  /\ control \in Seq([op : {"add", "remove"}, server : Server])

\* The load balancer never counts a request that is over: the counter of a
\* server is covered by the clients at it and the releases on their way, so no
\* failure path leaks capacity.  It is exact until a reset: a restart, or the
\* addition of a server that a client had marked.
Releases(s) ==
  UNION {{<<r, i>> : i \in {j \in DOMAIN inbox[r] : inbox[r][j] = Call("release", s)}}
         : r \in Request}
Holders(s) == Cardinality({r \in Request : at[r] = s}) + Cardinality(Releases(s))
CountsCovered ==
  \A s \in Server :
    /\ inflight[s] <= Holders(s)
    /\ restarts = 0 /\ s \notin recounted => inflight[s] = Holders(s)

\* The bookkeeping of the balancer: its types and its counters.
Balanced == TypeOK /\ CountsCovered

\* As long as the actor lives, a removed server gets no request until it is
\* added again, neither from the cache nor by its low count, and a generate
\* call never goes back to a server it has reported, even when it did not wait
\* for the mark: whatever clients hold, mark or release, a retry switches.
RoutedFresh ==
  [][restarts = 0 =>
       \A r \in Request : at'[r] # at[r] => at'[r] \notin removed \cup shunned[r]]_vars

\* Fairness: the load balancer executes what it receives, the waits for it and
\* for servers are bounded, clients run; a generation is not aborted for ever,
\* since what it has produced so far shortens the rest.
Fairness ==
  /\ WF_vars(\E r \in Request : Balance(r) \/ Retry(r) \/ MarkTimeout(r))
  /\ SF_vars(\E r \in Request : Return(r) \/ Fault(r))
FairSpec == Spec /\ Fairness

\* Every generate call ends, with an answer or an error.
EveryCallEnds ==
  \A r \in Request :
    phase[r] = "acquiring" ~> phase[r] \in {"done", "failed", "exhausted"}
=============================================================================
