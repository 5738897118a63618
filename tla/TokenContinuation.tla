--------------------------- MODULE TokenContinuation ---------------------------
(***************************************************************************)
(* One generation request with token continuation: the client that loads    *)
(* the persisted prefix before every attempt and joins it to the tokens of  *)
(* the server it calls, the servers whose weights are replaced while it     *)
(* runs, and the progress store.  The client is the RetryLLMServerClient or  *)
(* the FullyAsyncLLMServerClient.                                           *)
(*                                                                         *)
(* A token is the version of the weights it was sampled with.  The store is *)
(* the latest payload that arrived (ProgressStore has its inside); saves    *)
(* arrive in order per call and may be dropped.                             *)
(***************************************************************************)
EXTENDS Integers, Sequences, FiniteSets, SequencesExt, FiniteSetsExt

CONSTANTS
  Server,
  Budget,       \* the request's token budget (original_max_tokens)
  MaxRetries,   \* fault_tolerance.max_request_retries
  MaxVersion,   \* bound: weight versions, the first being 1
  Attempts,     \* bound: calls sent
  MaxFaults     \* bound: servers that die, calls that time out while the
                \* server generates on, times the store cannot be reached, and
                \* restarts of the store's actor

ASSUME ContinuationAssumption ==
  /\ IsFiniteSet(Server) /\ Server # {}
  /\ Budget \in Nat \ {0} /\ MaxRetries \in Nat \ {0} /\ MaxVersion \in Nat \ {0}
  /\ MaxFaults \in Nat /\ Attempts \in Nat

Policy   == {"exact", "compatible", "relaxed"}
Versions == 1 .. MaxVersion
Unknown  == 0                    \* None, where a version is expected
Call     == 1 .. Attempts

VARIABLES
  kind,      \* "retry" or "async": the client's class
  mode,      \* model_version_policy.mode
  partial,   \* async_training.partial_rollout
  \* --- servers ---
  version,   \* global_steps of a server
  paused,    \* servers between abort_all_requests and resume_generation
  up,        \* servers whose process runs
  marked,    \* servers marked failed at the load balancer
  \* --- progress store ---
  saved,     \* the latest payload of the current recovery id
  faults,    \* times it could not be reached, or restarted
  lost,      \* its actor restarted: it has no configuration any more
  \* --- client ---
  pc,
  retries,
  calls,     \* calls sent so far
  cached,    \* _last_global_step
  at,        \* the server acquired
  requested, \* model_weight_version of this attempt
  ckpt,      \* the checkpoint the attempt starts from
  final,     \* final_output, with min_global_steps and max_global_steps
  \* --- calls: what a server does with them, waited for or not ---
  call,
  timeouts

config  == <<kind, mode, partial>>
servers == <<version, paused, up, marked>>
client  == <<pc, retries, calls, cached, at, requested, ckpt, final>>
vars    == <<config, servers, saved, faults, lost, client, call, timeouts>>

\* Tokens and the range of versions reported for them.
NoTokens == [toks |-> <<>>, lo |-> Unknown, hi |-> Unknown]
Joined(r, toks, v) ==       \* tokens sampled at v follow those of r
  IF toks = <<>> THEN r
  ELSE [toks |-> r.toks \o toks,
        lo |-> IF r.lo = Unknown THEN v ELSE Min({r.lo, v}),
        hi |-> IF r.hi = Unknown THEN v ELSE Max({r.hi, v})]

NoPayload == [attempt |-> 0, ver |-> Unknown, body |-> NoTokens]
NoCkpt    == [ctx |-> FALSE, attempt |-> 0, body |-> NoTokens]
NoCall    == [state |-> "none", to |-> CHOOSE s \in Server : TRUE, ctx |-> FALSE,
              attempt |-> 0, expected |-> Unknown, prefix |-> NoTokens,
              new |-> <<>>, limit |-> 0, saved |-> 0, stop |-> "none", gs |-> Unknown,
              old |-> FALSE]
Current   == call[calls]
Remaining(c) == Budget - Len(c.body.toks)

FaultsLeft == faults + timeouts + Cardinality(Server \ up) < MaxFaults

Init ==
  /\ kind \in {"retry", "async"} /\ mode \in Policy
  /\ partial \in IF kind = "async" THEN BOOLEAN ELSE {FALSE}   \* not read by "retry"
  /\ version = [s \in Server |-> 1] /\ paused = {} /\ up = Server /\ marked = {}
  /\ saved = NoPayload /\ faults = 0 /\ lost = FALSE
  /\ pc = "begin" /\ retries = 0 /\ calls = 0
  /\ cached \in IF kind = "retry" THEN {Unknown, 1} ELSE {Unknown}
  /\ at = CHOOSE s \in Server : TRUE
  /\ requested = Unknown /\ ckpt = NoCkpt /\ final = NoTokens
  /\ call = [k \in Call |-> NoCall] /\ timeouts = 0

-----------------------------------------------------------------------------
(* Before a call: a server, a version, the persisted prefix.                *)

\* ServerUnavailable: the answer so far is dropped and the request retried,
\* until the retries of the client's class are spent.
Exhausted == IF kind = "retry" THEN retries' > MaxRetries ELSE retries' >= MaxRetries
Unavailable ==
  /\ retries' = retries + 1
  /\ pc' = IF Exhausted THEN "failed" ELSE "begin"
  /\ final' = IF kind = "async" THEN NoTokens ELSE final
  /\ requested' = Unknown /\ ckpt' = NoCkpt

\* RetryLLMServerClient._weights_version: the version it saw last, else what
\* a server it knows answers.
WeightsVersion ==
  /\ kind = "retry" /\ pc = "begin"
  /\ \/ cached # Unknown /\ requested' = cached /\ UNCHANGED cached
     \/ /\ cached = Unknown /\ up # {}
        /\ \E s \in up : requested' = version[s] /\ cached' = version[s]
     \/ cached = Unknown /\ up = {} /\ requested' = Unknown /\ UNCHANGED cached
  /\ pc' = "load"
  /\ UNCHANGED <<config, servers, saved, faults, lost, call, timeouts>>
  /\ UNCHANGED <<retries, calls, at, ckpt, final>>

\* _acquire_server: none left is AllServersFailed.
Acquire ==
  /\ pc = IF kind = "retry" THEN "acquire" ELSE "begin"
  /\ \/ /\ marked # Server
        /\ \E s \in Server \ marked : at' = s
        /\ pc' = IF kind = "retry" THEN "send" ELSE "ask"
     \/ marked = Server /\ pc' = "failed" /\ UNCHANGED at
  /\ UNCHANGED <<config, servers, saved, faults, lost, call, timeouts>>
  /\ UNCHANGED <<retries, calls, cached, requested, ckpt, final>>

\* prepare_request of the fully asynchronous client asks the server it got.
AskVersion_once ==         \* the version is asked once and kept over retries
  /\ pc = "ask" /\ at \in up
  /\ requested' = IF cached = Unknown THEN version[at] ELSE cached
  /\ cached' = requested' /\ pc' = "load"
  /\ UNCHANGED <<config, servers, saved, faults, lost, call, timeouts>>
  /\ UNCHANGED <<retries, calls, at, ckpt, final>>
AskVersion ==
  /\ pc = "ask"
  /\ \/ /\ at \in up
        /\ requested' = version[at] /\ pc' = "load"
        /\ UNCHANGED <<marked, retries, final, ckpt>>
     \/ /\ at \notin up
        /\ marked' = marked \cup {at}
        /\ Unavailable
  /\ UNCHANGED <<config, version, paused, up, saved, faults, lost, call, timeouts>>
  /\ UNCHANGED <<calls, cached, at>>

\* ModelVersionPolicy.check, and for "exact" the range of the payload too.
Accepts(p) ==
  \/ mode = "relaxed"
  \/ mode = "compatible" /\ (Unknown \in {p.ver, requested} \/ p.ver = requested)
  \/ /\ mode = "exact" /\ p.ver # Unknown /\ p.ver = requested
     /\ p.body.lo = requested /\ p.body.hi = requested

Loaded ==
  IF saved # NoPayload /\ Accepts(saved)
    THEN [ctx |-> TRUE, attempt |-> saved.attempt + 1, body |-> saved.body]
    ELSE [ctx |-> TRUE, attempt |-> saved.attempt + 1, body |-> NoTokens]

\* (Names that end in an underscore and a word are slips the code could
\* contain in the definition that follows.)
\* create_or_resume.  A budget already spent is answered without a call; a
\* store out of reach is an attempt without continuation, for the
\* asynchronous client under a new recovery id.  A restarted store raises
\* RuntimeError, which is no transient fault: it ends the request.
Load ==
  /\ pc = "load"
  /\ \/ /\ ~ lost
        /\ ckpt' = Loaded
        /\ IF Remaining(Loaded) <= 0
           THEN pc' = "answered" /\ final' = Loaded.body
           ELSE /\ pc' = IF kind = "retry" THEN "acquire" ELSE "send"
                /\ final' = IF kind = "async" /\ Loaded.body # NoTokens
                            THEN Loaded.body ELSE final
        /\ UNCHANGED <<saved, faults, call>>
     \/ /\ lost
        /\ pc' = "failed"
        /\ UNCHANGED <<saved, faults, ckpt, final, call>>
     \/ /\ FaultsLeft
        /\ faults' = faults + 1
        /\ ckpt' = NoCkpt
        /\ pc' = IF kind = "retry" THEN "acquire" ELSE "send"
        /\ IF kind = "async"
           THEN /\ final' = NoTokens /\ saved' = NoPayload
                /\ call' = [k \in Call |-> [call[k] EXCEPT !.old = TRUE]]
           ELSE UNCHANGED <<final, saved, call>>
  /\ UNCHANGED <<config, servers, lost, timeouts>>
  /\ UNCHANGED <<retries, calls, cached, at, requested>>

Send ==
  /\ pc = "send" /\ calls < Attempts
  /\ calls' = calls + 1
  /\ call' = [call EXCEPT ![calls'] =
                [NoCall EXCEPT !.state = "sent", !.to = at, !.ctx = ckpt.ctx,
                               !.attempt = ckpt.attempt, !.expected = requested,
                               !.prefix = ckpt.body, !.limit = Remaining(ckpt)]]
  /\ pc' = "wait"
  /\ UNCHANGED <<config, servers, saved, faults, lost, timeouts>>
  /\ UNCHANGED <<retries, cached, at, requested, ckpt, final>>

-----------------------------------------------------------------------------
(* vLLMHttpServer.generate.                                                 *)

\* Bound: once the request has ended nothing more is followed.
Open == pc \notin {"answered", "failed"}
Is(k, state) == Open /\ k \in Call /\ call[k].state = state /\ call[k].to \in up
Set(k, c)    == call' = [call EXCEPT ![k] = c]

\* A checkpoint prepared for other weights is rejected before any token.
Start_unchecked(k) ==
  /\ Is(k, "sent")
  /\ Set(k, [call[k] EXCEPT !.state = "running"])
  /\ UNCHANGED <<config, servers, saved, faults, lost, client, timeouts>>
Start(k) ==
  /\ Is(k, "sent")
  /\ Set(k, [call[k] EXCEPT !.state =
       IF call[k].ctx /\ call[k].expected # version[call[k].to] THEN "rejected" ELSE "running"])
  /\ UNCHANGED <<config, servers, saved, faults, lost, client, timeouts>>

\* The engine samples a token, unless it is paused: it holds new requests then.
Sample(k) ==
  LET c == call[k] v == version[c.to] toks == Append(c.new, v) IN
  /\ Is(k, "running") /\ c.to \notin paused /\ Len(c.new) < c.limit
  /\ \E eos \in BOOLEAN :
       Set(k, [c EXCEPT !.new = toks,
                 !.state = IF eos \/ Len(toks) = c.limit THEN "ended" ELSE "running",
                 !.stop = IF eos \/ Len(toks) = c.limit THEN "completed" ELSE "none",
                 !.gs = v])
  /\ UNCHANGED <<config, servers, saved, faults, lost, client, timeouts>>

\* A save of the call's checkpoint arrives, the ones before it dropped or
\* stale.  The payload's range grows with each ingested chunk.
Ingested(c, n) == Joined(c.prefix, SubSeq(c.new, 1, n), c.new[n])
SaveArrives(k) ==
  LET c == call[k] IN
  /\ Open /\ c.ctx /\ ~ c.old /\ ~ lost
  /\ \E n \in c.saved + 1 .. Len(c.new) :
       /\ Set(k, [c EXCEPT !.saved = n])
       /\ saved' = IF c.attempt < saved.attempt THEN saved
                   ELSE [attempt |-> c.attempt, ver |-> c.new[n], body |-> Ingested(c, n)]
  /\ UNCHANGED <<config, servers, faults, lost, client, timeouts>>

\* The store's actor restarts.  Its new instance was never given init(), which
\* only the set-up of the job calls, and answers no save and no load.
StoreRestarts ==
  /\ Open /\ ~ lost /\ FaultsLeft
  /\ lost' = TRUE /\ faults' = faults + 1
  /\ UNCHANGED <<config, servers, saved, client, call, timeouts>>

\* A weight synchronisation aborts what the server runs, replaces the weights
\* and lets it go on.
AbortAll(s) ==
  /\ Open /\ s \in up \ paused /\ version[s] < MaxVersion
  /\ paused' = paused \cup {s}
  /\ call' = [k \in Call |-> IF call[k].state = "running" /\ call[k].to = s
                             THEN [call[k] EXCEPT !.state = "ended", !.stop = "aborted", !.gs = version[s]]
                             ELSE call[k]]
  /\ UNCHANGED <<config, version, up, marked, saved, faults, lost, client, timeouts>>
Resume(s) ==
  /\ Open /\ s \in paused
  /\ paused' = paused \ {s}
  /\ version' = [version EXCEPT ![s] = @ + 1]
  /\ UNCHANGED <<config, up, marked, saved, faults, lost, client, call, timeouts>>

Crash(s) ==
  /\ Open /\ s \in up /\ FaultsLeft
  /\ up' = up \ {s}
  /\ UNCHANGED <<config, version, paused, marked, saved, faults, lost, client, call, timeouts>>

-----------------------------------------------------------------------------
(* After a call.                                                            *)

\* The join: the checkpoint's tokens and the server's.  The version the
\* server answers with stands for all of its tokens.
Answer_last == [toks |-> ckpt.body.toks \o Current.new, lo |-> Current.gs, hi |-> Current.gs]
Answer == Joined(ckpt.body, Current.new, Current.gs)

\* The answer is final unless the call was aborted and the class resumes.
Resumes == kind = "async" /\ partial /\ Current.stop = "aborted"
Spent(r) == Len(r.toks) >= Budget
Return ==
  /\ pc = "wait" /\ Is(calls, "ended")
  /\ final' = Answer
  /\ cached' = IF kind = "retry" THEN Current.gs ELSE cached
  /\ pc' = IF Resumes /\ ~ Spent(final') THEN "begin" ELSE "answered"
  /\ requested' = Unknown /\ ckpt' = NoCkpt
  /\ UNCHANGED <<config, servers, saved, faults, lost, call, timeouts>>
  /\ UNCHANGED <<retries, calls, at>>

\* A version race is retried without marking the server.
Rejected_free ==           \* a version race costs no retry: it waits for the version
  /\ pc = "wait" /\ Is(calls, "rejected") /\ Current.expected = version[at]
  /\ Unavailable
  /\ UNCHANGED <<config, servers, saved, faults, lost, call, timeouts>>
  /\ UNCHANGED <<calls, cached, at>>
Rejected ==
  /\ pc = "wait" /\ Is(calls, "rejected")
  /\ Unavailable
  /\ UNCHANGED <<config, servers, saved, faults, lost, call, timeouts>>
  /\ UNCHANGED <<calls, cached, at>>

Faulted ==
  /\ marked' = marked \cup {at}
  /\ Unavailable
  /\ UNCHANGED <<config, version, paused, up, saved, faults, lost, call>>
  /\ UNCHANGED <<calls, cached, at>>
ServerDied  == pc = "wait" /\ Current.to \notin up /\ Faulted /\ UNCHANGED timeouts
CallTimeout == /\ pc = "wait" /\ FaultsLeft /\ Faulted
               /\ timeouts' = timeouts + 1

-----------------------------------------------------------------------------
Client ==
  \/ WeightsVersion \/ Acquire \/ AskVersion \/ Load \/ Send
  \/ Return \/ Rejected \/ ServerDied
Serving ==
  \/ \E k \in Call : Start(k) \/ Sample(k)
  \/ \E s \in Server : Resume(s)

Next ==
  \/ Client \/ CallTimeout \/ StoreRestarts
  \/ \E k \in Call : Start(k) \/ Sample(k) \/ SaveArrives(k)
  \/ \E s \in Server : AbortAll(s) \/ Resume(s) \/ Crash(s)

Spec == Init /\ [][Next]_vars

\* The client's coroutine runs, servers serve calls and syncs come to an end.
FairSpec ==
  Spec /\ WF_vars(Client \/ Serving)

-----------------------------------------------------------------------------
(* Properties.                                                              *)

Range_(r) == {r.toks[i] : i \in DOMAIN r.toks}
BodyType == [toks : BoundedSeq(Versions, Budget), lo : 0 .. MaxVersion, hi : 0 .. MaxVersion]
TypeOK ==
  /\ version \in [Server -> Versions] /\ paused \subseteq Server
  /\ up \subseteq Server /\ marked \subseteq Server
  /\ lost \in BOOLEAN
  /\ pc \in {"begin", "ask", "load", "acquire", "send", "wait", "answered", "failed"}
  /\ retries \in 0 .. MaxRetries + 1 /\ calls \in 0 .. Attempts
  /\ final \in BodyType /\ ckpt.body \in BodyType /\ saved.body \in BodyType

\* The range reported with an answer is the range of the versions its tokens
\* were really sampled with, over retries, resumed prefixes, aborts and
\* discarded branches: the trainer's importance weights rest on it.
RangeIsExact ==
  pc = "answered" /\ final.toks # <<>> =>
    /\ final.lo = Min(Range_(final)) /\ final.hi = Max(Range_(final))

\* Under "exact" a call that a server accepts continues a prefix sampled with
\* the very weights that server has at that moment, whatever synchronisation
\* came between the question for its version, the load and the call.
ExactPrefixIsCurrent ==
  [][\A k \in Call :
       mode = "exact" /\ call[k].state = "sent" /\ call'[k].state = "running" =>
         Range_(call[k].prefix) \subseteq {version[call[k].to]}]_vars

\* The budget is the request's, not the attempt's: no answer is longer.
BudgetKept == Len(final.toks) <= Budget

\* What the caller gets: an answer within its budget and its exact range.
AnswerExact == TypeOK /\ BudgetKept /\ RangeIsExact

\* How often weights have been replaced since the request began.
Syncs == Cardinality({p \in Server \X Versions : p[2] < version[p[1]]})

\* Weight synchronisation alone never fails a request of the fully
\* asynchronous client, as long as fewer servers took new weights than it has
\* retries: it asks the server it got for its version before every attempt.
SurvivesSync ==
  kind = "async" /\ up = Server /\ ~ lost /\ timeouts = 0 /\ Syncs < MaxRetries => pc # "failed"

\* A request is answered or fails: neither rejections nor aborts loop for ever.
RequestEnds == <>(pc \in {"answered", "failed"})

\* "switches to a fresh server and regenerates": as long as every server is
\* alive, no call timed out and the store lives, a synchronisation does not
\* make the request of either client fail.
HealthyRequestSucceeds ==
  up = Server /\ ~ lost /\ timeouts = 0 /\ Syncs < MaxRetries => pc # "failed"
=============================================================================
