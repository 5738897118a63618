----------------------- MODULE TokenContinuation_proofs -----------------------
(***************************************************************************)
(* Three results, for any number of servers, versions, calls, retries and    *)
(* faults: under the policy "exact" no server continues a prefix that was    *)
(* sampled with other weights than its own; an answer keeps within the       *)
(* budget and reports exactly the range of its tokens' versions; and         *)
(* synchronisations alone do not fail the fully asynchronous client.        *)
(***************************************************************************)
EXTENDS TokenContinuation, SequenceTheorems, FiniteSetTheorems, TLAPS

Pos  == Nat \ {0}
Body == [toks : Seq(Pos), lo : Nat, hi : Nat]

CallRecord ==
  [state : {"none", "sent", "running", "rejected", "ended"}, to : Server,
   ctx : BOOLEAN, attempt : Nat, expected : Nat, prefix : Body,
   new : Seq(Pos), limit : Int, saved : Nat, stop : {"none", "completed", "aborted"}, gs : Nat, old : BOOLEAN]

\* The range of a body covers its tokens.
Covers(r) ==
  \A i \in DOMAIN r.toks : 0 < r.lo /\ r.lo <= r.toks[i] /\ r.toks[i] <= r.hi

-----------------------------------------------------------------------------
(***************************************************************************)
(* The inductive invariant.                                                 *)
(***************************************************************************)

Typed ==
  /\ version \in [Server -> Pos] /\ up \subseteq Server
  /\ requested \in Nat /\ cached \in Nat /\ calls \in Nat /\ at \in Server
  /\ saved \in [attempt : Nat, ver : Nat, body : Body]
  /\ ckpt \in [ctx : BOOLEAN, attempt : Nat, body : Body]
  /\ call \in [Call -> CallRecord]

\* The attempt's prefix was loaded for the version it asks for.
CkptFollows ==
  /\ Covers(ckpt.body)
  /\ pc \in {"begin", "ask", "load"} => ckpt.body.toks = <<>>
  /\ mode = "exact" =>
       \A i \in DOMAIN ckpt.body.toks : ckpt.ctx /\ ckpt.body.toks[i] = requested

\* The prefix of a call is that of its expected version.
PrefixFollows(c) ==
  /\ Covers(c.prefix)
  /\ mode = "exact" =>
       \A i \in DOMAIN c.prefix.toks : c.ctx /\ c.prefix.toks[i] = c.expected

\* A call's own tokens are of one version: a server that takes new weights has
\* ended all calls with tokens before.
OneVersion(c) ==
  /\ c.state = "sent" => c.new = <<>>
  /\ \A i, j \in DOMAIN c.new : c.new[i] = c.new[j]
  /\ c.state = "running" =>
       \A i \in DOMAIN c.new : c.to \notin paused /\ c.new[i] = version[c.to]

CallsFollow == \A k \in Call : PrefixFollows(call[k]) /\ OneVersion(call[k])

IInv == Typed /\ Covers(saved.body) /\ CkptFollows /\ CallsFollow

-----------------------------------------------------------------------------
(***************************************************************************)
(* Bodies.                                                                  *)
(***************************************************************************)

LEMMA NoTokensCovered == NoTokens \in Body /\ Covers(NoTokens) /\ NoTokens.toks = <<>>
BY DEF NoTokens, Body, Covers, Unknown

LEMMA MinOfTwo ==
  ASSUME NEW a \in Nat, NEW b \in Nat
  PROVE  Min({a, b}) \in {a, b} /\ Min({a, b}) <= a /\ Min({a, b}) <= b
<1>1. \E x \in {a, b} : \A y \in {a, b} : x <= y
  <2>1. CASE a <= b
    BY <2>1
  <2>2. CASE b <= a
    BY <2>2
  <2> QED BY <2>1, <2>2
<1> QED BY <1>1 DEF Min

LEMMA MaxOfTwo ==
  ASSUME NEW a \in Nat, NEW b \in Nat
  PROVE  Max({a, b}) \in {a, b} /\ Max({a, b}) >= a /\ Max({a, b}) >= b
<1>1. \E x \in {a, b} : \A y \in {a, b} : x >= y
  <2>1. CASE a <= b
    BY <2>1
  <2>2. CASE b <= a
    BY <2>2
  <2> QED BY <2>1, <2>2
<1> QED BY <1>1 DEF Max

\* Tokens of one version, joined to a body whose range covers it, are covered.
LEMMA JoinedCovers ==
  ASSUME NEW r \in Body, Covers(r), NEW toks \in Seq(Pos), NEW v \in Pos,
         \A i \in DOMAIN toks : toks[i] = v
  PROVE  Joined(r, toks, v) \in Body /\ Covers(Joined(r, toks, v))
<1>1. CASE toks = <<>>
  BY <1>1 DEF Joined
<1>2. CASE toks # <<>>
  <2> DEFINE lo == IF r.lo = Unknown THEN v ELSE Min({r.lo, v})
             hi == IF r.hi = Unknown THEN v ELSE Max({r.hi, v})
             all == r.toks \o toks
  <2>1. Joined(r, toks, v) = [toks |-> all, lo |-> lo, hi |-> hi]
    BY <1>2 DEF Joined
  <2>2. r.lo \in Nat /\ r.hi \in Nat /\ v \in Nat /\ v > 0 /\ r.toks \in Seq(Pos)
    BY DEF Body, Pos
  <2>3. lo \in Nat /\ 0 < lo /\ lo <= v /\ (r.lo # 0 => lo <= r.lo)
    BY <2>2, MinOfTwo DEF Unknown
  <2>4. hi \in Nat /\ hi >= v /\ hi >= r.hi
    BY <2>2, MaxOfTwo DEF Unknown
  <2>5. all \in Seq(Pos) /\ Len(all) = Len(r.toks) + Len(toks)
    BY <2>2, ConcatProperties
  <2>6. ASSUME NEW i \in DOMAIN all PROVE lo <= all[i] /\ all[i] <= hi
    <3>1. CASE i <= Len(r.toks)
      <4>1. i \in DOMAIN r.toks /\ all[i] = r.toks[i]
        BY <2>2, <2>5, <2>6, <3>1, ConcatProperties, LenProperties
      <4>2. 0 < r.lo /\ r.lo <= r.toks[i] /\ r.toks[i] <= r.hi /\ r.toks[i] \in Nat
        BY <2>2, <4>1, ElementOfSeq DEF Covers, Pos
      <4> QED BY <2>2, <2>3, <2>4, <4>1, <4>2
    <3>2. CASE ~(i <= Len(r.toks))
      <4>1. i - Len(r.toks) \in DOMAIN toks /\ all[i] = toks[i - Len(r.toks)]
        BY <2>2, <2>5, <2>6, <3>2, ConcatProperties, LenProperties
      <4> QED BY <2>3, <2>4, <4>1
    <3> QED BY <3>1, <3>2
  <2> HIDE DEF lo, hi, all
  <2>7. Joined(r, toks, v) \in Body
    BY <2>1, <2>3, <2>4, <2>5 DEF Body
  <2>8. Covers(Joined(r, toks, v))
    BY <2>1, <2>3, <2>6 DEF Covers
  <2> QED BY <2>7, <2>8
<1> QED BY <1>1, <1>2

-----------------------------------------------------------------------------
(***************************************************************************)
(* The initial states.                                                      *)
(***************************************************************************)

LEMMA NoCallTyped ==
  /\ NoCall \in CallRecord
  /\ NoCall.new = <<>> /\ NoCall.prefix = NoTokens /\ NoCall.state = "none"
<1>1. (CHOOSE s \in Server : TRUE) \in Server
  BY ContinuationAssumption
<1>2. NoTokens \in Body
  BY NoTokensCovered
<1> QED BY <1>1, <1>2 DEF NoCall, CallRecord, Unknown

LEMMA EmptyFollows ==
  ASSUME NEW c \in CallRecord, c.new = <<>>, PrefixFollows(c)
  PROVE  OneVersion(c)
BY DEF OneVersion

\* Empty prefixes and checkpoints follow whatever is asked for.
LEMMA EmptyCkpt == Covers(NoCkpt.body) /\ NoCkpt.body.toks = <<>>
  /\ NoCkpt \in [ctx : BOOLEAN, attempt : Nat, body : Body]
BY NoTokensCovered DEF NoCkpt

LEMMA InitInvariant == Init => IInv
<1> SUFFICES ASSUME Init PROVE IInv
  OBVIOUS
<1>1. (CHOOSE s \in Server : TRUE) \in Server
  BY ContinuationAssumption
<1>2. Typed
  <2>1. saved \in [attempt : Nat, ver : Nat, body : Body]
    BY NoTokensCovered DEF Init, NoPayload, Unknown
  <2>2. call \in [Call -> CallRecord]
    BY NoCallTyped DEF Init
  <2> QED BY <1>1, <2>1, <2>2, EmptyCkpt DEF Init, Typed, Pos, Unknown
<1>3. Covers(saved.body)
  BY NoTokensCovered DEF Init, NoPayload
<1>4. CkptFollows
  BY EmptyCkpt DEF Init, CkptFollows
<1>5. CallsFollow
  <2> SUFFICES ASSUME NEW k \in Call PROVE PrefixFollows(call[k]) /\ OneVersion(call[k])
    BY DEF CallsFollow
  <2>1. call[k] = NoCall
    BY DEF Init
  <2> QED BY <2>1, NoCallTyped, NoTokensCovered DEF PrefixFollows, OneVersion
<1> QED BY <1>2, <1>3, <1>4, <1>5 DEF IInv

-----------------------------------------------------------------------------
(***************************************************************************)
(* What a step can disturb.                                                 *)
(***************************************************************************)

\* The calls and their servers stay as they are.
LEMMA CallsKept ==
  ASSUME IInv, UNCHANGED <<mode, call, version, paused>>
  PROVE  CallsFollow'
BY DEF IInv, CallsFollow, PrefixFollows, OneVersion, Covers

\* The checkpoint is dropped.
LEMMA CkptDropped ==
  ASSUME ckpt' = NoCkpt
  PROVE  CkptFollows'
BY EmptyCkpt DEF CkptFollows, Covers

\* The client does not move.
LEMMA CkptKept ==
  ASSUME IInv, UNCHANGED <<mode, client>>
  PROVE  CkptFollows'
BY DEF IInv, CkptFollows, Covers, client

\* One call changes.
LEMMA OneCallChanges ==
  ASSUME IInv, NEW k \in Call, NEW c \in CallRecord,
         UNCHANGED <<mode, version, paused>>, Set(k, c),
         PrefixFollows(c), OneVersion(c)
  PROVE  call' \in [Call -> CallRecord] /\ CallsFollow'
<1>1. call \in [Call -> CallRecord]
  BY DEF IInv, Typed
<1>2. call' = [call EXCEPT ![k] = c]
  BY DEF Set
<1>3. call' \in [Call -> CallRecord]
  BY <1>1, <1>2
<1>4. ASSUME NEW j \in Call PROVE (PrefixFollows(call[j]) /\ OneVersion(call[j]))'
  <2>1. CASE j = k
    <3>1. call'[j] = c
      BY <1>1, <1>2, <2>1
    <3> QED BY <3>1 DEF PrefixFollows, OneVersion, Covers
  <2>2. CASE j # k
    <3>1. call'[j] = call[j]
      BY <1>1, <1>2, <2>2
    <3>2. PrefixFollows(call[j]) /\ OneVersion(call[j])
      BY DEF IInv, CallsFollow
    <3> QED BY <3>1, <3>2 DEF PrefixFollows, OneVersion, Covers
  <2> QED BY <2>1, <2>2
<1> QED BY <1>3, <1>4 DEF CallsFollow

\* What create_or_resume loads under "exact" is of the version asked for.
LEMMA LoadedFollows ==
  ASSUME IInv
  PROVE  /\ Loaded \in [ctx : BOOLEAN, attempt : Nat, body : Body]
         /\ Covers(Loaded.body)
         /\ mode = "exact" =>
              \A i \in DOMAIN Loaded.body.toks :
                Loaded.ctx /\ Loaded.body.toks[i] = requested
<1>1. saved \in [attempt : Nat, ver : Nat, body : Body] /\ Covers(saved.body)
  BY DEF IInv, Typed
<1>2. CASE saved # NoPayload /\ Accepts(saved)
  <2>1. Loaded = [ctx |-> TRUE, attempt |-> saved.attempt + 1, body |-> saved.body]
    BY <1>2 DEF Loaded
  <2>2. ASSUME mode = "exact", NEW i \in DOMAIN saved.body.toks
        PROVE  saved.body.toks[i] = requested
    <3>1. saved.body.lo = requested /\ saved.body.hi = requested
      BY <1>2, <2>2 DEF Accepts
    <3>2. saved.body.toks[i] \in Nat /\ saved.body.lo \in Nat
      BY <1>1, <2>2, ElementOfSeq DEF Body, Pos
    <3> QED BY <1>1, <2>2, <3>1, <3>2 DEF Covers
  <2> QED BY <1>1, <2>1, <2>2
<1>3. CASE ~(saved # NoPayload /\ Accepts(saved))
  <2>1. Loaded = [ctx |-> TRUE, attempt |-> saved.attempt + 1, body |-> NoTokens]
    BY <1>3 DEF Loaded
  <2> QED BY <1>1, <2>1, NoTokensCovered
<1> QED BY <1>2, <1>3

-----------------------------------------------------------------------------
(***************************************************************************)
(* Every step keeps the invariant: first the ones that leave the calls as    *)
(* they are.                                                                *)
(***************************************************************************)

LEMMA ClientMovesKeep ==
  ASSUME IInv, WeightsVersion \/ Acquire \/ AskVersion \/ Return \/ Rejected
               \/ ServerDied \/ CallTimeout
  PROVE  IInv'
<1>0. CallsFollow' /\ Covers(saved.body)'
  <2>1. UNCHANGED <<mode, call, version, paused, saved>>
    BY DEF WeightsVersion, Acquire, AskVersion, Return, Rejected, ServerDied,
           CallTimeout, Faulted, config, servers
  <2> QED BY <2>1, CallsKept DEF IInv, Covers
<1>1. CASE WeightsVersion
  <2>1. Typed'
    BY <1>1 DEF IInv, Typed, WeightsVersion, config, servers, Pos, Unknown
  <2>2. CkptFollows'
    BY <1>1 DEF IInv, CkptFollows, Covers, WeightsVersion, config
  <2> QED BY <1>0, <2>1, <2>2 DEF IInv
<1>2. CASE Acquire
  <2>1. Typed'
    BY <1>2 DEF IInv, Typed, Acquire, config, servers
  <2>2. CkptFollows'
    BY <1>2 DEF IInv, CkptFollows, Covers, Acquire, config
  <2> QED BY <1>0, <2>1, <2>2 DEF IInv
<1>3. CASE AskVersion
  <2>1. CASE at \in up /\ UNCHANGED ckpt /\ requested' = version[at] /\ pc' = "load"
    <3>1. Typed'
      BY <1>3, <2>1 DEF IInv, Typed, AskVersion, config, Pos
    <3>2. CkptFollows'
      BY <1>3, <2>1 DEF IInv, CkptFollows, Covers, AskVersion, config
    <3> QED BY <1>0, <3>1, <3>2 DEF IInv
  <2>2. CASE Unavailable
    <3>1. Typed'
      BY <1>3, <2>2, EmptyCkpt DEF IInv, Typed, AskVersion, Unavailable, Unknown
    <3>2. CkptFollows'
      BY <2>2, CkptDropped DEF Unavailable
    <3> QED BY <1>0, <3>1, <3>2 DEF IInv
  <2> QED BY <1>3, <2>1, <2>2 DEF AskVersion
<1>4. CASE Return
  <2>1. calls \in Call /\ call[calls] \in CallRecord
    BY <1>4 DEF IInv, Typed, Return, Is
  <2>2. Typed'
    BY <1>4, <2>1, EmptyCkpt DEF IInv, Typed, Return, Current, CallRecord, servers, Unknown
  <2>3. CkptFollows'
    BY <1>4, CkptDropped DEF Return
  <2> QED BY <1>0, <2>2, <2>3 DEF IInv
<1>5. CASE Rejected \/ ServerDied \/ CallTimeout
  <2>1. /\ requested' = Unknown /\ ckpt' = NoCkpt
        /\ UNCHANGED <<version, up, saved, call, calls, cached, at>>
    BY <1>5 DEF Rejected, ServerDied, CallTimeout, Faulted, Unavailable, servers
  <2>2. Typed'
    BY <2>1, EmptyCkpt DEF IInv, Typed, Unknown
  <2>3. CkptFollows'
    BY <2>1, CkptDropped
  <2> QED BY <1>0, <2>2, <2>3 DEF IInv
<1> QED BY <1>1, <1>2, <1>3, <1>4, <1>5

\* The store out of reach: the asynchronous client starts a new recovery id.
LEMMA LoadKeeps == ASSUME IInv, Load PROVE IInv'
<1>0. UNCHANGED <<mode, version, paused, up, calls, cached, at, requested>>
  BY DEF Load, config, servers
<1>1. CASE ~ lost /\ ckpt' = Loaded /\ UNCHANGED <<saved, call>> /\ pc' # "load"
           /\ pc' \notin {"begin", "ask"}
  <2>1. Typed'
    BY <1>0, <1>1, LoadedFollows DEF IInv, Typed
  <2>2. CkptFollows'
    BY <1>0, <1>1, LoadedFollows DEF CkptFollows, Covers
  <2>3. CallsFollow' /\ Covers(saved.body)'
    BY <1>0, <1>1, CallsKept DEF IInv, Covers
  <2> QED BY <2>1, <2>2, <2>3 DEF IInv
<1>2. CASE lost /\ UNCHANGED <<saved, ckpt, call>>
  <2>1. Typed'
    BY <1>0, <1>2 DEF IInv, Typed
  <2>2. CkptFollows'
    BY <1>0, <1>2 DEF IInv, CkptFollows, Covers, Load
  <2>3. CallsFollow' /\ Covers(saved.body)'
    BY <1>0, <1>2, CallsKept DEF IInv, Covers
  <2> QED BY <2>1, <2>2, <2>3 DEF IInv
<1>3. CASE ckpt' = NoCkpt /\ UNCHANGED <<saved, call>>
  <2>1. Typed'
    BY <1>0, <1>3, EmptyCkpt DEF IInv, Typed
  <2>2. CkptFollows'
    BY <1>3, CkptDropped
  <2>3. CallsFollow' /\ Covers(saved.body)'
    BY <1>0, <1>3, CallsKept DEF IInv, Covers
  <2> QED BY <2>1, <2>2, <2>3 DEF IInv
<1>4. CASE ckpt' = NoCkpt /\ saved' = NoPayload
           /\ call' = [k \in Call |-> [call[k] EXCEPT !.old = TRUE]]
  <2>1. call' \in [Call -> CallRecord]
    <3>1. ASSUME NEW k \in Call PROVE [call[k] EXCEPT !.old = TRUE] \in CallRecord
      <4>1. call[k] \in CallRecord
        BY DEF IInv, Typed
      <4> QED BY <4>1 DEF CallRecord
    <3> QED BY <1>4, <3>1
  <2>2. saved' \in [attempt : Nat, ver : Nat, body : Body] /\ Covers(saved.body)'
    BY <1>4, NoTokensCovered DEF NoPayload, Unknown, Covers
  <2>3. Typed'
    BY <1>0, <1>4, <2>1, <2>2, EmptyCkpt DEF IInv, Typed
  <2>4. CallsFollow'
    <3> SUFFICES ASSUME NEW k \in Call PROVE (PrefixFollows(call[k]) /\ OneVersion(call[k]))'
      BY DEF CallsFollow
    <3>1. call[k] \in CallRecord /\ PrefixFollows(call[k]) /\ OneVersion(call[k])
      BY DEF IInv, Typed, CallsFollow
    <3>2. call'[k] = [call[k] EXCEPT !.old = TRUE]
      BY <1>4
    <3>3. /\ call'[k].prefix = call[k].prefix /\ call'[k].ctx = call[k].ctx
          /\ call'[k].expected = call[k].expected /\ call'[k].new = call[k].new
          /\ call'[k].state = call[k].state /\ call'[k].to = call[k].to
      BY <3>1, <3>2 DEF CallRecord
    <3> QED BY <1>0, <3>1, <3>3 DEF PrefixFollows, OneVersion, Covers
  <2>5. CkptFollows'
    BY <1>4, CkptDropped
  <2> QED BY <2>2, <2>3, <2>4, <2>5 DEF IInv
<1> QED BY <1>1, <1>2, <1>3, <1>4 DEF Load

-----------------------------------------------------------------------------
(***************************************************************************)
(* The steps that change one call.                                          *)
(***************************************************************************)

\* The call takes over the version asked for and the prefix loaded for it.
LEMMA SendKeeps == ASSUME IInv, Send PROVE IInv'
<1> DEFINE new == [NoCall EXCEPT !.state = "sent", !.to = at, !.ctx = ckpt.ctx,
                     !.attempt = ckpt.attempt, !.expected = requested,
                     !.prefix = ckpt.body, !.limit = Remaining(ckpt)]
<1>0. UNCHANGED <<mode, version, paused, up, saved, cached, at, requested, ckpt>>
  BY DEF Send, config, servers
<1>1. calls' = calls + 1 /\ calls' \in Nat /\ call' = [call EXCEPT ![calls'] = new] /\ pc' = "wait"
  BY DEF Send, IInv, Typed
<1>2. call \in [Call -> CallRecord] /\ ckpt.body \in Body
  BY DEF IInv, Typed
<1>3. Remaining(ckpt) \in Int
  <2>1. Len(ckpt.body.toks) \in Nat
    BY <1>2, LenProperties DEF Body
  <2> QED BY <2>1, ContinuationAssumption DEF Remaining
<1>4. /\ new \in CallRecord /\ new.state = "sent" /\ new.ctx = ckpt.ctx
      /\ new.expected = requested /\ new.prefix = ckpt.body /\ new.new = <<>>
  <2>1. ckpt.ctx \in BOOLEAN /\ ckpt.attempt \in Nat /\ requested \in Nat /\ at \in Server
    BY DEF IInv, Typed
  <2> QED BY <1>2, <1>3, <2>1, NoCallTyped DEF CallRecord
<1> HIDE DEF new
<1>5. PrefixFollows(new) /\ OneVersion(new)
  <2>1. PrefixFollows(new)
    BY <1>4 DEF IInv, CkptFollows, PrefixFollows
  <2> QED BY <1>4, <2>1, EmptyFollows
<1>6. call' \in [Call -> CallRecord] /\ CallsFollow'
  <2>1. CASE calls' \in Call
    BY <1>0, <1>1, <1>4, <1>5, <2>1, OneCallChanges DEF Set
  <2>2. CASE calls' \notin Call
    <3>1. call' = call
      BY <1>1, <1>2, <2>2
    <3> QED BY <1>0, <1>2, <3>1, CallsKept
  <2> QED BY <2>1, <2>2
<1>7. Typed'
  BY <1>0, <1>1, <1>6 DEF IInv, Typed
<1>8. CkptFollows' /\ Covers(saved.body)'
  BY <1>0, <1>1 DEF IInv, CkptFollows, Covers
<1> QED BY <1>6, <1>7, <1>8 DEF IInv

\* What is left of the invariant when one call changes.
LEMMA CallStepKeeps ==
  ASSUME IInv, UNCHANGED <<mode, servers, client>>,
         saved' \in [attempt : Nat, ver : Nat, body : Body], Covers(saved'.body),
         NEW k \in Call, NEW c \in CallRecord, Set(k, c), PrefixFollows(c), OneVersion(c)
  PROVE  IInv'
<1>1. UNCHANGED <<mode, version, paused, up, requested, cached, calls, at, ckpt, pc>>
  BY DEF servers, client
<1>2. call' \in [Call -> CallRecord] /\ CallsFollow'
  BY <1>1, OneCallChanges
<1>3. Typed'
  BY <1>1, <1>2 DEF IInv, Typed
<1>4. CkptFollows' /\ Covers(saved.body)'
  BY <1>1, CkptKept DEF Covers
<1> QED BY <1>2, <1>3, <1>4 DEF IInv

LEMMA StartKeeps == ASSUME IInv, NEW k \in Call, Start(k) PROVE IInv'
<1> DEFINE c == [call[k] EXCEPT !.state =
       IF call[k].ctx /\ call[k].expected # version[call[k].to] THEN "rejected" ELSE "running"]
<1>1. call[k] \in CallRecord /\ PrefixFollows(call[k]) /\ OneVersion(call[k])
  BY DEF IInv, Typed, CallsFollow
<1>2. /\ c \in CallRecord /\ c.state \in {"rejected", "running"}
      /\ c.new = call[k].new /\ c.prefix = call[k].prefix /\ c.ctx = call[k].ctx
      /\ c.expected = call[k].expected
  BY <1>1 DEF CallRecord
<1>3. Set(k, c) /\ call[k].state = "sent" /\ UNCHANGED <<mode, saved, servers, client>>
  BY DEF Start, Is, config
<1> HIDE DEF c
<1>4. PrefixFollows(c) /\ OneVersion(c)
  <2>1. PrefixFollows(c)
    BY <1>1, <1>2 DEF PrefixFollows
  <2>2. c.new = <<>>
    BY <1>1, <1>2, <1>3 DEF OneVersion
  <2> QED BY <1>2, <2>1, <2>2, EmptyFollows
<1>5. saved' \in [attempt : Nat, ver : Nat, body : Body] /\ Covers(saved'.body)
  BY <1>3 DEF IInv, Typed
<1> QED BY <1>2, <1>3, <1>4, <1>5, CallStepKeeps

\* A server samples with the weights that its other tokens of the call are of.
LEMMA SampleKeeps == ASSUME IInv, NEW k \in Call, Sample(k) PROVE IInv'
<1> DEFINE old == call[k]
           v == version[old.to]
           toks == Append(old.new, v)
<1>1. old \in CallRecord /\ PrefixFollows(old) /\ OneVersion(old)
  BY DEF IInv, Typed, CallsFollow
<1>2. old.state = "running" /\ old.to \notin paused /\ UNCHANGED <<mode, saved, servers, client>>
  BY DEF Sample, Is, config
<1>3. old.new \in Seq(Pos) /\ old.to \in Server /\ v \in Pos /\ v \in Nat
  BY <1>1 DEF CallRecord, IInv, Typed, Pos
<1>4. toks \in Seq(Pos) /\ \A i \in DOMAIN toks : toks[i] = v
  <2>1. toks \in Seq(Pos) /\ Len(toks) = Len(old.new) + 1
    BY <1>3, AppendProperties
  <2>2. ASSUME NEW i \in DOMAIN toks PROVE toks[i] = v
    <3>1. CASE i <= Len(old.new)
      <4>1. i \in DOMAIN old.new /\ toks[i] = old.new[i]
        BY <1>3, <2>1, <2>2, <3>1, AppendProperties, LenProperties
      <4> QED BY <1>1, <1>2, <4>1 DEF OneVersion
    <3>2. CASE ~(i <= Len(old.new))
      <4>1. i = Len(old.new) + 1
        BY <1>3, <2>1, <2>2, <3>2, LenProperties
      <4> QED BY <1>3, <4>1, AppendProperties
    <3> QED BY <3>1, <3>2
  <2> QED BY <2>1, <2>2
<1>5. PICK eos \in BOOLEAN :
        Set(k, [old EXCEPT !.new = toks,
                 !.state = IF eos \/ Len(toks) = old.limit THEN "ended" ELSE "running",
                 !.stop = IF eos \/ Len(toks) = old.limit THEN "completed" ELSE "none",
                 !.gs = v])
  BY DEF Sample
<1> DEFINE c == [old EXCEPT !.new = toks,
                 !.state = IF eos \/ Len(toks) = old.limit THEN "ended" ELSE "running",
                 !.stop = IF eos \/ Len(toks) = old.limit THEN "completed" ELSE "none",
                 !.gs = v]
<1> HIDE DEF toks, v, old
<1>6. /\ c \in CallRecord /\ c.new = toks /\ c.to = old.to /\ c.state # "sent"
      /\ c.prefix = old.prefix /\ c.ctx = old.ctx /\ c.expected = old.expected
  BY <1>1, <1>3, <1>4 DEF CallRecord
<1>7. Set(k, c)
  BY <1>5
<1> HIDE DEF c
<1>8. PrefixFollows(c)
  BY <1>1, <1>6 DEF PrefixFollows
<1>9. OneVersion(c)
  BY <1>2, <1>4, <1>6 DEF OneVersion, v
<1>10. saved' \in [attempt : Nat, ver : Nat, body : Body] /\ Covers(saved'.body)
  BY <1>2 DEF IInv, Typed
<1> QED BY <1>2, <1>6, <1>7, <1>8, <1>9, <1>10, CallStepKeeps

\* What a call saves is its prefix and tokens of one version.
LEMMA SaveKeeps == ASSUME IInv, NEW k \in Call, SaveArrives(k) PROVE IInv'
<1> DEFINE old == call[k]
<1>1. old \in CallRecord /\ PrefixFollows(old) /\ OneVersion(old)
  BY DEF IInv, Typed, CallsFollow
<1>2. /\ old.prefix \in Body /\ Covers(old.prefix) /\ old.new \in Seq(Pos)
      /\ old.saved \in Nat /\ old.attempt \in Nat
  BY <1>1 DEF CallRecord, PrefixFollows
<1>3. PICK n \in old.saved + 1 .. Len(old.new) :
        /\ Set(k, [old EXCEPT !.saved = n])
        /\ saved' = IF old.attempt < saved.attempt THEN saved
                    ELSE [attempt |-> old.attempt, ver |-> old.new[n], body |-> Ingested(old, n)]
  BY DEF SaveArrives
<1>4. UNCHANGED <<mode, servers, client>>
  BY DEF SaveArrives, config
<1> HIDE DEF old
<1>5. n \in Nat /\ n \in 1 .. Len(old.new) /\ n \in DOMAIN old.new
  BY <1>2, <1>3, LenProperties
<1>6. old.new[n] \in Pos /\ old.new[n] \in Nat
  BY <1>2, <1>5, ElementOfSeq DEF Pos
<1>7. Ingested(old, n) \in Body /\ Covers(Ingested(old, n))
  <2>1. /\ SubSeq(old.new, 1, n) \in Seq(Pos)
        /\ \A i \in DOMAIN SubSeq(old.new, 1, n) :
             i \in DOMAIN old.new /\ SubSeq(old.new, 1, n)[i] = old.new[i]
    BY <1>2, <1>5, SubSeqProperties, LenProperties
  <2>2. \A i \in DOMAIN SubSeq(old.new, 1, n) : SubSeq(old.new, 1, n)[i] = old.new[n]
    BY <1>1, <1>5, <2>1 DEF OneVersion
  <2> QED BY <1>2, <1>6, <2>1, <2>2, JoinedCovers DEF Ingested
<1>8. saved' \in [attempt : Nat, ver : Nat, body : Body] /\ Covers(saved'.body)
  BY <1>2, <1>3, <1>6, <1>7 DEF IInv, Typed
<1> DEFINE c == [old EXCEPT !.saved = n]
<1>9. /\ c \in CallRecord /\ c.new = old.new /\ c.to = old.to /\ c.state = old.state
      /\ c.prefix = old.prefix /\ c.ctx = old.ctx /\ c.expected = old.expected
  BY <1>1, <1>5 DEF CallRecord
<1>10. Set(k, c)
  BY <1>3
<1> HIDE DEF c
<1>11. PrefixFollows(c) /\ OneVersion(c)
  BY <1>1, <1>9 DEF PrefixFollows, OneVersion
<1> QED BY <1>4, <1>8, <1>9, <1>10, <1>11, CallStepKeeps

-----------------------------------------------------------------------------
(***************************************************************************)
(* The steps of the servers.                                                *)
(***************************************************************************)

\* Nothing but the servers and the calls changes.
LEMMA ServerStepKeeps ==
  ASSUME IInv, UNCHANGED <<mode, saved, client>>,
         version' \in [Server -> Pos], up' \subseteq Server,
         call' \in [Call -> CallRecord], CallsFollow'
  PROVE  IInv'
<1>1. Typed'
  BY DEF IInv, Typed, client
<1>2. CkptFollows' /\ Covers(saved.body)'
  BY CkptKept DEF IInv, Covers
<1> QED BY <1>1, <1>2 DEF IInv

\* The calls with tokens end before the server leaves its weights.
LEMMA AbortAllKeeps == ASSUME IInv, NEW s \in Server, AbortAll(s) PROVE IInv'
<1>1. /\ UNCHANGED <<mode, version, up, saved, client>> /\ paused' = paused \cup {s}
      /\ call' = [k \in Call |-> IF call[k].state = "running" /\ call[k].to = s
                   THEN [call[k] EXCEPT !.state = "ended", !.stop = "aborted", !.gs = version[s]]
                   ELSE call[k]]
  BY DEF AbortAll, config
<1>0. version' = version /\ mode' = mode /\ paused' = paused \cup {s}
  BY <1>1
<1>2. version[s] \in Nat
  BY DEF IInv, Typed, Pos
<1>3. ASSUME NEW k \in Call
      PROVE  call'[k] \in CallRecord /\ (PrefixFollows(call[k]) /\ OneVersion(call[k]))'
  <2>1. call[k] \in CallRecord /\ PrefixFollows(call[k]) /\ OneVersion(call[k])
    BY DEF IInv, Typed, CallsFollow
  <2>2. CASE call[k].state = "running" /\ call[k].to = s
    <3> DEFINE c == [call[k] EXCEPT !.state = "ended", !.stop = "aborted", !.gs = version[s]]
    <3>1. /\ c \in CallRecord /\ c.new = call[k].new /\ c.state = "ended"
          /\ c.prefix = call[k].prefix /\ c.ctx = call[k].ctx /\ c.expected = call[k].expected
      BY <1>2, <2>1 DEF CallRecord
    <3>2. call'[k] = c
      BY <1>1, <2>2
    <3> HIDE DEF c
    <3>3. PrefixFollows(call[k])'
      BY <1>0, <2>1, <3>1, <3>2 DEF PrefixFollows, Covers
    <3>4. OneVersion(call[k])'
      BY <1>0, <2>1, <3>1, <3>2 DEF OneVersion
    <3> QED BY <3>1, <3>2, <3>3, <3>4
  <2>3. CASE ~(call[k].state = "running" /\ call[k].to = s)
    <3>1. call'[k] = call[k]
      BY <1>1, <2>3
    <3>2. PrefixFollows(call[k])'
      BY <1>0, <2>1, <3>1 DEF PrefixFollows, Covers
    <3>3. OneVersion(call[k])'
      BY <1>0, <2>1, <2>3, <3>1 DEF OneVersion
    <3> QED BY <2>1, <3>1, <3>2, <3>3
  <2> QED BY <2>2, <2>3
<1>4. call' \in [Call -> CallRecord]
  BY <1>1, <1>3
<1>5. CallsFollow'
  BY <1>3 DEF CallsFollow
<1>6. version' \in [Server -> Pos] /\ up' \subseteq Server
  BY <1>1 DEF IInv, Typed
<1> QED BY <1>1, <1>4, <1>5, <1>6, ServerStepKeeps

\* A paused server runs no call that has tokens.
LEMMA ResumeKeeps == ASSUME IInv, NEW s \in Server, Resume(s) PROVE IInv'
<1>1. /\ UNCHANGED <<mode, up, saved, client, call>> /\ s \in paused
      /\ paused' = paused \ {s} /\ version' = [version EXCEPT ![s] = @ + 1]
  BY DEF Resume, config
<1>2. version \in [Server -> Pos]
  BY DEF IInv, Typed
<1>3. version' \in [Server -> Pos] /\ \A p \in Server \ {s} : version'[p] = version[p]
  BY <1>1, <1>2 DEF Pos
<1>4. ASSUME NEW k \in Call PROVE (PrefixFollows(call[k]) /\ OneVersion(call[k]))'
  <2>1. call[k] \in CallRecord /\ PrefixFollows(call[k]) /\ OneVersion(call[k])
    BY DEF IInv, Typed, CallsFollow
  <2>2. call[k].to \in Server
    BY <2>1 DEF CallRecord
  <2>3. CASE call[k].to = s
    BY <1>1, <2>1, <2>3 DEF PrefixFollows, OneVersion, Covers
  <2>4. CASE call[k].to # s
    <3>1. version'[call[k].to] = version[call[k].to]
      BY <1>3, <2>2, <2>4
    <3> QED BY <1>1, <2>1, <2>4, <3>1 DEF PrefixFollows, OneVersion, Covers
  <2> QED BY <2>3, <2>4
<1>5. CallsFollow'
  BY <1>4 DEF CallsFollow
<1>6. call' \in [Call -> CallRecord] /\ up' \subseteq Server
  BY <1>1 DEF IInv, Typed
<1> QED BY <1>1, <1>3, <1>5, <1>6, ServerStepKeeps

\* Neither a crash nor a restart of the store touches what the calls hold.
LEMMA FaultsKeep ==
  ASSUME IInv, StoreRestarts \/ \E s \in Server : Crash(s)
  PROVE  IInv'
<1>1. /\ UNCHANGED <<mode, version, paused, saved, client, call>>
      /\ up' \subseteq up
  BY DEF StoreRestarts, Crash, config, servers
<1>2. CallsFollow'
  BY <1>1, CallsKept
<1>3. version' \in [Server -> Pos] /\ up' \subseteq Server /\ call' \in [Call -> CallRecord]
  BY <1>1 DEF IInv, Typed
<1> QED BY <1>1, <1>2, <1>3, ServerStepKeeps

LEMMA StutterKeeps == ASSUME IInv, UNCHANGED vars PROVE IInv'
<1>1. /\ UNCHANGED <<mode, version, paused, up, saved, client, call>>
  BY DEF vars, config, servers
<1>2. CallsFollow'
  BY <1>1, CallsKept
<1>3. version' \in [Server -> Pos] /\ up' \subseteq Server /\ call' \in [Call -> CallRecord]
  BY <1>1 DEF IInv, Typed
<1> QED BY <1>1, <1>2, <1>3, ServerStepKeeps

LEMMA StepInvariant == IInv /\ [Next]_vars => IInv'
<1> SUFFICES ASSUME IInv, [Next]_vars PROVE IInv'
  OBVIOUS
<1>1. CASE Client
  BY <1>1, ClientMovesKeep, LoadKeeps, SendKeeps DEF Client
<1>2. CASE CallTimeout
  BY <1>2, ClientMovesKeep
<1>3. CASE StoreRestarts \/ \E s \in Server : Crash(s)
  BY <1>3, FaultsKeep
<1>4. CASE \E k \in Call : Start(k) \/ Sample(k) \/ SaveArrives(k)
  BY <1>4, StartKeeps, SampleKeeps, SaveKeeps
<1>5. CASE \E s \in Server : AbortAll(s) \/ Resume(s)
  BY <1>5, AbortAllKeeps, ResumeKeeps
<1>6. CASE UNCHANGED vars
  BY <1>6, StutterKeeps
<1> QED BY <1>1, <1>2, <1>3, <1>4, <1>5, <1>6 DEF Next

-----------------------------------------------------------------------------
(***************************************************************************)
(* The property.                                                            *)
(***************************************************************************)

CurrentPrefix ==
  \A k \in Call :
    mode = "exact" /\ call[k].state = "sent" /\ call'[k].state = "running" =>
      Range_(call[k].prefix) \subseteq {version[call[k].to]}

\* Only Start lets a call run, and it compares the version expected.
LEMMA StartChecks ==
  ASSUME IInv, [Next]_vars, NEW k \in Call,
         call[k].state = "sent", call'[k].state = "running"
  PROVE  call[k].ctx => call[k].expected = version[call[k].to]
<1>0. call \in [Call -> CallRecord] /\ call'[k] # call[k]
  BY DEF IInv, Typed
<1>1. CASE \E j \in Call : Start(j)
  <2>1. PICK j \in Call : Start(j)
    BY <1>1
  <2>2. j = k
    BY <1>0, <2>1 DEF Start, Set
  <2>3. call'[k] = [call[k] EXCEPT !.state =
          IF call[k].ctx /\ call[k].expected # version[call[k].to] THEN "rejected" ELSE "running"]
    BY <1>0, <2>1, <2>2 DEF Start, Set
  <2>4. call[k] \in CallRecord
    BY <1>0
  <2> QED BY <2>3, <2>4 DEF CallRecord
<1>2. CASE \E j \in Call : Sample(j) \/ SaveArrives(j)
  <2>1. PICK j \in Call : Sample(j) \/ SaveArrives(j)
    BY <1>2
  <2>2. j = k
    BY <1>0, <2>1 DEF Sample, SaveArrives, Set
  <2>3. ~ Sample(j)
    BY <2>2 DEF Sample, Is
  <2>4. PICK n \in Nat : call' = [call EXCEPT ![k] = [call[k] EXCEPT !.saved = n]]
    <3>1. call[k].saved \in Nat /\ Len(call[k].new) \in Nat
      BY <1>0, LenProperties DEF CallRecord
    <3> QED BY <2>1, <2>2, <2>3, <3>1 DEF SaveArrives, Set
  <2>5. call'[k].state = call[k].state
    BY <1>0, <2>4 DEF CallRecord
  <2> QED BY <2>5
<1>3. CASE Load
  <2>1. call' = [j \in Call |-> [call[j] EXCEPT !.old = TRUE]]
    BY <1>0, <1>3 DEF Load
  <2>2. call[k] \in CallRecord
    BY <1>0
  <2>3. call'[k].state = call[k].state
    BY <2>1, <2>2 DEF CallRecord
  <2> QED BY <2>3
<1>4. CASE Send
  <2>1. call'[k].state = "sent" \/ call'[k] = call[k]
    BY <1>0, <1>4 DEF Send, NoCall
  <2> QED BY <1>0, <2>1
<1>5. CASE \E s \in Server : AbortAll(s)
  BY <1>0, <1>5 DEF AbortAll
<1>6. CASE UNCHANGED call
  BY <1>0, <1>6
<1>7. CASE UNCHANGED vars
  BY <1>0, <1>7 DEF vars
<1>8. WeightsVersion \/ Acquire \/ AskVersion \/ Return \/ Rejected \/ ServerDied
      \/ CallTimeout \/ StoreRestarts \/ (\E s \in Server : Resume(s) \/ Crash(s))
      => UNCHANGED call
  BY DEF WeightsVersion, Acquire, AskVersion, Return, Rejected, ServerDied, CallTimeout,
         Faulted, StoreRestarts, Resume, Crash
<1> QED BY <1>1, <1>2, <1>3, <1>4, <1>5, <1>6, <1>7, <1>8 DEF Next, Client

LEMMA StepCurrent == IInv /\ [Next]_vars => [CurrentPrefix]_vars
<1> SUFFICES ASSUME IInv, [Next]_vars, NEW k \in Call, mode = "exact",
                    call[k].state = "sent", call'[k].state = "running",
                    NEW i \in DOMAIN call[k].prefix.toks
             PROVE  call[k].prefix.toks[i] = version[call[k].to]
  BY DEF CurrentPrefix, Range_
<1>1. call[k].ctx /\ call[k].prefix.toks[i] = call[k].expected
  BY DEF IInv, CallsFollow, PrefixFollows
<1> QED BY <1>1, StartChecks

\* Under "exact" a server never continues a prefix that was sampled with other
\* weights than its own (vLLMHttpServer.generate's check of the version the
\* checkpoint was prepared for, together with the policy's of the payload):
\* for any number of servers, versions, retries and faults.
THEOREM ExactPrefixCurrent == Spec => ExactPrefixIsCurrent
<1>1. Init => IInv
  BY InitInvariant
<1>2. IInv /\ [Next]_vars => IInv'
  BY StepInvariant
<1>3. IInv /\ [Next]_vars => [CurrentPrefix]_vars
  BY StepCurrent
<1>4. ExactPrefixIsCurrent <=> [][CurrentPrefix]_vars
  BY PTL DEF ExactPrefixIsCurrent, CurrentPrefix
<1> QED BY <1>1, <1>2, <1>3, <1>4, PTL DEF Spec
-----------------------------------------------------------------------------
(***************************************************************************)
(* The inductive invariant of the answer: bodies within the budget, with     *)
(* the range of their tokens and no wider one.                              *)
(***************************************************************************)

\* The bounds of a range are tokens of the body; a body without tokens has
\* none.
Exact(r) ==
  IF r.toks = <<>> THEN r.lo = Unknown /\ r.hi = Unknown
                   ELSE r.lo \in Range_(r) /\ r.hi \in Range_(r)

Known(toks) == \A i \in DOMAIN toks : toks[i] <= MaxVersion

Sound(r) == Exact(r) /\ Known(r.toks) /\ Len(r.toks) <= Budget

\* What a call may still sample is what its prefix has left of the budget, and
\* the version an ended call answers with is that of its tokens.
CallSound(c) ==
  /\ Sound(c.prefix) /\ Known(c.new)
  /\ Len(c.prefix.toks) + c.limit <= Budget /\ Len(c.new) <= c.limit
  /\ c.state = "ended" => \A i \in DOMAIN c.new : c.new[i] = c.gs

ServersSound ==
  /\ version \in [Server -> Versions] /\ paused \subseteq Server /\ marked \subseteq Server
  /\ lost \in BOOLEAN
  /\ \A s \in paused : version[s] < MaxVersion

ControlSound ==
  /\ pc \in {"begin", "ask", "load", "acquire", "send", "wait", "answered", "failed"}
  /\ retries \in 0 .. MaxRetries + 1 /\ (pc # "failed" => retries <= MaxRetries)
  /\ calls \in 0 .. Attempts

\* The client waits for the call that continues its checkpoint.
Waits == pc = "wait" => calls \in Call /\ call[calls].prefix = ckpt.body

BodiesSound ==
  /\ Sound(saved.body) /\ Sound(ckpt.body)
  /\ final \in Body /\ Covers(final) /\ Sound(final)

RInv ==
  /\ ServersSound /\ ControlSound /\ Waits /\ BodiesSound
  /\ \A k \in Call : CallSound(call[k])

-----------------------------------------------------------------------------
\* Nothing has gone wrong for a request of the asynchronous client.
Healthy == kind = "async" /\ up = Server /\ ~ lost /\ timeouts = 0

\* Every retry was paid for by a synchronisation that came before the version
\* was asked, and a server only moves forward from that version.
Paid ==
  /\ marked = {} /\ pc # "acquire"
  /\ retries <= Syncs /\ (pc = "failed" => retries >= MaxRetries)
  /\ pc \in {"load", "send", "wait"} =>
       requested <= version[at] /\ retries + (version[at] - requested) <= Syncs
  /\ pc = "wait" =>
       /\ call[calls].to = at /\ call[calls].expected = requested
       /\ call[calls].state = "rejected" => requested < version[at]

SyncInv == timeouts \in Nat /\ (Healthy => Paid)

-----------------------------------------------------------------------------
(***************************************************************************)
(* Sound bodies.                                                            *)
(***************************************************************************)

LEMMA NoTokensSound == NoTokens \in Body /\ Covers(NoTokens) /\ Sound(NoTokens)
<1>1. NoTokens.toks = <<>> /\ NoTokens.lo = Unknown /\ NoTokens.hi = Unknown
  BY DEF NoTokens
<1> QED BY <1>1, NoTokensCovered, ContinuationAssumption DEF Sound, Exact, Known

\* Tokens of one version, joined to a sound body, are a sound body.
LEMMA JoinedSound ==
  ASSUME NEW r \in Body, Covers(r), Sound(r), NEW toks \in Seq(Pos), NEW v \in Nat,
         \A i \in DOMAIN toks : toks[i] = v, Known(toks),
         Len(r.toks) + Len(toks) <= Budget
  PROVE  Joined(r, toks, v) \in Body /\ Covers(Joined(r, toks, v)) /\ Sound(Joined(r, toks, v))
<1>1. CASE toks = <<>>
  BY <1>1 DEF Joined
<1>2. CASE toks # <<>>
  <2> DEFINE lo == IF r.lo = Unknown THEN v ELSE Min({r.lo, v})
             hi == IF r.hi = Unknown THEN v ELSE Max({r.hi, v})
             all == r.toks \o toks
  <2>1. Joined(r, toks, v) = [toks |-> all, lo |-> lo, hi |-> hi]
    BY <1>2 DEF Joined
  <2>2. r.lo \in Nat /\ r.hi \in Nat /\ r.toks \in Seq(Pos)
    BY DEF Body
  <2>3. 1 \in DOMAIN toks /\ Len(toks) \in Nat /\ Len(toks) >= 1
    BY <1>2, EmptySeq, LenProperties
  <2>4. v = toks[1] /\ v \in Pos /\ v <= MaxVersion
    BY <2>3, ElementOfSeq DEF Known
  <2>5. /\ all \in Seq(Pos) /\ Len(all) = Len(r.toks) + Len(toks) /\ Len(r.toks) \in Nat
        /\ \A i \in 1 .. Len(all) :
             all[i] = IF i <= Len(r.toks) THEN r.toks[i] ELSE toks[i - Len(r.toks)]
    BY <2>2, ConcatProperties, LenProperties
  <2>6. DOMAIN all = 1 .. Len(all) /\ DOMAIN r.toks = 1 .. Len(r.toks)
        /\ DOMAIN toks = 1 .. Len(toks)
    BY <2>2, <2>5, LenProperties
  <2>7. \A i \in DOMAIN r.toks : i \in DOMAIN all /\ all[i] = r.toks[i]
    BY <2>3, <2>5, <2>6
  <2>8. Len(r.toks) + 1 \in DOMAIN all /\ all[Len(r.toks) + 1] = v
    BY <2>3, <2>4, <2>5, <2>6
  <2>9. \A i \in DOMAIN all : all[i] <= MaxVersion
    <3> SUFFICES ASSUME NEW i \in DOMAIN all PROVE all[i] <= MaxVersion
      OBVIOUS
    <3>1. CASE i <= Len(r.toks)
      BY <2>5, <2>6, <3>1 DEF Sound, Known
    <3>2. CASE ~(i <= Len(r.toks))
      <4>1. i - Len(r.toks) \in DOMAIN toks /\ all[i] = toks[i - Len(r.toks)]
        BY <2>3, <2>5, <2>6, <3>2
      <4> QED BY <4>1 DEF Known
    <3> QED BY <3>1, <3>2
  <2> DEFINE j == Joined(r, toks, v)
  <2>10. j.toks = all /\ j.lo = lo /\ j.hi = hi
    BY <2>1
  <2>11. Range_(r) \subseteq Range_(j) /\ v \in Range_(j)
    BY <2>7, <2>8, <2>10 DEF Range_
  <2>12. r.lo # Unknown => r.lo \in Range_(r)
    BY DEF Sound, Exact
  <2>13. r.hi # Unknown => r.hi \in Range_(r)
    BY DEF Sound, Exact
  <2>14. lo \in Range_(j)
    BY <2>2, <2>11, <2>12, MinOfTwo
  <2>15. hi \in Range_(j)
    BY <2>2, <2>11, <2>13, MaxOfTwo
  <2>16. all # <<>>
    BY <2>3, <2>5
  <2> HIDE DEF lo, hi, all
  <2>17. Exact(j)
    BY <2>10, <2>14, <2>15, <2>16 DEF Exact
  <2>18. Known(j.toks) /\ Len(j.toks) <= Budget
    BY <2>5, <2>9, <2>10 DEF Known
  <2> HIDE DEF j
  <2>19. Sound(j)
    BY <2>17, <2>18 DEF Sound
  <2>20. j \in Body /\ Covers(j)
    BY <2>4, JoinedCovers DEF j
  <2> QED BY <2>19, <2>20 DEF j
<1> QED BY <1>1, <1>2

\* What create_or_resume loads is sound, and leaves what it says of the budget.
LEMMA LoadedSound ==
  ASSUME IInv, BodiesSound
  PROVE  Loaded.body \in Body /\ Covers(Loaded.body) /\ Sound(Loaded.body)
<1>1. saved.body \in Body
  BY DEF IInv, Typed
<1>2. Loaded.body \in {saved.body, NoTokens}
  BY DEF Loaded
<1> QED BY <1>1, <1>2, NoTokensSound DEF IInv, BodiesSound

LEMMA CallParts ==
  ASSUME NEW c \in CallRecord
  PROVE  /\ c.prefix \in Body /\ c.new \in Seq(Pos) /\ c.limit \in Int /\ c.gs \in Nat
         /\ c.to \in Server /\ c.expected \in Nat /\ c.saved \in Nat
         /\ Len(c.new) \in Nat /\ c.prefix.toks \in Seq(Pos) /\ Len(c.prefix.toks) \in Nat
<1>1. c.prefix \in Body /\ c.new \in Seq(Pos)
  BY DEF CallRecord
<1>2. c.prefix.toks \in Seq(Pos)
  BY <1>1 DEF Body
<1> QED BY <1>1, <1>2, LenProperties DEF CallRecord

\* A call that keeps its prefix, its tokens and its limit stays sound, unless
\* it ends.
LEMMA CallStaysSound ==
  ASSUME NEW c, NEW d, CallSound(c),
         d.prefix = c.prefix, d.new = c.new, d.limit = c.limit,
         d.state = "ended" => c.state = "ended" /\ d.gs = c.gs
  PROVE  CallSound(d)
BY DEF CallSound

\* Neither a call nor its answer is longer than the budget.
LEMMA CallFits ==
  ASSUME NEW c \in CallRecord, CallSound(c)
  PROVE  Len(c.prefix.toks) + Len(c.new) <= Budget
<1> DEFINE p == Len(c.prefix.toks)
           n == Len(c.new)
           l == c.limit
<1>1. p \in Nat /\ n \in Nat /\ l \in Int /\ Budget \in Nat
  BY CallParts, ContinuationAssumption
<1>2. p + l <= Budget /\ n <= l
  BY DEF CallSound
<1> HIDE DEF p, n, l
<1>3. p + n <= Budget
  BY <1>1, <1>2
<1> QED BY <1>3 DEF p, n

LEMMA OneCallSound ==
  ASSUME IInv, \A k \in Call : CallSound(call[k]),
         NEW k \in Call, NEW c, Set(k, c), CallSound(c)
  PROVE  \A j \in Call : CallSound(call'[j])
<1>1. call \in [Call -> CallRecord] /\ call' = [call EXCEPT ![k] = c]
  BY DEF IInv, Typed, Set
<1>2. \A j \in Call : call'[j] = IF j = k THEN c ELSE call[j]
  BY <1>1
<1> QED BY <1>2

LEMMA InitSound == Init => RInv
<1> SUFFICES ASSUME Init PROVE RInv
  OBVIOUS
<1>1. ServersSound
  <2>1. version = [s \in Server |-> 1] /\ paused = {} /\ marked = {} /\ lost = FALSE
    BY DEF Init
  <2>2. 1 \in Versions
    BY ContinuationAssumption DEF Versions
  <2> QED BY <2>1, <2>2 DEF ServersSound
<1>2. ControlSound /\ Waits
  BY ContinuationAssumption DEF Init, ControlSound, Waits
<1>3. BodiesSound
  <2>1. saved.body = NoTokens /\ ckpt.body = NoTokens /\ final = NoTokens
    BY DEF Init, NoPayload, NoCkpt
  <2> QED BY <2>1, NoTokensSound DEF BodiesSound
<1>4. ASSUME NEW k \in Call PROVE CallSound(call[k])
  <2>1. call[k] = NoCall
    BY DEF Init
  <2>2. /\ NoCall.new = <<>> /\ NoCall.prefix = NoTokens /\ NoCall.state = "none"
        /\ NoCall.limit = 0
    BY NoCallTyped DEF NoCall
  <2>3. NoTokens.toks = <<>>
    BY NoTokensCovered
  <2> QED BY <2>1, <2>2, <2>3, NoTokensSound, ContinuationAssumption DEF CallSound, Known
<1> QED BY <1>1, <1>2, <1>3, <1>4 DEF RInv

-----------------------------------------------------------------------------
(***************************************************************************)
(* The steps of the client.                                                 *)
(***************************************************************************)

\* Neither the servers' versions nor the calls change.
LEMMA ServersKept ==
  ASSUME RInv, UNCHANGED <<version, paused, call, lost>>, marked' \subseteq Server
  PROVE  ServersSound' /\ \A k \in Call : CallSound(call'[k])
BY DEF RInv, ServersSound

LEMMA BodiesKept ==
  ASSUME RInv, UNCHANGED <<saved, ckpt, final>>
  PROVE  BodiesSound'
<1>1. Sound(saved.body)' /\ Sound(ckpt.body)'
  BY DEF RInv, BodiesSound
<1>2. (final \in Body)' /\ Covers(final)' /\ Sound(final)'
  BY DEF RInv, BodiesSound
<1> QED BY <1>1, <1>2 DEF BodiesSound

\* A failed attempt leaves no answer but the one it had, or none.
LEMMA UnavailableSound ==
  ASSUME RInv, Unavailable, pc # "failed", UNCHANGED <<saved, calls>>
  PROVE  ControlSound' /\ Waits' /\ BodiesSound'
<1>1. /\ retries' = retries + 1 /\ pc' \in {"begin", "failed"}
      /\ final' \in {NoTokens, final} /\ ckpt' = NoCkpt
      /\ pc' = "begin" => retries' <= MaxRetries
  <2>1. retries \in Nat /\ MaxRetries \in Nat
    BY ContinuationAssumption DEF RInv, ControlSound
  <2> QED BY <2>1 DEF Unavailable, Exhausted
<1>2. ControlSound'
  BY <1>1, ContinuationAssumption DEF RInv, ControlSound
<1>3. Waits'
  BY <1>1 DEF Waits
<1>4. final' \in Body /\ Covers(final') /\ Sound(final')
  BY <1>1, NoTokensSound DEF RInv, BodiesSound
<1>5. Sound(ckpt'.body) /\ Sound(saved'.body)
  BY <1>1, NoTokensSound DEF RInv, BodiesSound, NoCkpt
<1> QED BY <1>2, <1>3, <1>4, <1>5 DEF BodiesSound

LEMMA ClientSound ==
  ASSUME IInv, RInv, WeightsVersion \/ Acquire \/ AskVersion \/ Rejected \/ ServerDied \/ CallTimeout
  PROVE  RInv'
<1>1. UNCHANGED <<version, paused, call, lost, saved, calls>> /\ marked' \subseteq Server
  BY DEF WeightsVersion, Acquire, AskVersion, Rejected, ServerDied, CallTimeout, Faulted,
         servers, RInv, ServersSound, IInv, Typed
<1>2. ServersSound' /\ \A k \in Call : CallSound(call'[k])
  BY <1>1, ServersKept
<1>3. CASE Unavailable /\ pc # "failed"
  BY <1>1, <1>2, <1>3, UnavailableSound DEF RInv
<1>4. CASE UNCHANGED <<retries, ckpt, final>> /\ pc # "failed"
           /\ pc' \in {"load", "ask", "send", "failed"}
  <2>1. ControlSound'
    BY <1>1, <1>4, ContinuationAssumption DEF RInv, ControlSound
  <2>2. Waits' /\ BodiesSound'
    BY <1>1, <1>4, BodiesKept DEF Waits
  <2> QED BY <1>2, <2>1, <2>2 DEF RInv
<1> QED BY <1>3, <1>4 DEF WeightsVersion, Acquire, AskVersion, Rejected, ServerDied, CallTimeout,
           Faulted

\* A body loaded from the store, or none.
LEMMA LoadSound == ASSUME IInv, RInv, Load PROVE RInv'
<1>1. UNCHANGED <<version, paused, marked, lost, calls, retries>>
      /\ pc = "load" /\ pc' \in {"answered", "acquire", "send", "failed"}
  BY DEF Load, servers
<1>2. ControlSound' /\ Waits'
  BY <1>1, ContinuationAssumption DEF RInv, ControlSound, Waits
<1>3. /\ saved' \in {saved, NoPayload}
      /\ ckpt' \in {ckpt, Loaded, NoCkpt} /\ final' \in {final, Loaded.body, NoTokens}
      /\ \/ call' = call
         \/ call' = [k \in Call |-> [call[k] EXCEPT !.old = TRUE]]
  BY DEF Load
<1>4. Sound(saved'.body)
  BY <1>3, NoTokensSound DEF NoPayload, RInv, BodiesSound
<1>5. Sound(ckpt'.body)
  BY <1>3, NoTokensSound, LoadedSound DEF NoCkpt, RInv, BodiesSound
<1>6. final' \in Body /\ Covers(final') /\ Sound(final')
  BY <1>3, NoTokensSound, LoadedSound DEF RInv, BodiesSound
<1>7. ASSUME NEW k \in Call PROVE CallSound(call'[k])
  <2>1. call[k] \in CallRecord /\ CallSound(call[k])
    BY DEF IInv, Typed, RInv
  <2>2. CASE call' = call
    BY <2>1, <2>2
  <2>3. CASE call' = [j \in Call |-> [call[j] EXCEPT !.old = TRUE]]
    <3>1. call'[k] = [call[k] EXCEPT !.old = TRUE]
      BY <2>3
    <3>2. /\ call'[k].prefix = call[k].prefix /\ call'[k].new = call[k].new
          /\ call'[k].limit = call[k].limit /\ call'[k].state = call[k].state
          /\ call'[k].gs = call[k].gs
      BY <2>1, <3>1 DEF CallRecord
    <3> QED BY <2>1, <3>2, CallStaysSound
  <2> QED BY <1>3, <2>2, <2>3
<1>8. ServersSound'
  BY <1>1 DEF RInv, ServersSound
<1> QED BY <1>2, <1>4, <1>5, <1>6, <1>7, <1>8 DEF RInv, BodiesSound

\* A call may sample what its prefix leaves of the budget.
LEMMA SendSound == ASSUME IInv, RInv, Send PROVE RInv'
<1> DEFINE new == [NoCall EXCEPT !.state = "sent", !.to = at, !.ctx = ckpt.ctx,
                     !.attempt = ckpt.attempt, !.expected = requested,
                     !.prefix = ckpt.body, !.limit = Remaining(ckpt)]
<1>1. /\ UNCHANGED <<version, paused, marked, lost, retries, saved, ckpt, final>>
      /\ pc = "send" /\ pc' = "wait" /\ calls < Attempts /\ calls' = calls + 1
      /\ call' = [call EXCEPT ![calls'] = new]
  BY DEF Send, servers
<1>2. calls' \in Call /\ calls' \in 0 .. Attempts
  BY <1>1, ContinuationAssumption DEF RInv, ControlSound, Call
<1>3. /\ new.state = "sent" /\ new.prefix = ckpt.body /\ new.new = <<>>
      /\ new.limit = Remaining(ckpt)
  BY NoCallTyped DEF NoCall
<1> HIDE DEF new
<1>4. call \in [Call -> CallRecord] /\ ckpt.body.toks \in Seq(Pos)
  BY DEF IInv, Typed, Body
<1>5. CallSound(new)
  <2>1. Len(ckpt.body.toks) \in Nat /\ Budget \in Nat
    BY <1>4, LenProperties, ContinuationAssumption
  <2>2. Sound(ckpt.body) /\ Len(ckpt.body.toks) <= Budget
    BY DEF RInv, BodiesSound, Sound
  <2>3. Len(new.prefix.toks) + new.limit <= Budget /\ Len(new.new) <= new.limit
    BY <1>3, <2>1, <2>2 DEF Remaining
  <2> QED BY <1>3, <2>2, <2>3 DEF CallSound, Known
<1>6. \A k \in Call : CallSound(call'[k])
  BY <1>1, <1>2, <1>5, OneCallSound DEF Set, RInv
<1>7. Waits'
  <2>1. call'[calls'] = new
    BY <1>1, <1>2, <1>4
  <2> QED BY <1>1, <1>2, <1>3, <2>1 DEF Waits
<1>8. ControlSound'
  BY <1>1, <1>2, ContinuationAssumption DEF RInv, ControlSound
<1>9. BodiesSound' /\ ServersSound'
  BY <1>1, BodiesKept DEF RInv, ServersSound
<1> QED BY <1>6, <1>7, <1>8, <1>9 DEF RInv

\* The version an ended call answers with stands for all of its tokens.
LEMMA ReturnSound == ASSUME IInv, RInv, Return PROVE RInv'
<1>1. /\ UNCHANGED <<version, paused, marked, lost, saved, call, retries, calls>>
      /\ pc = "wait" /\ pc' \in {"begin", "answered"} /\ ckpt' = NoCkpt /\ final' = Answer
      /\ calls \in Call /\ call[calls].state = "ended"
  BY DEF Return, Is, servers
<1>2. /\ call[calls] \in CallRecord /\ CallSound(call[calls])
      /\ call[calls].prefix = ckpt.body
  BY <1>1 DEF IInv, Typed, RInv, Waits
<1> DEFINE c == call[calls]
<1> HIDE DEF c
<1>3. /\ c.new \in Seq(Pos) /\ c.gs \in Nat /\ Len(c.new) \in Nat /\ c.limit \in Int
      /\ Len(c.prefix.toks) \in Nat
  BY <1>2, CallParts DEF c
<1>4. /\ ckpt.body \in Body /\ Covers(ckpt.body) /\ Sound(ckpt.body)
  BY DEF IInv, Typed, CkptFollows, RInv, BodiesSound
<1>5. /\ \A i \in DOMAIN c.new : c.new[i] = c.gs
      /\ Known(c.new) /\ Len(ckpt.body.toks) + Len(c.new) <= Budget
  <2>1. CallSound(c) /\ c.state = "ended" /\ c.prefix = ckpt.body
    BY <1>1, <1>2 DEF c
  <2>2. (\A i \in DOMAIN c.new : c.new[i] = c.gs) /\ Known(c.new)
    BY <2>1 DEF CallSound
  <2>3. Len(c.prefix.toks) + Len(c.new) <= Budget
    BY <1>2, <2>1, CallFits DEF c
  <2> QED BY <2>1, <2>2, <2>3
<1>6. Answer = Joined(ckpt.body, c.new, c.gs)
  BY DEF Answer, Current, c
<1>7. Answer \in Body /\ Covers(Answer) /\ Sound(Answer)
  BY <1>3, <1>4, <1>5, <1>6, JoinedSound
<1>8. Sound(ckpt'.body) /\ Sound(saved'.body)
  BY <1>1, NoTokensSound DEF RInv, BodiesSound, NoCkpt
<1>9. ControlSound' /\ Waits'
  BY <1>1, ContinuationAssumption DEF RInv, ControlSound, Waits
<1>10. ServersSound' /\ \A k \in Call : CallSound(call'[k])
  BY <1>1, ServersKept DEF RInv, ServersSound
<1> QED BY <1>1, <1>7, <1>8, <1>9, <1>10 DEF RInv, BodiesSound

-----------------------------------------------------------------------------
(***************************************************************************)
(* The steps of the servers and of the store.                               *)
(***************************************************************************)

\* The client stands still, and no call changes its prefix.
LEMMA ServingSound ==
  ASSUME RInv, UNCHANGED client, ServersSound', Sound(saved'.body),
         \A k \in Call : CallSound(call'[k]) /\ call'[k].prefix = call[k].prefix
  PROVE  RInv'
<1>0. UNCHANGED <<pc, retries, calls, ckpt, final>>
  BY DEF client
<1>1. ControlSound'
  BY <1>0 DEF RInv, ControlSound
<1>2. Waits'
  BY <1>0 DEF RInv, Waits
<1>3. Sound(ckpt'.body) /\ final' \in Body /\ Covers(final') /\ Sound(final')
  BY <1>0 DEF RInv, BodiesSound
<1> QED BY <1>1, <1>2, <1>3 DEF RInv, BodiesSound

\* One call changes: it keeps its prefix.
LEMMA OneCallServes ==
  ASSUME IInv, RInv, UNCHANGED <<client, servers, lost>>, Sound(saved'.body),
         NEW k \in Call, NEW c, Set(k, c), CallSound(c), c.prefix = call[k].prefix
  PROVE  RInv'
<1>1. \A j \in Call : CallSound(call'[j])
  BY OneCallSound DEF RInv
<1>2. \A j \in Call : call'[j].prefix = call[j].prefix
  <2>1. call \in [Call -> CallRecord] /\ call' = [call EXCEPT ![k] = c]
    BY DEF IInv, Typed, Set
  <2>2. \A j \in Call : call'[j] = IF j = k THEN c ELSE call[j]
    BY <2>1
  <2> QED BY <2>2
<1>3. ServersSound'
  BY DEF RInv, ServersSound, servers
<1> QED BY <1>1, <1>2, <1>3, ServingSound

LEMMA StartSound == ASSUME IInv, RInv, NEW k \in Call, Start(k) PROVE RInv'
<1> DEFINE c == [call[k] EXCEPT !.state =
       IF call[k].ctx /\ call[k].expected # version[call[k].to] THEN "rejected" ELSE "running"]
<1>1. call[k] \in CallRecord /\ CallSound(call[k])
  BY DEF IInv, Typed, RInv
<1>2. /\ c.prefix = call[k].prefix /\ c.new = call[k].new /\ c.limit = call[k].limit
      /\ c.state # "ended"
  BY <1>1 DEF CallRecord
<1>3. Set(k, c) /\ UNCHANGED <<client, servers, lost, saved>>
  BY DEF Start
<1> HIDE DEF c
<1>4. CallSound(c) /\ Sound(saved'.body)
  BY <1>1, <1>2, <1>3, CallStaysSound DEF RInv, BodiesSound
<1> QED BY <1>2, <1>3, <1>4, OneCallServes

\* One token more, of the version that the others of the call are of.
LEMMA SampleSound == ASSUME IInv, RInv, NEW k \in Call, Sample(k) PROVE RInv'
<1> DEFINE old == call[k]
           v == version[old.to]
           toks == Append(old.new, v)
<1>1. old \in CallRecord /\ OneVersion(old) /\ CallSound(old)
  BY DEF IInv, Typed, CallsFollow, RInv
<1>2. PICK eos \in BOOLEAN :
        Set(k, [old EXCEPT !.new = toks,
                 !.state = IF eos \/ Len(toks) = old.limit THEN "ended" ELSE "running",
                 !.stop = IF eos \/ Len(toks) = old.limit THEN "completed" ELSE "none",
                 !.gs = v])
  BY DEF Sample
<1>3. /\ old.state = "running" /\ Len(old.new) < old.limit
      /\ UNCHANGED <<client, servers, lost, saved>>
  BY DEF Sample, Is
<1> HIDE DEF old
<1>4. /\ old.new \in Seq(Pos) /\ old.to \in Server /\ Len(old.new) \in Nat
      /\ old.limit \in Int
  BY <1>1, CallParts
<1>5. v \in Pos /\ v <= MaxVersion
  <2>1. version[old.to] \in Versions /\ version[old.to] \in Pos
    BY <1>4 DEF RInv, ServersSound, IInv, Typed
  <2> QED BY <2>1, ContinuationAssumption DEF Versions
<1> HIDE DEF v
<1>6. /\ toks \in Seq(Pos) /\ Len(toks) = Len(old.new) + 1
      /\ \A i \in 1 .. Len(old.new) : toks[i] = old.new[i]
      /\ toks[Len(old.new) + 1] = v
  BY <1>4, <1>5, AppendProperties
<1>7. \A i \in DOMAIN toks : toks[i] = v
  <2> SUFFICES ASSUME NEW i \in DOMAIN toks PROVE toks[i] = v
    OBVIOUS
  <2>1. i \in 1 .. Len(old.new) + 1 /\ DOMAIN old.new = 1 .. Len(old.new)
    BY <1>4, <1>6, LenProperties
  <2>2. CASE i \in 1 .. Len(old.new)
    BY <1>1, <1>3, <1>6, <2>1, <2>2 DEF OneVersion, v
  <2>3. CASE i = Len(old.new) + 1
    BY <1>6, <2>3
  <2> QED BY <1>4, <2>1, <2>2, <2>3
<1>8. Len(toks) <= old.limit
  BY <1>3, <1>4, <1>6
<1> HIDE DEF toks
<1> DEFINE c == [old EXCEPT !.new = toks,
                 !.state = IF eos \/ Len(toks) = old.limit THEN "ended" ELSE "running",
                 !.stop = IF eos \/ Len(toks) = old.limit THEN "completed" ELSE "none",
                 !.gs = v]
<1>9. c.prefix = old.prefix /\ c.new = toks /\ c.limit = old.limit /\ c.gs = v
  BY <1>1 DEF CallRecord
<1>10. Set(k, c)
  BY <1>2
<1> HIDE DEF c
<1>11. CallSound(c)
  <2>1. Known(c.new)
    BY <1>5, <1>7, <1>9 DEF Known
  <2> QED BY <1>1, <1>7, <1>8, <1>9, <2>1 DEF CallSound
<1>12. Sound(saved'.body)
  BY <1>3 DEF RInv, BodiesSound
<1> QED BY <1>3, <1>9, <1>10, <1>11, <1>12, OneCallServes DEF old

\* A payload is the prefix and a beginning of the call's tokens.
LEMMA SaveSound == ASSUME IInv, RInv, NEW k \in Call, SaveArrives(k) PROVE RInv'
<1> DEFINE old == call[k]
<1>1. /\ old \in CallRecord /\ PrefixFollows(old) /\ OneVersion(old) /\ CallSound(old)
  BY DEF IInv, Typed, CallsFollow, RInv
<1>2. PICK n \in old.saved + 1 .. Len(old.new) :
        /\ Set(k, [old EXCEPT !.saved = n])
        /\ saved' = IF old.attempt < saved.attempt THEN saved
                    ELSE [attempt |-> old.attempt, ver |-> old.new[n], body |-> Ingested(old, n)]
  BY DEF SaveArrives
<1>3. UNCHANGED <<client, servers, lost>>
  BY DEF SaveArrives
<1> HIDE DEF old
<1>4. /\ old.prefix \in Body /\ old.new \in Seq(Pos) /\ Len(old.new) \in Nat
      /\ old.saved \in Nat /\ Len(old.prefix.toks) \in Nat /\ DOMAIN old.new = 1 .. Len(old.new)
  BY <1>1, CallParts, LenProperties
<1>5. Covers(old.prefix) /\ Sound(old.prefix) /\ Known(old.new)
  BY <1>1 DEF PrefixFollows, CallSound
<1>6. n \in Nat /\ 1 <= n /\ n <= Len(old.new) /\ n \in DOMAIN old.new
  BY <1>2, <1>4
<1>7. old.new[n] \in Nat
  BY <1>4, <1>6, ElementOfSeq DEF Pos
<1> DEFINE part == SubSeq(old.new, 1, n)
<1>8. /\ part \in Seq(Pos) /\ Len(part) = n
      /\ \A i \in DOMAIN part : i \in DOMAIN old.new /\ part[i] = old.new[i]
  BY <1>4, <1>6, SubSeqProperties, LenProperties
<1> HIDE DEF part
<1>9. /\ \A i \in DOMAIN part : part[i] = old.new[n]
      /\ Known(part)
  BY <1>1, <1>5, <1>6, <1>8 DEF OneVersion, Known
<1>10. Len(old.prefix.toks) + Len(part) <= Budget
  <2>1. Len(old.prefix.toks) + Len(old.new) <= Budget
    BY <1>1, CallFits
  <2> DEFINE p == Len(old.prefix.toks)
             m == Len(old.new)
  <2>2. p \in Nat /\ m \in Nat /\ n \in Nat /\ n <= m /\ p + m <= Budget /\ Budget \in Nat
    BY <1>4, <1>6, <2>1, ContinuationAssumption
  <2> HIDE DEF p, m
  <2>3. p + n <= Budget
    BY <2>2
  <2> QED BY <1>8, <2>3 DEF p
<1>11. Sound(Ingested(old, n))
  BY <1>4, <1>5, <1>7, <1>8, <1>9, <1>10, JoinedSound DEF Ingested, part
<1>12. Sound(saved'.body)
  BY <1>2, <1>11 DEF RInv, BodiesSound
<1> DEFINE c == [old EXCEPT !.saved = n]
<1>13. /\ c.prefix = old.prefix /\ c.new = old.new /\ c.limit = old.limit
       /\ c.state = old.state /\ c.gs = old.gs
  BY <1>1 DEF CallRecord
<1>14. Set(k, c)
  BY <1>2
<1> HIDE DEF c
<1>15. CallSound(c)
  BY <1>1, <1>13, CallStaysSound
<1> QED BY <1>3, <1>12, <1>13, <1>14, <1>15, OneCallServes DEF old

\* A call that is aborted answers with the version its server has until then.
LEMMA AbortAllSound == ASSUME IInv, RInv, NEW s \in Server, AbortAll(s) PROVE RInv'
<1>1. /\ UNCHANGED <<version, marked, lost, saved, client>>
      /\ paused' = paused \cup {s} /\ version[s] < MaxVersion
      /\ call' = [k \in Call |-> IF call[k].state = "running" /\ call[k].to = s
                   THEN [call[k] EXCEPT !.state = "ended", !.stop = "aborted", !.gs = version[s]]
                   ELSE call[k]]
  BY DEF AbortAll
<1>2. ASSUME NEW k \in Call PROVE CallSound(call'[k]) /\ call'[k].prefix = call[k].prefix
  <2>1. call[k] \in CallRecord /\ CallSound(call[k]) /\ OneVersion(call[k])
    BY DEF IInv, Typed, CallsFollow, RInv
  <2>2. CASE call[k].state = "running" /\ call[k].to = s
    <3> DEFINE c == [call[k] EXCEPT !.state = "ended", !.stop = "aborted", !.gs = version[s]]
    <3>1. /\ c.prefix = call[k].prefix /\ c.new = call[k].new /\ c.limit = call[k].limit
          /\ c.gs = version[s]
      BY <2>1 DEF CallRecord
    <3>2. call'[k] = c
      BY <1>1, <2>2
    <3> HIDE DEF c
    <3>3. \A i \in DOMAIN c.new : c.new[i] = c.gs
      BY <2>1, <2>2, <3>1 DEF OneVersion
    <3>4. CallSound(c)
      BY <2>1, <3>1, <3>3 DEF CallSound
    <3> QED BY <3>1, <3>2, <3>4
  <2>3. CASE ~(call[k].state = "running" /\ call[k].to = s)
    BY <1>1, <2>1, <2>3
  <2> QED BY <2>2, <2>3
<1>3. ServersSound'
  BY <1>1 DEF RInv, ServersSound
<1>4. Sound(saved'.body)
  BY <1>1 DEF RInv, BodiesSound
<1> QED BY <1>1, <1>2, <1>3, <1>4, ServingSound

\* The servers, or nothing, change.
LEMMA OthersSound ==
  ASSUME IInv, RInv,
         StoreRestarts \/ (\E s \in Server : Resume(s) \/ Crash(s)) \/ UNCHANGED vars
  PROVE  RInv'
<1>1. UNCHANGED <<client, call, saved, marked>> /\ lost' \in BOOLEAN
  BY DEF StoreRestarts, Resume, Crash, vars, servers, RInv, ServersSound
<1>2. ServersSound'
  <2>1. CASE \E s \in Server : Resume(s)
    <3>1. PICK s \in Server : Resume(s)
      BY <2>1
    <3>2. s \in paused /\ paused' = paused \ {s} /\ version' = [version EXCEPT ![s] = @ + 1]
      BY <3>1 DEF Resume
    <3>3. version \in [Server -> Versions] /\ version[s] < MaxVersion
      BY <3>2 DEF RInv, ServersSound
    <3>4. version[s] + 1 \in Versions
      BY <3>3, ContinuationAssumption DEF Versions
    <3>5. version' \in [Server -> Versions] /\ \A p \in Server \ {s} : version'[p] = version[p]
      BY <3>2, <3>3, <3>4
    <3> QED BY <1>1, <3>2, <3>5 DEF RInv, ServersSound
  <2>2. CASE UNCHANGED <<version, paused>>
    BY <1>1, <2>2 DEF RInv, ServersSound
  <2>3. StoreRestarts \/ UNCHANGED vars \/ (\E s \in Server : Crash(s))
        => UNCHANGED <<version, paused>>
    BY DEF StoreRestarts, Crash, vars, servers
  <2> QED BY <2>1, <2>2, <2>3
<1>3. Sound(saved'.body)
  BY <1>1 DEF RInv, BodiesSound
<1>4. \A k \in Call : CallSound(call'[k]) /\ call'[k].prefix = call[k].prefix
  BY <1>1 DEF RInv
<1> QED BY <1>1, <1>2, <1>3, <1>4, ServingSound

LEMMA StepSound == IInv /\ RInv /\ [Next]_vars => RInv'
<1> SUFFICES ASSUME IInv, RInv, [Next]_vars PROVE RInv'
  OBVIOUS
<1>1. CASE Client
  BY <1>1, ClientSound, LoadSound, SendSound, ReturnSound DEF Client
<1>2. CASE CallTimeout
  BY <1>2, ClientSound
<1>3. CASE StoreRestarts \/ (\E s \in Server : Resume(s) \/ Crash(s)) \/ UNCHANGED vars
  BY <1>3, OthersSound
<1>4. CASE \E k \in Call : Start(k) \/ Sample(k) \/ SaveArrives(k)
  BY <1>4, StartSound, SampleSound, SaveSound
<1>5. CASE \E s \in Server : AbortAll(s)
  BY <1>5, AbortAllSound
<1> QED BY <1>1, <1>2, <1>3, <1>4, <1>5 DEF Next

-----------------------------------------------------------------------------
(***************************************************************************)
(* The answer.                                                              *)
(***************************************************************************)

LEMMA SoundTyped ==
  ASSUME NEW r \in Body, Sound(r)
  PROVE  r \in BodyType
<1>1. r = [toks |-> r.toks, lo |-> r.lo, hi |-> r.hi] /\ r.toks \in Seq(Pos)
      /\ r.lo \in Nat /\ r.hi \in Nat
  BY DEF Body
<1>2. \A i \in DOMAIN r.toks : r.toks[i] \in Versions
  <2> SUFFICES ASSUME NEW i \in DOMAIN r.toks PROVE r.toks[i] \in Versions
    OBVIOUS
  <2>1. r.toks[i] \in Pos
    BY <1>1, ElementOfSeq
  <2>2. r.toks[i] <= MaxVersion
    BY DEF Sound, Known
  <2> QED BY <2>1, <2>2, ContinuationAssumption DEF Versions, Pos
<1>3. Len(r.toks) \in Nat /\ Len(r.toks) <= Budget /\ Budget \in Nat
  BY <1>1, LenProperties, ContinuationAssumption DEF Sound
<1>4. Len(r.toks) \in 0 .. Budget
  BY <1>3
<1>5. r.toks \in [1 .. Len(r.toks) -> Versions]
  BY <1>1, <1>2, LenProperties
<1>6. r.toks \in BoundedSeq(Versions, Budget)
  BY <1>4, <1>5 DEF BoundedSeq, SeqOf
<1>7. r.lo \in 0 .. MaxVersion /\ r.hi \in 0 .. MaxVersion
  <2>1. Range_(r) \subseteq Versions
    BY <1>2 DEF Range_
  <2>2. r.lo \in Versions \cup {0} /\ r.hi \in Versions \cup {0}
    BY <2>1 DEF Sound, Exact, Unknown
  <2> QED BY <2>2, ContinuationAssumption DEF Versions
<1> QED BY <1>1, <1>6, <1>7 DEF BodyType

\* A token that is a bound of all is the least, or the greatest.
LEMMA BoundIsExtreme ==
  ASSUME NEW r \in Body, Covers(r), Sound(r), r.toks # <<>>
  PROVE  r.lo = Min(Range_(r)) /\ r.hi = Max(Range_(r))
<1>1. r.lo \in Range_(r) /\ r.hi \in Range_(r)
  BY DEF Sound, Exact
<1>2. Range_(r) \subseteq Nat
  <2> SUFFICES ASSUME NEW i \in DOMAIN r.toks PROVE r.toks[i] \in Nat
    BY DEF Range_
  <2>1. r.toks \in Seq(Pos)
    BY DEF Body
  <2> QED BY <2>1, ElementOfSeq DEF Pos
<1>3. \A x \in Range_(r) : r.lo <= x /\ x <= r.hi
  BY DEF Covers, Range_
<1>4. r.lo = Min(Range_(r))
  <2> DEFINE m == Min(Range_(r))
  <2>1. m \in Range_(r) /\ m <= r.lo
    BY <1>1, <1>3 DEF Min
  <2> HIDE DEF m
  <2>2. r.lo <= m /\ m \in Nat /\ r.lo \in Nat
    BY <1>1, <1>2, <1>3, <2>1
  <2> QED BY <2>1, <2>2 DEF m
<1>5. r.hi = Max(Range_(r))
  <2> DEFINE m == Max(Range_(r))
  <2>1. m \in Range_(r) /\ m >= r.hi
    <3>1. \A x \in Range_(r) : r.hi >= x
      BY <1>1, <1>2, <1>3
    <3> QED BY <1>1, <3>1 DEF Max
  <2> HIDE DEF m
  <2>2. m <= r.hi /\ m \in Nat /\ r.hi \in Nat
    BY <1>1, <1>2, <1>3, <2>1
  <2> QED BY <2>1, <2>2 DEF m
<1> QED BY <1>4, <1>5

LEMMA AnswerFollows == IInv /\ RInv => AnswerExact
<1> SUFFICES ASSUME IInv, RInv PROVE AnswerExact
  OBVIOUS
<1>1. /\ final \in Body /\ Covers(final) /\ Sound(final)
      /\ ckpt.body \in Body /\ Sound(ckpt.body) /\ saved.body \in Body /\ Sound(saved.body)
  BY DEF IInv, Typed, RInv, BodiesSound
<1>2. TypeOK
  BY <1>1, SoundTyped DEF IInv, Typed, RInv, ServersSound, ControlSound, TypeOK
<1>3. BudgetKept
  BY <1>1 DEF Sound, BudgetKept
<1>4. RangeIsExact
  BY <1>1, BoundIsExtreme DEF RangeIsExact
<1> QED BY <1>2, <1>3, <1>4 DEF AnswerExact

\* An answer stays within the request's budget, and the range of versions
\* reported with it is exactly the range of the versions its tokens were
\* sampled with (the joins of the clients and of ProgressCheckpoint.ingest):
\* for any number of servers, versions, calls and faults.
THEOREM AnswerIsExact == Spec => []AnswerExact
<1>1. Init => IInv /\ RInv
  BY InitInvariant, InitSound
<1>2. IInv /\ RInv /\ [Next]_vars => IInv' /\ RInv'
  BY StepInvariant, StepSound
<1>3. IInv /\ RInv => AnswerExact
  BY AnswerFollows
<1> QED BY <1>1, <1>2, <1>3, PTL DEF Spec

-----------------------------------------------------------------------------
(***************************************************************************)
(* Synchronisations and retries.                                            *)
(***************************************************************************)

Replaced == {p \in Server \X Versions : p[2] < version[p[1]]}

LEMMA SyncsCounted ==
  ASSUME RInv
  PROVE  IsFiniteSet(Replaced) /\ Syncs = Cardinality(Replaced) /\ Syncs \in Nat
<1>1. IsFiniteSet(Versions) /\ IsFiniteSet(Server)
  <2>1. 1 \in Int /\ MaxVersion \in Int
    BY ContinuationAssumption
  <2> QED BY <2>1, FS_Interval, ContinuationAssumption DEF Versions
<1>2. IsFiniteSet(Server \X Versions)
  BY <1>1, FS_Product
<1>3. IsFiniteSet(Replaced)
  BY <1>2, FS_Subset DEF Replaced
<1> QED BY <1>3, FS_CardinalityType DEF Syncs, Replaced

\* A server that goes on after a synchronisation has replaced one version more.
LEMMA ResumeCounts ==
  ASSUME RInv, RInv', NEW s \in Server, Resume(s)
  PROVE  Syncs' = Syncs + 1
<1> DEFINE x == <<s, version[s]>>
<1>1. s \in paused /\ version' = [version EXCEPT ![s] = @ + 1]
  BY DEF Resume
<1>2. version \in [Server -> Versions] /\ Versions \subseteq Nat
  BY ContinuationAssumption DEF RInv, ServersSound, Versions
<1>3. version'[s] = version[s] + 1 /\ \A p \in Server \ {s} : version'[p] = version[p]
  BY <1>1, <1>2
<1>4. \A p \in Server, v \in Versions :
        v < version'[p] <=> v < version[p] \/ (p = s /\ v = version[s])
  <2> SUFFICES ASSUME NEW p \in Server, NEW v \in Versions
               PROVE v < version'[p] <=> v < version[p] \/ (p = s /\ v = version[s])
    OBVIOUS
  <2>1. v \in Nat /\ version[s] \in Nat /\ version[p] \in Nat
    BY <1>2
  <2>2. CASE p = s
    BY <1>3, <2>1, <2>2
  <2>3. CASE p # s
    BY <1>3, <2>3
  <2> QED BY <2>2, <2>3
<1>5. Replaced' = Replaced \cup {x}
  <2>1. x \in Server \X Versions
    BY <1>2
  <2>2. \A p \in Server \X Versions : p \in Replaced' <=> p \in Replaced \/ p = x
    <3> SUFFICES ASSUME NEW p \in Server, NEW v \in Versions
                 PROVE <<p, v>> \in Replaced' <=> <<p, v>> \in Replaced \/ <<p, v>> = x
      OBVIOUS
    <3>1. <<p, v>> \in Replaced <=> v < version[p]
      BY DEF Replaced
    <3>2. <<p, v>> \in Replaced' <=> v < version'[p]
      BY DEF Replaced
    <3>3. <<p, v>> = x <=> p = s /\ v = version[s]
      OBVIOUS
    <3> QED BY <1>4, <3>1, <3>2, <3>3
  <2>3. Replaced \subseteq Server \X Versions /\ Replaced' \subseteq Server \X Versions
    BY DEF Replaced
  <2> QED BY <2>1, <2>2, <2>3
<1>6. x \notin Replaced
  <2>1. x[1] = s /\ x[2] = version[s] /\ version[s] \in Nat
    BY <1>2
  <2>2. ~(x[2] < version[x[1]])
    BY <2>1
  <2> QED BY <2>2 DEF Replaced
<1>7. Cardinality(Replaced') = Cardinality(Replaced) + 1
  <2>1. IsFiniteSet(Replaced) /\ Cardinality(Replaced) \in Nat
    BY SyncsCounted
  <2>2. Cardinality(Replaced \cup {x}) = Cardinality(Replaced) + 1
    BY <1>6, <2>1, FS_AddElement
  <2> QED BY <1>5, <2>2
<1>8. Syncs' = Cardinality(Replaced)'
  BY DEF Syncs, Replaced
<1> QED BY <1>7, <1>8, SyncsCounted

LEMMA SyncsKept ==
  ASSUME UNCHANGED version
  PROVE  Syncs' = Syncs
BY DEF Syncs

LEMMA NumbersTyped ==
  ASSUME IInv, RInv
  PROVE  /\ retries \in Nat /\ MaxRetries \in Nat /\ Syncs \in Nat /\ requested \in Nat
         /\ at \in Server /\ \A s \in Server : version[s] \in Nat /\ version[s] \in Versions
<1>1. version \in [Server -> Versions] /\ Versions \subseteq Nat
  BY ContinuationAssumption DEF RInv, ServersSound, Versions
<1>2. retries \in Nat /\ MaxRetries \in Nat
  BY ContinuationAssumption DEF RInv, ControlSound
<1> QED BY <1>1, <1>2, SyncsCounted DEF IInv, Typed

LEMMA InitPaid == Init => SyncInv
<1> SUFFICES ASSUME Init PROVE SyncInv
  OBVIOUS
<1>1. RInv /\ IInv
  BY InitSound, InitInvariant
<1>2. retries = 0 /\ pc = "begin" /\ marked = {} /\ timeouts = 0
  BY DEF Init
<1>3. Paid
  BY <1>1, <1>2, NumbersTyped DEF Paid
<1> QED BY <1>2, <1>3 DEF SyncInv

\* What breaks the request's health cannot be mended.
LEMMA HealthyBefore ==
  ASSUME IInv, SyncInv, [Next]_vars
  PROVE  timeouts' \in Nat /\ (Healthy' => Healthy /\ UNCHANGED <<kind, up, lost, timeouts>>)
<1>1. timeouts \in Nat /\ up \subseteq Server
  BY DEF SyncInv, IInv, Typed
<1>2. UNCHANGED timeouts \/ timeouts' = timeouts + 1
  <2>1. CASE Client
    BY <2>1 DEF Client, WeightsVersion, Acquire, AskVersion, Load, Send, Return, Rejected, ServerDied
  <2>2. CASE \E k \in Call : Start(k) \/ Sample(k) \/ SaveArrives(k)
    BY <2>2 DEF Start, Sample, SaveArrives
  <2>3. CASE CallTimeout \/ StoreRestarts \/ UNCHANGED vars
    BY <2>3 DEF CallTimeout, StoreRestarts, vars
  <2>4. CASE \E s \in Server : AbortAll(s) \/ Resume(s) \/ Crash(s)
    BY <2>4 DEF AbortAll, Resume, Crash
  <2> QED BY <2>1, <2>2, <2>3, <2>4 DEF Next
<1>3. kind' = kind /\ up' \subseteq up /\ (lost => lost')
  <2>1. CASE Client
    BY <2>1 DEF Client, WeightsVersion, Acquire, AskVersion, Load, Send, Return, Rejected,
           ServerDied, Faulted, config, servers
  <2>2. CASE \E k \in Call : Start(k) \/ Sample(k) \/ SaveArrives(k)
    <3>1. \A k \in Call : Start(k) \/ Sample(k) \/ SaveArrives(k) =>
            UNCHANGED <<config, servers, lost>>
      BY DEF Start, Sample, SaveArrives
    <3> QED BY <2>2, <3>1 DEF config, servers
  <2>3. CASE CallTimeout \/ StoreRestarts \/ UNCHANGED vars
    BY <2>3 DEF CallTimeout, Faulted, StoreRestarts, vars, config, servers
  <2>4. CASE \E s \in Server : AbortAll(s) \/ Resume(s) \/ Crash(s)
    <3>1. \A s \in Server : AbortAll(s) \/ Resume(s) \/ Crash(s) =>
            UNCHANGED <<config, lost>> /\ up' \in {up, up \ {s}}
      BY DEF AbortAll, Resume, Crash
    <3> QED BY <2>4, <3>1 DEF config
  <2> QED BY <2>1, <2>2, <2>3, <2>4 DEF Next
<1>4. timeouts' \in Nat /\ (timeouts' = 0 => timeouts = 0 /\ timeouts' = timeouts)
  BY <1>1, <1>2
<1>5. Healthy' => up' = Server /\ up = Server
  BY <1>1, <1>3 DEF Healthy
<1>6. Healthy' => kind = "async" /\ ~ lost /\ ~ lost' /\ timeouts' = 0
  BY <1>3 DEF Healthy
<1>7. Healthy' => lost' = lost
  <2>1. lost' \in {lost, TRUE}
    BY DEF Next, Client, WeightsVersion, Acquire, AskVersion, Load, Send, Return, Rejected,
       ServerDied, CallTimeout, Faulted, StoreRestarts, Start, Sample, SaveArrives, AbortAll,
       Resume, Crash, vars
  <2> QED BY <1>6, <2>1
<1> QED BY <1>3, <1>4, <1>5, <1>6, <1>7 DEF Healthy

\* The client's own steps.
LEMMA ClientPaid ==
  ASSUME IInv, RInv, Healthy, Paid, Client
  PROVE  Paid'
<1>1. /\ kind = "async" /\ up = Server /\ ~ lost /\ marked = {} /\ Server # {}
      /\ retries <= Syncs /\ UNCHANGED version
  BY ContinuationAssumption DEF Healthy, Paid, Client, WeightsVersion, Acquire, AskVersion, Load,
     Send, Return, Rejected, ServerDied, Faulted, servers
<1>2. Syncs' = Syncs
  BY <1>1, SyncsKept
<1>3. ~ WeightsVersion /\ ~ ServerDied
  <2>1. ASSUME ServerDied PROVE FALSE
    <3>1. calls \in Call /\ call[calls].to \notin Server
      BY <1>1, <2>1 DEF RInv, Waits, ServerDied, Current
    <3>2. call[calls].to \in Server
      BY <3>1, CallParts DEF IInv, Typed
    <3> QED BY <3>1, <3>2
  <2> QED BY <1>1, <2>1 DEF WeightsVersion
<1>4. CASE Acquire
  <2>1. pc' = "ask" /\ UNCHANGED <<marked, retries>>
    BY <1>1, <1>4 DEF Acquire, servers
  <2> QED BY <1>1, <1>2, <2>1 DEF Paid
<1>5. CASE AskVersion
  <2>1. /\ pc' = "load" /\ UNCHANGED <<marked, retries, at>> /\ requested' = version[at]
    BY <1>1, <1>5, NumbersTyped DEF AskVersion
  <2>2. requested' = version'[at'] /\ version[at] \in Nat
    BY <1>1, <2>1, NumbersTyped
  <2> QED BY <1>1, <1>2, <2>1, <2>2, NumbersTyped DEF Paid
<1>6. CASE Load
  <2>1. /\ pc = "load" /\ pc' \in {"answered", "send"}
        /\ UNCHANGED <<marked, retries, at, requested, version>>
    BY <1>1, <1>6 DEF Load, servers
  <2> QED BY <1>1, <1>2, <2>1 DEF Paid
<1>7. CASE Send
  <2>1. /\ pc = "send" /\ pc' = "wait" /\ calls < Attempts /\ calls' = calls + 1
        /\ UNCHANGED <<marked, retries, at, requested, version>>
        /\ call' = [call EXCEPT ![calls'] =
                [NoCall EXCEPT !.state = "sent", !.to = at, !.ctx = ckpt.ctx,
                               !.attempt = ckpt.attempt, !.expected = requested,
                               !.prefix = ckpt.body, !.limit = Remaining(ckpt)]]
    BY <1>7 DEF Send, servers
  <2>2. calls' \in Call
    BY <2>1, ContinuationAssumption DEF RInv, ControlSound, Call
  <2>3. call'[calls'] = [NoCall EXCEPT !.state = "sent", !.to = at, !.ctx = ckpt.ctx,
                               !.attempt = ckpt.attempt, !.expected = requested,
                               !.prefix = ckpt.body, !.limit = Remaining(ckpt)]
    BY <2>1, <2>2 DEF IInv, Typed
  <2>4. /\ call'[calls'].to = at /\ call'[calls'].expected = requested
        /\ call'[calls'].state = "sent"
    BY <2>3 DEF NoCall
  <2>5. requested <= version[at] /\ retries + (version[at] - requested) <= Syncs
    BY <2>1 DEF Paid
  <2> QED BY <1>1, <1>2, <2>1, <2>4, <2>5 DEF Paid
<1>8. CASE Return
  <2>1. pc' \in {"begin", "answered"} /\ UNCHANGED <<marked, retries>>
    BY <1>8 DEF Return, servers
  <2> QED BY <1>1, <1>2, <2>1 DEF Paid
<1>9. CASE Rejected
  <2>1. /\ pc = "wait" /\ call[calls].state = "rejected" /\ UNCHANGED marked
        /\ retries' = retries + 1 /\ pc' \in {"begin", "failed"}
        /\ pc' = "failed" => retries' >= MaxRetries
    BY <1>1, <1>9 DEF Rejected, Unavailable, Exhausted, Is, servers
  <2>2. requested < version[at] /\ retries + (version[at] - requested) <= Syncs
    BY <2>1 DEF Paid
  <2>3. retries' <= Syncs'
    BY <1>2, <2>1, <2>2, NumbersTyped
  <2> QED BY <1>1, <2>1, <2>3 DEF Paid
<1> QED BY <1>3, <1>4, <1>5, <1>6, <1>7, <1>8, <1>9 DEF Client

\* A call that is rejected was made for a version its server has left.
LEMMA ServingPaid ==
  ASSUME IInv, RInv, Paid, UNCHANGED <<client, version, marked>>,
         \A k \in Call :
           /\ call'[k].to = call[k].to /\ call'[k].expected = call[k].expected
           /\ call'[k].state = "rejected" =>
                call[k].state = "rejected" \/ call[k].expected # version[call[k].to]
  PROVE  Paid'
<1>1. UNCHANGED <<pc, retries, calls, at, requested, version, marked>> /\ Syncs' = Syncs
  BY SyncsKept DEF client
<1>2. pc = "wait" => calls \in Call
  BY DEF RInv, Waits
<1>3. pc = "wait" =>
        /\ call'[calls].to = at /\ call'[calls].expected = requested
        /\ call'[calls].state = "rejected" => requested < version[at]
  <2> SUFFICES ASSUME pc = "wait"
               PROVE /\ call'[calls].to = at /\ call'[calls].expected = requested
                     /\ call'[calls].state = "rejected" => requested < version[at]
    OBVIOUS
  <2>1. /\ call[calls].to = at /\ call[calls].expected = requested /\ requested <= version[at]
        /\ call[calls].state = "rejected" => requested < version[at]
    BY DEF Paid
  <2>2. requested \in Nat /\ version[at] \in Nat
    BY NumbersTyped
  <2> QED BY <1>2, <2>1, <2>2
<1>4. /\ marked' = {} /\ pc' # "acquire" /\ retries' <= Syncs'
      /\ pc' = "failed" => retries' >= MaxRetries
      /\ pc' \in {"load", "send", "wait"} =>
           requested' <= version'[at'] /\ retries' + (version'[at'] - requested') <= Syncs'
  BY <1>1 DEF Paid
<1> QED BY <1>1, <1>3, <1>4 DEF Paid

LEMMA CallStepsPaid ==
  ASSUME IInv, RInv, Paid, \E k \in Call : Start(k) \/ Sample(k) \/ SaveArrives(k)
  PROVE  Paid'
<1>1. PICK k \in Call : Start(k) \/ Sample(k) \/ SaveArrives(k)
  OBVIOUS
<1>2. UNCHANGED <<client, version, marked>>
  BY <1>1 DEF Start, Sample, SaveArrives, servers
<1>3. call \in [Call -> CallRecord] /\ call[k] \in CallRecord
  BY DEF IInv, Typed
<1>4. \A j \in Call \ {k} : call'[j] = call[j]
  BY <1>1, <1>3 DEF Start, Sample, SaveArrives, Set
<1>5. /\ call'[k].to = call[k].to /\ call'[k].expected = call[k].expected
      /\ call'[k].state = "rejected" =>
           call[k].state = "rejected" \/ call[k].expected # version[call[k].to]
  <2>1. CASE Start(k)
    <3>1. call'[k] = [call[k] EXCEPT !.state =
            IF call[k].ctx /\ call[k].expected # version[call[k].to] THEN "rejected" ELSE "running"]
      BY <1>3, <2>1 DEF Start, Set
    <3> QED BY <1>3, <3>1 DEF CallRecord
  <2>2. CASE Sample(k)
    <3> DEFINE v == version[call[k].to]
               toks == Append(call[k].new, v)
    <3>1. PICK eos \in BOOLEAN :
            Set(k, [call[k] EXCEPT !.new = toks,
                     !.state = IF eos \/ Len(toks) = call[k].limit THEN "ended" ELSE "running",
                     !.stop = IF eos \/ Len(toks) = call[k].limit THEN "completed" ELSE "none",
                     !.gs = v])
      BY <2>2 DEF Sample
    <3> HIDE DEF toks, v
    <3>2. call'[k] = [call[k] EXCEPT !.new = toks,
                     !.state = IF eos \/ Len(toks) = call[k].limit THEN "ended" ELSE "running",
                     !.stop = IF eos \/ Len(toks) = call[k].limit THEN "completed" ELSE "none",
                     !.gs = v]
      BY <1>3, <3>1 DEF Set
    <3> QED BY <1>3, <3>2 DEF CallRecord
  <2>3. CASE SaveArrives(k)
    <3>1. PICK n : call'[k] = [call[k] EXCEPT !.saved = n]
      BY <1>3, <2>3 DEF SaveArrives, Set
    <3> QED BY <1>3, <3>1 DEF CallRecord
  <2> QED BY <1>1, <2>1, <2>2, <2>3
<1>6. \A j \in Call :
        /\ call'[j].to = call[j].to /\ call'[j].expected = call[j].expected
        /\ call'[j].state = "rejected" =>
             call[j].state = "rejected" \/ call[j].expected # version[call[j].to]
  BY <1>4, <1>5
<1> QED BY <1>2, <1>6, ServingPaid

\* Aborts reject nothing, and a server that goes on has replaced weights.
LEMMA ServersPaid ==
  ASSUME IInv, RInv, RInv', Paid, \E s \in Server : AbortAll(s) \/ Resume(s)
  PROVE  Paid'
<1>1. PICK s \in Server : AbortAll(s) \/ Resume(s)
  OBVIOUS
<1>2. CASE AbortAll(s)
  <2>1. /\ UNCHANGED <<client, version, marked>>
        /\ call' = [k \in Call |-> IF call[k].state = "running" /\ call[k].to = s
                   THEN [call[k] EXCEPT !.state = "ended", !.stop = "aborted", !.gs = version[s]]
                   ELSE call[k]]
    BY <1>2 DEF AbortAll
  <2>2. ASSUME NEW k \in Call
        PROVE  /\ call'[k].to = call[k].to /\ call'[k].expected = call[k].expected
               /\ call'[k].state = "rejected" => call[k].state = "rejected"
    <3>1. call[k] \in CallRecord
      BY DEF IInv, Typed
    <3>2. call'[k] = call[k]
          \/ call'[k] = [call[k] EXCEPT !.state = "ended", !.stop = "aborted", !.gs = version[s]]
      BY <2>1
    <3> QED BY <3>1, <3>2 DEF CallRecord
  <2> QED BY <2>1, <2>2, ServingPaid
<1>3. CASE Resume(s)
  <2>1. /\ UNCHANGED <<pc, retries, calls, at, requested, call, marked>>
        /\ version' = [version EXCEPT ![s] = @ + 1]
    BY <1>3 DEF Resume, client
  <2>2. Syncs' = Syncs + 1
    BY <1>3, ResumeCounts
  <2>3. version[at] \in Nat /\ (version'[at] = version[at] \/ version'[at] = version[at] + 1)
    BY <2>1, NumbersTyped DEF RInv, ServersSound
  <2>4. /\ retries \in Nat /\ Syncs \in Nat /\ requested \in Nat
    BY NumbersTyped
  <2>5. retries' <= Syncs'
    BY <2>1, <2>2, <2>4 DEF Paid
  <2>6. pc \in {"load", "send", "wait"} =>
          requested' <= version'[at'] /\ retries' + (version'[at'] - requested') <= Syncs'
    <3> SUFFICES ASSUME pc \in {"load", "send", "wait"}
                 PROVE requested' <= version'[at'] /\ retries' + (version'[at'] - requested') <= Syncs'
      OBVIOUS
    <3>1. requested <= version[at] /\ retries + (version[at] - requested) <= Syncs
      BY DEF Paid
    <3>2. requested <= version'[at] /\ retries + (version'[at] - requested) <= Syncs + 1
      BY <2>3, <2>4, <3>1
    <3> QED BY <2>1, <2>2, <3>2
  <2>7. pc = "wait" =>
          /\ call'[calls'].to = at' /\ call'[calls'].expected = requested'
          /\ call'[calls'].state = "rejected" => requested' < version'[at']
    <3> SUFFICES ASSUME pc = "wait"
                 PROVE /\ call'[calls'].to = at' /\ call'[calls'].expected = requested'
                       /\ call'[calls'].state = "rejected" => requested' < version'[at']
      OBVIOUS
    <3>1. /\ call[calls].to = at /\ call[calls].expected = requested
          /\ call[calls].state = "rejected" => requested < version[at]
      BY DEF Paid
    <3>2. requested < version[at] => requested < version'[at]
      BY <2>3, <2>4
    <3> QED BY <2>1, <3>1, <3>2
  <2> QED BY <2>1, <2>5, <2>6, <2>7 DEF Paid
<1> QED BY <1>1, <1>2, <1>3

LEMMA StutterPaid ==
  ASSUME IInv, RInv, Paid, UNCHANGED vars
  PROVE  Paid'
<1>1. UNCHANGED <<client, version, marked, call>>
  BY DEF vars, servers
<1> QED BY <1>1, ServingPaid

LEMMA StepPaid == IInv /\ RInv /\ RInv' /\ SyncInv /\ [Next]_vars => SyncInv'
<1> SUFFICES ASSUME IInv, RInv, RInv', SyncInv, [Next]_vars PROVE SyncInv'
  OBVIOUS
<1>1. timeouts' \in Nat
  BY HealthyBefore
<1>2. ASSUME Healthy' PROVE Paid'
  <2>1. Healthy /\ Paid /\ UNCHANGED <<up, lost, timeouts>>
    BY <1>2, HealthyBefore DEF SyncInv
  <2>2. ~ CallTimeout /\ ~ StoreRestarts
    <3>1. timeouts \in Nat
      BY DEF SyncInv
    <3> QED BY <2>1, <3>1 DEF CallTimeout, StoreRestarts
  <2>3. \A s \in Server : ~ Crash(s)
    BY <2>1 DEF Crash
  <2> QED BY <2>1, <2>2, <2>3, ClientPaid, CallStepsPaid, ServersPaid, StutterPaid DEF Next
<1> QED BY <1>1, <1>2 DEF SyncInv

\* Synchronisation alone does not fail a request of the fully asynchronous
\* client (FullyAsyncLLMServerClient.generate asks the server it acquired for
\* its version before every attempt): every retry is paid for by weights that
\* were replaced since the attempt's version was asked.
THEOREM SyncIsSurvived == Spec => []SurvivesSync
<1>1. Init => IInv /\ RInv /\ SyncInv
  BY InitInvariant, InitSound, InitPaid
<1>2. IInv /\ RInv /\ SyncInv /\ [Next]_vars => IInv' /\ RInv' /\ SyncInv'
  BY StepInvariant, StepSound, StepPaid
<1>3. IInv /\ RInv /\ SyncInv => SurvivesSync
  <2> SUFFICES ASSUME IInv, RInv, SyncInv, Healthy, Syncs < MaxRetries PROVE pc # "failed"
    BY DEF SurvivesSync, Healthy
  <2>1. retries <= Syncs /\ (pc = "failed" => retries >= MaxRetries)
    BY DEF SyncInv, Paid
  <2> QED BY <2>1, NumbersTyped
<1> QED BY <1>1, <1>2, <1>3, PTL DEF Spec
=============================================================================
