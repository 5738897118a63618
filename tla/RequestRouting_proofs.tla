------------------------- MODULE RequestRouting_proofs -------------------------
(***************************************************************************)
(* The load balancer and its clients, for any servers, conversations,       *)
(* retries, restarts and cache size: no failure path leaks a request from   *)
(* the counters, and nobody is routed to a removed server or back to one he *)
(* has reported.  The counters are proved over the set of holders of a      *)
(* server, the clients at it and the releases in the mailboxes; routing     *)
(* over the order of each mailbox, in which an acquire is always the last   *)
(* call.                                                                    *)
(***************************************************************************)
EXTENDS RequestRouting, FiniteSetTheorems, FunctionTheorems, SequenceTheorems, TLAPS

\* No two entries of the cache were used at one moment.
Ages == \A e, f \in sticky : e.age = f.age => e = f

\* The calls of a client on their way: an acquire is the last one, and its
\* client waits for it.
NoAcquire(b) == \A i \in DOMAIN b : b[i].op # "acquire"
Mail(b, ph) ==
  /\ ph = "acquiring" =>
       /\ b # <<>> /\ b[Len(b)].op = "acquire" /\ Len(b) <= 3
       /\ \A i \in DOMAIN b : b[i].op = "acquire" => i = Len(b)
  /\ ph # "acquiring" => NoAcquire(b) /\ Len(b) <= 2
  /\ ph \in {"idle", "resolving", "calling"} => Len(b) = 0
  /\ ph \in {"marking", "faulted", "done"} => Len(b) <= 1

\* Who holds a server, and how many retries are left.
Places ==
  \A r \in Request :
    /\ at[r] \in Server <=> phase[r] \in {"resolving", "calling", "marking", "faulted"}
    /\ phase[r] # "exhausted" => retries[r] <= MaxRetries

\* The counters of servers the balancer does not know.
Unknown == \A s \in Server \ known : inflight[s] = 0

\* A report of s is on its way to the balancer.
Marked(b, s) == \E i \in DOMAIN b : b[i] = Call("mark", s)

\* The servers a client has reported are out of the routing, or will be.
Reported(r) == \A s \in shunned[r] \cap Routable : Marked(inbox[r], s)

\* As long as the actor lives: who is out of the routing, or about to be.
Lives ==
  restarts = 0 =>
    /\ removed \cap Routable = {}
    /\ \A r \in Request :
         /\ at[r] \in Server => at[r] \in known
         /\ Reported(r)

\* The parts of the type invariant, with what else holds of their state.
CoreOK ==
  /\ known \subseteq Server /\ dead \subseteq known
  /\ inflight \in [Server -> Nat] /\ restarts \in 0..MaxRestarts
CacheOK ==
  /\ \A e \in sticky : e.server \in known /\ e.age \in Nat
  /\ IsFiniteSet(sticky) /\ Cardinality(sticky) <= CacheSize
  /\ Ages
ClientOK ==
  /\ phase \in [Request -> {"idle", "acquiring", "resolving", "calling", "marking",
                            "faulted", "done", "failed", "exhausted"}]
  /\ at \in [Request -> Server \cup {None}]
  /\ retries \in [Request -> 0..(MaxRetries + 1)]
  /\ turn \in [Request -> 0..MaxTurns]
  /\ handles \in [Request -> SUBSET Server]
  /\ Places
MailOK ==
  /\ inbox \in [Request -> Seq(Message)]
  /\ \A r \in Request : Mail(inbox[r], phase[r])
WorldOK ==
  /\ alive \subseteq Server /\ admits \in [Server -> 0..MaxAdmits]
  /\ control \in Seq([op : {"add", "remove"}, server : Server])

Histories ==
  /\ removed \subseteq Server /\ recounted \subseteq Server
  /\ shunned \in [Request -> SUBSET Server]

Base == CoreOK /\ CacheOK /\ ClientOK /\ MailOK /\ WorldOK /\ Unknown /\ Histories
IInv == Base /\ CountsCovered /\ Lives

-----------------------------------------------------------------------------
(***************************************************************************)
(* The cache.                                                               *)
(***************************************************************************)

\* A rank is a number.
LEMMA RankIsNat ==
  ASSUME NEW E, IsFiniteSet(E), NEW e
  PROVE  Rank(E, e) \in Nat
<1>1. IsFiniteSet({f \in E : f.age < e.age})
  <2>1. {f \in E : f.age < e.age} \in SUBSET E
    OBVIOUS
  <2> QED  BY <2>1, FS_Subset
<1> QED  BY <1>1, FS_CardinalityType DEF Rank

\* An entry used later has the lower rank.
LEMMA RankOrders ==
  ASSUME NEW E, IsFiniteSet(E), \A g \in E : g.age \in Int,
         NEW e \in E, NEW f \in E, e.age < f.age
  PROVE  Rank(E, e) < Rank(E, f)
<1> DEFINE Younger(x) == {g \in E : g.age < x.age}
<1>1. Younger(e) \in SUBSET Younger(f)
  <2> SUFFICES ASSUME NEW g \in E, g.age < e.age
               PROVE  g.age < f.age
    OBVIOUS
  <2>1. g.age \in Int /\ e.age \in Int /\ f.age \in Int
    OBVIOUS
  <2> QED  BY <2>1
<1>2. e \in Younger(f) /\ e \notin Younger(e)
  <2>1. e.age \in Int
    OBVIOUS
  <2>2. ~(e.age < e.age)
    BY <2>1
  <2> QED  BY <2>2
<1>3. IsFiniteSet(Younger(f))
  <2>1. Younger(f) \in SUBSET E
    OBVIOUS
  <2> QED  BY <2>1, FS_Subset
<1>4. /\ Cardinality(Younger(e)) <= Cardinality(Younger(f))
      /\ Cardinality(Younger(e)) = Cardinality(Younger(f)) => Younger(f) = Younger(e)
  BY <1>1, <1>3, FS_Subset
<1>5. Cardinality(Younger(e)) # Cardinality(Younger(f))
  BY <1>2, <1>4
<1>6. Rank(E, e) = Cardinality(Younger(e)) /\ Rank(E, f) = Cardinality(Younger(f))
  BY DEF Rank
<1>7. Rank(E, e) \in Nat /\ Rank(E, f) \in Nat
  BY RankIsNat
<1> QED  BY <1>4, <1>5, <1>6, <1>7

\* The cache keeps at most CacheSize of the entries, each as it was but for
\* its age, and their order.
LEMMA CacheKeeps ==
  ASSUME NEW E, IsFiniteSet(E), \A g \in E : g.age \in Int,
         \A e, f \in E : e.age = f.age => e = f
  PROVE  /\ \A x \in Cache(E) :
              x.age \in Nat /\ \E e \in E : x.key = e.key /\ x.server = e.server
         /\ \A x, y \in Cache(E) : x.age = y.age => x = y
         /\ IsFiniteSet(Cache(E)) /\ Cardinality(Cache(E)) <= CacheSize
<1>1. ASSUME NEW x \in Cache(E)
      PROVE  \E e \in E : /\ x = Entry(e.key, e.server, Rank(E, e))
                          /\ Rank(E, e) \in Nat /\ Rank(E, e) < CacheSize
  BY RankIsNat DEF Cache
<1>2. \A x \in Cache(E) :
         x.age \in Nat /\ \E e \in E : x.key = e.key /\ x.server = e.server
  BY <1>1 DEF Entry
<1>3. ASSUME NEW x \in Cache(E), NEW y \in Cache(E), x.age = y.age
      PROVE  x = y
  <2>1. PICK e \in E : x = Entry(e.key, e.server, Rank(E, e)) /\ Rank(E, e) \in Nat
    BY <1>1
  <2>2. PICK f \in E : y = Entry(f.key, f.server, Rank(E, f)) /\ Rank(E, f) \in Nat
    BY <1>1
  <2>3. Rank(E, e) = Rank(E, f)
    BY <1>3, <2>1, <2>2 DEF Entry
  <2>4. ~(e.age < f.age)
    BY <2>1, <2>2, <2>3, RankOrders
  <2>5. ~(f.age < e.age)
    BY <2>1, <2>2, <2>3, RankOrders
  <2>6. e.age = f.age
    BY <2>4, <2>5
  <2>7. e = f
    BY <2>6
  <2> QED  BY <2>1, <2>2, <2>7
<1>4. IsFiniteSet(Cache(E)) /\ Cardinality(Cache(E)) <= CacheSize
  <2> DEFINE age == [x \in Cache(E) |-> x.age]
  <2>1. CacheSize \in Nat
    BY RoutingAssumption
  <2>2. \A x \in Cache(E) : x.age \in 0..(CacheSize - 1)
    <3> SUFFICES ASSUME NEW x \in Cache(E)
                 PROVE  x.age \in 0..(CacheSize - 1)
      OBVIOUS
    <3>1. PICK e \in E : /\ x = Entry(e.key, e.server, Rank(E, e))
                         /\ Rank(E, e) \in Nat /\ Rank(E, e) < CacheSize
      BY <1>1
    <3>2. x.age = Rank(E, e)
      BY <3>1 DEF Entry
    <3> QED  BY <3>1, <3>2, <2>1
  <2>3. age \in Injection(Cache(E), 0..(CacheSize - 1))
    BY <2>2, <1>3 DEF Injection, IsInjective
  <2>4. IsFiniteSet(0..(CacheSize - 1)) /\ Cardinality(0..(CacheSize - 1)) = CacheSize
    BY <2>1, FS_Interval
  <2>5. IsFiniteSet(Cache(E)) /\ Cardinality(Cache(E)) <= Cardinality(0..(CacheSize - 1))
    BY <2>3, <2>4, FS_Injection
  <2> QED  BY <2>4, <2>5
<1> QED  BY <1>2, <1>3, <1>4

\* What is left of the cache after an update is sound again.
LEMMA CacheIsSound ==
  ASSUME NEW E, NEW S, IsFiniteSet(E), \A g \in E : g.age \in Int /\ g.server \in S,
         \A e, f \in E : e.age = f.age => e = f
  PROVE  /\ \A x \in Cache(E) : x.server \in S /\ x.age \in Nat
         /\ IsFiniteSet(Cache(E)) /\ Cardinality(Cache(E)) <= CacheSize
         /\ \A x, y \in Cache(E) : x.age = y.age => x = y
BY CacheKeeps

-----------------------------------------------------------------------------
(***************************************************************************)
(* Who counts for a server: the clients at it, the releases on their way.   *)
(***************************************************************************)

\* The releases of s in the mailboxes b, and the clients a places at s.
Freeing(b, s) ==
  UNION {{<<q, i>> : i \in {j \in DOMAIN b[q] : b[q][j] = Call("release", s)}}
         : q \in Request}
Placed(a, s) == {q \in Request : a[q] = s}
One(P) == IF P THEN 1 ELSE 0
Sends(b, d, r, c) == d = [b EXCEPT ![r] = Append(b[r], c)]
Executes(b, d, r) == d = [b EXCEPT ![r] = Tail(b[r])]
Moves(a, d, r, v) == d = [a EXCEPT ![r] = v]

\* What a release in the mailboxes is.
LEMMA FreeingMembers ==
  \A b, s, x : x \in Freeing(b, s) <=>
           \E q \in Request : \E i \in DOMAIN b[q] :
             b[q][i] = Call("release", s) /\ x = <<q, i>>
BY DEF Freeing

\* Mailboxes of bounded length hold a finite number of releases.
LEMMA FreeingIsFinite ==
  ASSUME NEW b \in [Request -> Seq(Message)], \A q \in Request : Len(b[q]) <= 3, NEW s
  PROVE  IsFiniteSet(Freeing(b, s))
<1>1. IsFiniteSet(Request \X (1..3))
  <2>1. IsFiniteSet(Request) /\ IsFiniteSet(1..3)
    <3>1. IsFiniteSet(1..3)
      <4>1. 1 \in Int /\ 3 \in Int
        OBVIOUS
      <4> QED  BY <4>1, FS_Interval, Zenon
    <3> QED  BY <3>1, RoutingAssumption
  <2> QED  BY <2>1, FS_Product
<1>2. Freeing(b, s) \in SUBSET (Request \X (1..3))
  <2> SUFFICES ASSUME NEW x \in Freeing(b, s)
               PROVE  x \in Request \X (1..3)
    OBVIOUS
  <2>1. PICK q \in Request : \E i \in DOMAIN b[q] : x = <<q, i>>
    BY FreeingMembers
  <2>2. PICK i \in DOMAIN b[q] : x = <<q, i>>
    BY <2>1
  <2>3. b[q] \in Seq(Message) /\ Len(b[q]) <= 3
    OBVIOUS
  <2>4. i \in 1..3
    BY <2>3
  <2> QED  BY <2>2, <2>4
<1> QED  BY <1>1, <1>2, FS_Subset

\* A client sends the call c.
LEMMA FreeingSent ==
  ASSUME NEW b \in [Request -> Seq(Message)], NEW s, IsFiniteSet(Freeing(b, s)),
         NEW r \in Request, NEW c \in Message,
         NEW d, Sends(b, d, r, c)
  PROVE  /\ IsFiniteSet(Freeing(d, s))
         /\ Cardinality(Freeing(d, s)) =
              Cardinality(Freeing(b, s)) + One(c = Call("release", s))
<1> DEFINE n == Len(b[r]) + 1
<1>1. /\ b[r] \in Seq(Message) /\ n \in Nat
      /\ DOMAIN b[r] = 1..(n - 1) /\ DOMAIN d[r] = 1..n
      /\ \A i \in 1..(n - 1) : d[r][i] = b[r][i]
      /\ d[r][n] = c
      /\ \A q \in Request : q # r => d[q] = b[q]
  BY DEF Sends
<1>0. \A x : x \in Freeing(d, s) <=>
        \E q \in Request : \E i \in DOMAIN d[q] :
          d[q][i] = Call("release", s) /\ x = <<q, i>>
  BY FreeingMembers
<1>2. <<r, n>> \notin Freeing(b, s)
  BY <1>1, FreeingMembers
<1>3. CASE c = Call("release", s)
  <2>1. Freeing(d, s) = Freeing(b, s) \cup {<<r, n>>}
    <3>1. ASSUME NEW x \in Freeing(d, s)
          PROVE  x \in Freeing(b, s) \cup {<<r, n>>}
      <4>1. PICK q \in Request : \E i \in DOMAIN d[q] :
              d[q][i] = Call("release", s) /\ x = <<q, i>>
        BY <1>0, <3>1
      <4>2. PICK i \in DOMAIN d[q] : d[q][i] = Call("release", s) /\ x = <<q, i>>
        BY <4>1
      <4>3. CASE q = r /\ i = n
        BY <4>2, <4>3
      <4>4. CASE ~(q = r /\ i = n)
        <5>1. i \in DOMAIN b[q] /\ d[q][i] = b[q][i]
          BY <1>1, <4>4
        <5> QED  BY <4>2, <5>1, FreeingMembers
      <4> QED  BY <4>3, <4>4
    <3>2. ASSUME NEW x \in Freeing(b, s)
          PROVE  x \in Freeing(d, s)
      <4>1. PICK q \in Request : \E i \in DOMAIN b[q] :
              b[q][i] = Call("release", s) /\ x = <<q, i>>
        BY FreeingMembers
      <4>2. PICK i \in DOMAIN b[q] : b[q][i] = Call("release", s) /\ x = <<q, i>>
        BY <4>1
      <4>3. i \in DOMAIN d[q] /\ d[q][i] = b[q][i]
        BY <1>1
      <4> QED  BY <4>2, <4>3, FreeingMembers
    <3>3. <<r, n>> \in Freeing(d, s)
      <4>1. n \in DOMAIN d[r] /\ d[r][n] = Call("release", s)
        BY <1>1, <1>3
      <4> QED  BY <4>1, FreeingMembers
    <3> QED  BY <3>1, <3>2, <3>3
  <2>2. /\ IsFiniteSet(Freeing(b, s) \cup {<<r, n>>})
        /\ Cardinality(Freeing(b, s) \cup {<<r, n>>}) = Cardinality(Freeing(b, s)) + 1
    BY <1>2, FS_AddElement
  <2> QED  BY <1>3, <2>1, <2>2 DEF One
<1>4. CASE c # Call("release", s)
  <2>1. Freeing(d, s) = Freeing(b, s)
    <3>1. ASSUME NEW x \in Freeing(d, s)
          PROVE  x \in Freeing(b, s)
      <4>1. PICK q \in Request : \E i \in DOMAIN d[q] :
              d[q][i] = Call("release", s) /\ x = <<q, i>>
        BY <1>0, <3>1
      <4>2. PICK i \in DOMAIN d[q] : d[q][i] = Call("release", s) /\ x = <<q, i>>
        BY <4>1
      <4>3. i \in DOMAIN b[q] /\ d[q][i] = b[q][i]
        BY <1>1, <1>4, <4>2
      <4> QED  BY <4>2, <4>3, FreeingMembers
    <3>2. ASSUME NEW x \in Freeing(b, s)
          PROVE  x \in Freeing(d, s)
      <4>1. PICK q \in Request : \E i \in DOMAIN b[q] :
              b[q][i] = Call("release", s) /\ x = <<q, i>>
        BY FreeingMembers
      <4>2. PICK i \in DOMAIN b[q] : b[q][i] = Call("release", s) /\ x = <<q, i>>
        BY <4>1
      <4>3. i \in DOMAIN d[q] /\ d[q][i] = b[q][i]
        BY <1>1
      <4> QED  BY <4>2, <4>3, FreeingMembers
    <3> QED  BY <3>1, <3>2
  <2>2. Cardinality(Freeing(b, s)) \in Nat
    BY FS_CardinalityType
  <2> QED  BY <1>4, <2>1, <2>2 DEF One
<1> QED  BY <1>3, <1>4

\* The balancer takes the first call of a client.
LEMMA FreeingExecuted ==
  ASSUME NEW b \in [Request -> Seq(Message)], NEW s, IsFiniteSet(Freeing(b, s)),
         NEW r \in Request, b[r] # <<>>,
         NEW d, Executes(b, d, r)
  PROVE  /\ IsFiniteSet(Freeing(d, s))
         /\ Cardinality(Freeing(d, s)) + One(Head(b[r]) = Call("release", s)) =
              Cardinality(Freeing(b, s))
<1> DEFINE later == Freeing(b, s) \ {<<r, 1>>}
           n == Len(b[r])
           moved(x) == IF x[1] = r THEN <<r, x[2] - 1>> ELSE x
           move == [x \in later |-> moved(x)]
<1>1. /\ b[r] \in Seq(Message) /\ n \in Nat \ {0}
      /\ DOMAIN b[r] = 1..n /\ DOMAIN d[r] = 1..(n - 1)
      /\ \A i \in 1..(n - 1) : d[r][i] = b[r][i + 1]
      /\ Head(b[r]) = b[r][1]
      /\ \A q \in Request : q # r => d[q] = b[q]
  BY DEF Executes
<1>2. \A q \in Request : \A i \in DOMAIN b[q] : i \in Nat \ {0}
  OBVIOUS
<1> HIDE DEF n
<1>0. \A x : x \in Freeing(d, s) <=>
        \E q \in Request : \E i \in DOMAIN d[q] :
          d[q][i] = Call("release", s) /\ x = <<q, i>>
  BY FreeingMembers
<1>11. ASSUME NEW x \in later
      PROVE  \E q \in Request : \E i \in Nat \ {0} : x = <<q, i>>
  <2>1. PICK q \in Request : \E i \in DOMAIN b[q] : x = <<q, i>>
    BY FreeingMembers
  <2> QED  BY <1>2, <2>1
<1>3. ASSUME NEW x \in later
      PROVE  moved(x) \in Freeing(d, s)
  <2>1. PICK q \in Request : \E i \in DOMAIN b[q] :
          b[q][i] = Call("release", s) /\ x = <<q, i>>
    BY FreeingMembers
  <2>2. PICK i \in DOMAIN b[q] : b[q][i] = Call("release", s) /\ x = <<q, i>>
    BY <2>1
  <2>3. i \in Nat \ {0} /\ (q = r => i > 1)
    BY <1>2, <2>2
  <2>4. CASE q = r
    <3>1. i - 1 \in DOMAIN d[r] /\ d[r][i - 1] = Call("release", s)
      BY <1>1, <2>2, <2>3, <2>4
    <3>2. moved(x) = <<r, i - 1>>
      BY <2>2, <2>4
    <3> QED  BY <2>2, <2>3, <3>1, <3>2, FreeingMembers
  <2>5. CASE q # r
    <3>1. moved(x) = x /\ d[q] = b[q]
      BY <1>1, <2>2, <2>5
    <3> QED  BY <2>2, <2>3, <3>1, FreeingMembers
  <2> QED  BY <2>4, <2>5
<1>4. ASSUME NEW x \in later, NEW y \in later, moved(x) = moved(y)
      PROVE  x = y
  <2>1. PICK q \in Request : \E i \in Nat \ {0} : x = <<q, i>>
    BY <1>11
  <2>2. PICK i \in Nat \ {0} : x = <<q, i>>
    BY <2>1
  <2>3. PICK p \in Request : \E j \in Nat \ {0} : y = <<p, j>>
    BY <1>11
  <2>4. PICK j \in Nat \ {0} : y = <<p, j>>
    BY <2>3
  <2>5. moved(x) = IF q = r THEN <<q, i - 1>> ELSE <<q, i>>
    BY <2>2
  <2>6. moved(y) = IF p = r THEN <<p, j - 1>> ELSE <<p, j>>
    BY <2>4
  <2>7. q = p
    BY <1>4, <2>5, <2>6
  <2>8. i = j
    BY <1>4, <2>5, <2>6, <2>7
  <2> QED  BY <2>2, <2>4, <2>7, <2>8
<1>5. ASSUME NEW z \in Freeing(d, s)
      PROVE  \E x \in later : moved(x) = z
  <2>1. PICK q \in Request : \E i \in DOMAIN d[q] :
          d[q][i] = Call("release", s) /\ z = <<q, i>>
    BY <1>0, <1>5
  <2>2. PICK i \in DOMAIN d[q] : d[q][i] = Call("release", s) /\ z = <<q, i>>
    BY <2>1
  <2>3. CASE q = r
    <3>1. i \in Nat \ {0} /\ i + 1 \in DOMAIN b[r] /\ b[r][i + 1] = Call("release", s)
      BY <1>1, <2>2, <2>3
    <3>2. <<r, i + 1>> \in later
      BY <3>1, FreeingMembers
    <3>3. moved(<<r, i + 1>>) = z
      BY <2>2, <2>3, <3>1
    <3> QED  BY <3>2, <3>3
  <2>4. CASE q # r
    <3>1. d[q] = b[q]
      BY <1>1, <2>4
    <3>2. z \in Freeing(b, s) /\ z # <<r, 1>> /\ z[1] # r
      BY <2>2, <2>4, <3>1, FreeingMembers
    <3> QED  BY <3>2
  <2> QED  BY <2>3, <2>4
<1>6. move \in Bijection(later, Freeing(d, s))
  <2>1. move \in [later -> Freeing(d, s)]
    BY <1>3
  <2>2. \A x, y \in later : move[x] = move[y] => x = y
    BY <1>4
  <2>3. \A z \in Freeing(d, s) : \E x \in later : move[x] = z
    BY <1>5
  <2> HIDE DEF later, move
  <2> QED  BY <2>1, <2>2, <2>3, Fun_IsBij
<1>7. /\ IsFiniteSet(later)
      /\ Cardinality(later) = IF <<r, 1>> \in Freeing(b, s)
                              THEN Cardinality(Freeing(b, s)) - 1
                              ELSE Cardinality(Freeing(b, s))
  BY FS_RemoveElement
<1>8. IsFiniteSet(Freeing(d, s)) /\ Cardinality(Freeing(d, s)) = Cardinality(later)
  BY <1>6, <1>7, FS_Bijection DEF ExistsBijection
<1>9. <<r, 1>> \in Freeing(b, s) <=> Head(b[r]) = Call("release", s)
  <2>1. 1 \in DOMAIN b[r]
    BY <1>1
  <2> QED  BY <1>1, <2>1, FreeingMembers
<1>10. Cardinality(Freeing(b, s)) \in Nat
  BY FS_CardinalityType
<1> QED  BY <1>7, <1>8, <1>9, <1>10 DEF One

\* A client moves to v.
LEMMA PlacedMoves ==
  ASSUME NEW a \in [Request -> Server \cup {None}], NEW r \in Request, NEW v,
         NEW d, Moves(a, d, r, v), NEW s
  PROVE  /\ Cardinality(Placed(d, s)) \in Nat /\ Cardinality(Placed(a, s)) \in Nat
         /\ Cardinality(Placed(d, s)) + One(a[r] = s) = Cardinality(Placed(a, s)) + One(v = s)
<1> DEFINE rest == {q \in Request \ {r} : a[q] = s}
<1>1. IsFiniteSet(rest) /\ r \notin rest
  <2>1. rest \in SUBSET Request
    OBVIOUS
  <2> QED  BY <2>1, RoutingAssumption, FS_Subset
<1>2. Placed(a, s) = IF a[r] = s THEN rest \cup {r} ELSE rest
  BY DEF Placed
<1>3. Placed(d, s) = IF v = s THEN rest \cup {r} ELSE rest
  BY DEF Placed, Moves
<1>4. Cardinality(rest) \in Nat /\ Cardinality(rest \cup {r}) = Cardinality(rest) + 1
  BY <1>1, FS_AddElement, FS_CardinalityType
<1> HIDE DEF rest
<1> QED  BY <1>2, <1>3, <1>4 DEF One

-----------------------------------------------------------------------------
(***************************************************************************)
(* Mailboxes.                                                               *)
(***************************************************************************)

\* A call that is no acquire is sent.
LEMMA MailPlain ==
  ASSUME NEW b \in Seq(Message), NoAcquire(b), NEW c \in Message, c.op # "acquire"
  PROVE  /\ Append(b, c) \in Seq(Message) /\ NoAcquire(Append(b, c))
         /\ Len(Append(b, c)) = Len(b) + 1
<1>1. /\ Append(b, c) \in Seq(Message) /\ Len(Append(b, c)) = Len(b) + 1
      /\ \A i \in 1..Len(b) : Append(b, c)[i] = b[i]
      /\ Append(b, c)[Len(b) + 1] = c
  OBVIOUS
<1> DEFINE d == Append(b, c)
<1> HIDE DEF d
<1>2. /\ d \in Seq(Message) /\ Len(d) = Len(b) + 1 /\ d[Len(b) + 1] = c
      /\ \A i \in 1..Len(b) : d[i] = b[i]
  BY <1>1 DEF d
<1>3. Len(b) \in Nat /\ DOMAIN b = 1..Len(b) /\ DOMAIN d = 1..Len(d)
  BY <1>2
<1>4. NoAcquire(d)
  BY <1>2, <1>3 DEF NoAcquire
<1> QED  BY <1>2, <1>4 DEF d

\* An acquire is sent.
LEMMA MailAcquire ==
  ASSUME NEW b \in Seq(Message), NoAcquire(b), Len(b) <= 2, NEW c \in Message,
         c.op = "acquire"
  PROVE  Append(b, c) \in Seq(Message) /\ Mail(Append(b, c), "acquiring")
<1>1. /\ Append(b, c) \in Seq(Message) /\ Len(Append(b, c)) = Len(b) + 1
      /\ \A i \in 1..Len(b) : Append(b, c)[i] = b[i]
      /\ Append(b, c)[Len(b) + 1] = c
  OBVIOUS
<1> DEFINE d == Append(b, c)
<1> HIDE DEF d
<1>2. /\ d \in Seq(Message) /\ Len(d) = Len(b) + 1 /\ d[Len(b) + 1] = c
      /\ \A i \in 1..Len(b) : d[i] = b[i]
  BY <1>1 DEF d
<1>3. Len(b) \in Nat /\ DOMAIN b = 1..Len(b) /\ DOMAIN d = 1..Len(d) /\ d # <<>>
  BY <1>2
<1>4. \A i \in DOMAIN d : d[i].op = "acquire" => i = Len(d)
  BY <1>2, <1>3 DEF NoAcquire
<1>5. Mail(d, "acquiring")
  BY <1>2, <1>3, <1>4 DEF Mail
<1> QED  BY <1>2, <1>5 DEF d

\* The first call is executed: an acquire leaves nothing behind.
LEMMA MailExecuted ==
  ASSUME NEW b \in Seq(Message), b # <<>>, NEW ph, Mail(b, ph)
  PROVE  /\ Tail(b) \in Seq(Message) /\ Len(Tail(b)) = Len(b) - 1
         /\ Head(b) \in Message /\ Head(b) = b[1]
         /\ Head(b).op = "acquire" => ph = "acquiring" /\ Len(b) = 1
         /\ Head(b).op # "acquire" => Mail(Tail(b), ph)
<1> DEFINE d == Tail(b)
<1>1. /\ d \in Seq(Message) /\ Len(d) = Len(b) - 1 /\ Len(b) \in Nat \ {0}
      /\ \A i \in 1..(Len(b) - 1) : d[i] = b[i + 1]
      /\ Head(b) = b[1] /\ Head(b) \in Message
      /\ DOMAIN b = 1..Len(b) /\ DOMAIN d = 1..(Len(b) - 1)
  OBVIOUS
<1> HIDE DEF d
<1>2. Head(b).op = "acquire" => ph = "acquiring" /\ Len(b) = 1
  BY <1>1 DEF Mail, NoAcquire
<1>3. ASSUME Head(b).op # "acquire"
      PROVE  Mail(d, ph)
  <2>1. CASE ph = "acquiring"
    <3>1. Len(b) # 1
      BY <1>1, <1>3, <2>1 DEF Mail
    <3>2. d # <<>> /\ d[Len(d)].op = "acquire"
      BY <1>1, <2>1, <3>1 DEF Mail
    <3>3. \A i \in DOMAIN d : d[i].op = "acquire" => i = Len(d)
      BY <1>1, <2>1 DEF Mail
    <3> QED  BY <1>1, <2>1, <3>2, <3>3 DEF Mail
  <2>2. CASE ph # "acquiring"
    <3>1. NoAcquire(d)
      BY <1>1, <2>2 DEF Mail, NoAcquire
    <3> QED  BY <1>1, <2>2, <3>1 DEF Mail
  <2> QED  BY <2>1, <2>2
<1> QED  BY <1>1, <1>2, <1>3 DEF d

\* One client's mailbox and phase change.
LEMMA MailMoves ==
  ASSUME MailOK, NEW r \in Request, NEW b \in Seq(Message),
         inbox' = [inbox EXCEPT ![r] = b],
         \A q \in Request : q # r => phase'[q] = phase[q],
         Mail(b, phase'[r])
  PROVE  MailOK'
<1>1. inbox' \in [Request -> Seq(Message)]
  BY DEF MailOK
<1>2. ASSUME NEW q \in Request
      PROVE  Mail(inbox'[q], phase'[q])
  BY DEF MailOK
<1> QED  BY <1>1, <1>2 DEF MailOK

-----------------------------------------------------------------------------
(***************************************************************************)
(* The bookkeeping of balancer and clients.                                 *)
(***************************************************************************)

\* What the balancer hands out can be routed to.
Pick(r) == IF Hit(r) # {} THEN Hit(r) ELSE Least(Routable)
LEMMA PicksRoutable ==
  ASSUME CacheOK, NEW r \in Request, NEW s \in Pick(r)
  PROVE  s \in Routable
BY DEF CacheOK, Pick, Hit, Cached, Least, Routable

\* What the Supervisor calls is about a server.
LEMMA ControlTyped ==
  ASSUME WorldOK, control # <<>>
  PROVE  /\ Head(control).server \in Server
         /\ Tail(control) \in Seq([op : {"add", "remove"}, server : Server])
<1> DEFINE S == [op : {"add", "remove"}, server : Server]
<1>1. control \in Seq(S)
  BY DEF WorldOK
<1>2. \A x \in S : x.server \in Server
  OBVIOUS
<1> HIDE DEF S
<1>3. Head(control) \in S /\ Tail(control) \in Seq(S)
  BY <1>1
<1> QED  BY <1>2, <1>3 DEF S

\* An acquire is executed when its client waits for nothing else.
LEMMA AcquireWaits ==
  ASSUME MailOK, ClientOK, NEW r \in Request, Receives(r, "acquire")
  PROVE  /\ phase[r] = "acquiring" /\ at[r] = None
         /\ Len(inbox[r]) = 1 /\ inbox[r][1].op = "acquire" /\ Tail(inbox[r]) = <<>>
<1>1. inbox[r] \in Seq(Message) /\ inbox[r] # <<>> /\ Mail(inbox[r], phase[r])
  BY DEF MailOK, Receives
<1>2. Head(inbox[r]).op = "acquire"
  BY DEF Receives
<1>3. /\ phase[r] = "acquiring" /\ Len(inbox[r]) = 1 /\ Head(inbox[r]) = inbox[r][1]
      /\ Tail(inbox[r]) \in Seq(Message) /\ Len(Tail(inbox[r])) = Len(inbox[r]) - 1
  BY <1>1, <1>2, MailExecuted
<1>4. at[r] = None
  BY <1>3 DEF ClientOK, Places
<1>5. Tail(inbox[r]) = <<>>
  <2>1. Len(Tail(inbox[r])) = 0
    BY <1>3
  <2> QED  BY <1>3, <2>1, EmptySeq
<1> QED  BY <1>2, <1>3, <1>4, <1>5

\* Calls are messages.
LEMMA CallTyped ==
  ASSUME NEW s \in Server \cup {None}
  PROVE  /\ Call("release", s) \in Message /\ Call("release", s).op = "release"
         /\ Call("mark", s) \in Message /\ Call("mark", s).op = "mark"
         /\ Call("acquire", s) \in Message /\ Call("acquire", s).op = "acquire"
BY DEF Call, Message

\* The counters.
LEMMA CoreStep == Base /\ [Next]_vars => (CoreOK /\ Unknown)'
<1> SUFFICES ASSUME Base, [Next]_vars
             PROVE  (CoreOK /\ Unknown)'
  OBVIOUS
<1> USE RoutingAssumption DEF Base
<1>1. ASSUME NEW r \in Request, Acquire(r)
      PROVE  (CoreOK /\ Unknown)'
  <2>0. phase[r] = "acquiring" /\ at[r] = None
    BY <1>1, AcquireWaits DEF Acquire
  <2>1. CASE Pick(r) = {} /\ UNCHANGED <<inflight, at>> /\ phase' = [phase EXCEPT ![r] = "failed"]
    BY <1>1, <2>0, <2>1 DEF CoreOK, Unknown, Acquire, core, client, world, history
  <2>2. ASSUME NEW s \in Pick(r), inflight' = [inflight EXCEPT ![s] = @ + 1]
        PROVE  (CoreOK /\ Unknown)'
    <3>1. s \in known /\ s \in Server
      BY <2>2, PicksRoutable DEF Base, CoreOK, Routable
    <3> QED  BY <1>1, <2>0, <2>2, <3>1 DEF CoreOK, Unknown, Acquire, core, client, world, history
  <2> QED  BY <1>1, <2>1, <2>2 DEF Acquire, Pick
<1>2. ASSUME NEW r \in Request, Resolve(r)
      PROVE  (CoreOK /\ Unknown)'
  BY <1>2 DEF CoreOK, Unknown, Resolve, core, client, world, history
<1>3. ASSUME NEW r \in Request, Release(r)
      PROVE  (CoreOK /\ Unknown)'
  BY <1>3 DEF CoreOK, Unknown, Release, core, client, world, history
<1>4. ASSUME NEW r \in Request, MarkFailed(r)
      PROVE  (CoreOK /\ Unknown)'
  BY <1>4 DEF CoreOK, Unknown, MarkFailed, core, client, world, history
<1>5. ASSUME NEW r \in Request, Generate(r)
      PROVE  (CoreOK /\ Unknown)'
  BY <1>5 DEF CoreOK, Unknown, Generate, core, client, world, history
<1>6. ASSUME NEW r \in Request, Return(r)
      PROVE  (CoreOK /\ Unknown)'
  BY <1>6 DEF CoreOK, Unknown, Return, Leave, core, client, world, history
<1>7. ASSUME NEW r \in Request, Fault(r)
      PROVE  (CoreOK /\ Unknown)'
  BY <1>7 DEF CoreOK, Unknown, Fault, core, client, world, history
<1>8. ASSUME NEW r \in Request, MarkTimeout(r)
      PROVE  (CoreOK /\ Unknown)'
  BY <1>8 DEF CoreOK, Unknown, MarkTimeout, core, client, world, history
<1>9. ASSUME NEW r \in Request, VersionRace(r)
      PROVE  (CoreOK /\ Unknown)'
  BY <1>9 DEF CoreOK, Unknown, VersionRace, core, client, world, history
<1>10. ASSUME NEW r \in Request, Retry(r)
      PROVE  (CoreOK /\ Unknown)'
  BY <1>10 DEF CoreOK, Unknown, Retry, Exhausted, Freed, core, client, world, history
<1>11. ASSUME NEW r \in Request, Aborted(r)
      PROVE  (CoreOK /\ Unknown)'
  BY <1>11 DEF CoreOK, Unknown, Aborted, Freed, core, client, world, history
<1>12. ASSUME NEW s \in Server, Die(s)
      PROVE  (CoreOK /\ Unknown)'
  BY <1>12 DEF CoreOK, Unknown, Die, core, client, world, history
<1>13. ASSUME NEW s \in Server, Isolate(s)
      PROVE  (CoreOK /\ Unknown)'
  BY <1>13 DEF CoreOK, Unknown, Isolate, core, client, world, history
<1>14. ASSUME NEW s \in Server, Admit(s)
      PROVE  (CoreOK /\ Unknown)'
  BY <1>14 DEF CoreOK, Unknown, Admit, core, client, world, history
<1>15. CASE AddServers
  BY <1>15, ControlTyped DEF CoreOK, Unknown, AddServers, core, client, world, history
<1>16. CASE RemoveServers
  BY <1>16 DEF CoreOK, Unknown, RemoveServers, core, client, world, history
<1>17. CASE Restart
  BY <1>17 DEF CoreOK, Unknown, Restart, core, client, world, history
<1>18. CASE UNCHANGED vars
  BY <1>18 DEF Base, CoreOK, Unknown, vars, core, client, world, history
<1> QED
  BY <1>1, <1>2, <1>3, <1>4, <1>5, <1>6, <1>7, <1>8, <1>9,
     <1>10, <1>11, <1>12, <1>13, <1>14, <1>15, <1>16, <1>17, <1>18 DEF Next, Balance, Serve

\* The clients.
LEMMA ClientStep == Base /\ [Next]_vars => ClientOK'
<1> SUFFICES ASSUME Base, [Next]_vars
             PROVE  ClientOK'
  OBVIOUS
<1> USE RoutingAssumption DEF Base
<1>1. ASSUME NEW r \in Request, Acquire(r)
      PROVE  ClientOK'
  <2>0. phase[r] = "acquiring" /\ at[r] = None
    BY <1>1, AcquireWaits DEF Acquire
  <2>1. CASE Pick(r) = {} /\ UNCHANGED <<inflight, at>> /\ phase' = [phase EXCEPT ![r] = "failed"]
    BY <1>1, <2>0, <2>1 DEF ClientOK, Places, Acquire, core, client, world, history
  <2>2. ASSUME NEW s \in Pick(r), at' = [at EXCEPT ![r] = s],
               phase' = [phase EXCEPT ![r] = IF s \in Initial \cup handles[r]
                                             THEN "calling" ELSE "resolving"]
        PROVE  ClientOK'
    <3>1. s \in known /\ s \in Server
      BY <2>2, PicksRoutable DEF Base, CoreOK, Routable
    <3> QED  BY <1>1, <2>0, <2>2, <3>1 DEF ClientOK, Places, Acquire, core, client, world, history
  <2> QED  BY <1>1, <2>1, <2>2 DEF Acquire, Pick
<1>2. ASSUME NEW r \in Request, Resolve(r)
      PROVE  ClientOK'
  BY <1>2 DEF ClientOK, Places, Resolve, core, client, world, history
<1>3. ASSUME NEW r \in Request, Release(r)
      PROVE  ClientOK'
  BY <1>3 DEF ClientOK, Places, Release, core, client, world, history
<1>4. ASSUME NEW r \in Request, MarkFailed(r)
      PROVE  ClientOK'
  BY <1>4 DEF ClientOK, Places, MarkFailed, core, client, world, history
<1>5. ASSUME NEW r \in Request, Generate(r)
      PROVE  ClientOK'
  BY <1>5 DEF ClientOK, Places, Generate, core, client, world, history
<1>6. ASSUME NEW r \in Request, Return(r)
      PROVE  ClientOK'
  BY <1>6 DEF ClientOK, Places, Return, Leave, core, client, world, history
<1>7. ASSUME NEW r \in Request, Fault(r)
      PROVE  ClientOK'
  BY <1>7 DEF ClientOK, Places, Fault, core, client, world, history
<1>8. ASSUME NEW r \in Request, MarkTimeout(r)
      PROVE  ClientOK'
  BY <1>8 DEF ClientOK, Places, MarkTimeout, core, client, world, history
<1>9. ASSUME NEW r \in Request, VersionRace(r)
      PROVE  ClientOK'
  BY <1>9 DEF ClientOK, Places, VersionRace, core, client, world, history
<1>10. ASSUME NEW r \in Request, Retry(r)
      PROVE  ClientOK'
  BY <1>10 DEF ClientOK, Places, Retry, Exhausted, Freed, core, client, world, history
<1>11. ASSUME NEW r \in Request, Aborted(r)
      PROVE  ClientOK'
  BY <1>11 DEF ClientOK, Places, Aborted, Freed, core, client, world, history
<1>12. ASSUME NEW s \in Server, Die(s)
      PROVE  ClientOK'
  BY <1>12 DEF ClientOK, Places, Die, core, client, world, history
<1>13. ASSUME NEW s \in Server, Isolate(s)
      PROVE  ClientOK'
  BY <1>13 DEF ClientOK, Places, Isolate, core, client, world, history
<1>14. ASSUME NEW s \in Server, Admit(s)
      PROVE  ClientOK'
  BY <1>14 DEF ClientOK, Places, Admit, core, client, world, history
<1>15. CASE AddServers
  BY <1>15 DEF ClientOK, Places, AddServers, core, client, world, history
<1>16. CASE RemoveServers
  BY <1>16 DEF ClientOK, Places, RemoveServers, core, client, world, history
<1>17. CASE Restart
  BY <1>17 DEF ClientOK, Places, Restart, core, client, world, history
<1>18. CASE UNCHANGED vars
  BY <1>18 DEF Base, ClientOK, Places, vars, core, client, world, history
<1> QED
  BY <1>1, <1>2, <1>3, <1>4, <1>5, <1>6, <1>7, <1>8, <1>9,
     <1>10, <1>11, <1>12, <1>13, <1>14, <1>15, <1>16, <1>17, <1>18 DEF Next, Balance, Serve

\* The mailboxes.
LEMMA MailStep == Base /\ [Next]_vars => MailOK'
<1> SUFFICES ASSUME Base, [Next]_vars
             PROVE  MailOK'
  OBVIOUS
<1> USE RoutingAssumption DEF Base
<1>0. /\ None \in Server \cup {None}
      /\ \A q \in Request :
           /\ inbox[q] \in Seq(Message) /\ Mail(inbox[q], phase[q]) /\ Len(inbox[q]) \in Nat
           /\ at[q] \in Server \cup {None}
           /\ phase[q] # "acquiring" => NoAcquire(inbox[q])
  BY DEF MailOK, ClientOK, Mail
<1>1. ASSUME NEW r \in Request, Acquire(r)
      PROVE  MailOK'
  <2>1. /\ Tail(inbox[r]) = <<>> /\ inbox' = [inbox EXCEPT ![r] = <<>>]
    BY <1>1, AcquireWaits DEF Acquire, Executed
  <2>2. /\ \A q \in Request : q # r => phase'[q] = phase[q]
        /\ phase'[r] \in {"failed", "calling", "resolving"}
    BY <1>1 DEF Acquire, ClientOK
  <2>3. <<>> \in Seq(Message) /\ Mail(<<>>, phase'[r])
    BY <2>2 DEF Mail, NoAcquire
  <2> QED  BY <2>1, <2>2, <2>3, MailMoves
<1>2. ASSUME NEW r \in Request, Resolve(r)
      PROVE  MailOK'
  <2>1. /\ \A q \in Request : q # r => phase'[q] = phase[q]
        /\ phase[r] = "resolving" /\ phase'[r] \in {"calling", "failed"}
        /\ inbox' = inbox
    BY <1>2 DEF Resolve, ClientOK
  <2>2. Mail(inbox[r], phase'[r])
    BY <1>0, <2>1 DEF Mail
  <2> QED  BY <1>0, <2>1, <2>2 DEF MailOK
<1>3. ASSUME NEW r \in Request, Release(r)
      PROVE  MailOK'
  <2>1. Head(inbox[r]).op # "acquire" /\ inbox[r] # <<>>
    BY <1>3 DEF Release, Receives
  <2>2. /\ Tail(inbox[r]) \in Seq(Message) /\ Mail(Tail(inbox[r]), phase[r])
        /\ NoAcquire(Tail(inbox[r])) \/ phase[r] = "acquiring"
    BY <1>0, <2>1, MailExecuted DEF Mail
  <2>3. phase' = phase /\ Mail(Tail(inbox[r]), phase'[r])
    BY <1>3, <2>2 DEF Release, client
  <2> QED  BY <1>3, <2>2, <2>3, MailMoves DEF Release, Executed
<1>4. ASSUME NEW r \in Request, MarkFailed(r)
      PROVE  MailOK'
  <2>1. Head(inbox[r]).op # "acquire" /\ inbox[r] # <<>>
    BY <1>4 DEF MarkFailed, Receives
  <2>2. /\ Tail(inbox[r]) \in Seq(Message) /\ Mail(Tail(inbox[r]), phase[r])
        /\ NoAcquire(Tail(inbox[r])) \/ phase[r] = "acquiring"
    BY <1>0, <2>1, MailExecuted DEF Mail
  <2>3. /\ \A q \in Request : q # r => phase'[q] = phase[q]
        /\ Mail(Tail(inbox[r]), phase'[r])
    BY <1>4, <2>2 DEF MarkFailed, ClientOK, Mail
  <2> QED  BY <1>4, <2>2, <2>3, MailMoves DEF MarkFailed, Executed
<1>5. ASSUME NEW r \in Request, Generate(r)
      PROVE  MailOK'
  <2>1. /\ NoAcquire(inbox[r]) /\ Len(inbox[r]) <= 2
        /\ Call("acquire", None) \in Message /\ Call("acquire", None).op = "acquire"
    BY <1>0, <1>5, CallTyped DEF Generate, Mail
  <2>2. /\ Append(inbox[r], Call("acquire", None)) \in Seq(Message)
        /\ Mail(Append(inbox[r], Call("acquire", None)), "acquiring")
    BY <1>0, <2>1, MailAcquire
  <2>3. /\ \A q \in Request : q # r => phase'[q] = phase[q]
        /\ phase'[r] = "acquiring"
        /\ inbox' = [inbox EXCEPT ![r] = Append(inbox[r], Call("acquire", None))]
    BY <1>5 DEF Generate, ClientOK, Send
  <2> QED  BY <2>2, <2>3, MailMoves
<1>6. ASSUME NEW r \in Request, Return(r)
      PROVE  MailOK'
  <2> DEFINE b == Append(inbox[r], Call("release", at[r]))
  <2>1. /\ NoAcquire(inbox[r]) /\ Len(inbox[r]) = 0
        /\ Call("release", at[r]) \in Message /\ Call("release", at[r]).op = "release"
    BY <1>0, <1>6, CallTyped DEF Return, Mail
  <2>2. b \in Seq(Message) /\ NoAcquire(b) /\ Len(b) = 1
    BY <1>0, <2>1, MailPlain
  <2>3. /\ \A q \in Request : q # r => phase'[q] = phase[q]
        /\ phase'[r] \in {"done", "failed"}
        /\ inbox' = [inbox EXCEPT ![r] = b]
    BY <1>6 DEF Return, Leave, ClientOK, Send
  <2> HIDE DEF b
  <2>4. Mail(b, phase'[r])
    BY <2>2, <2>3 DEF Mail
  <2> QED  BY <2>2, <2>3, <2>4, MailMoves
<1>7. ASSUME NEW r \in Request, Fault(r)
      PROVE  MailOK'
  <2> DEFINE b == Append(inbox[r], Call("mark", at[r]))
  <2>1. /\ NoAcquire(inbox[r]) /\ Len(inbox[r]) = 0
        /\ Call("mark", at[r]) \in Message /\ Call("mark", at[r]).op = "mark"
    BY <1>0, <1>7, CallTyped DEF Fault, Mail
  <2>2. b \in Seq(Message) /\ NoAcquire(b) /\ Len(b) = 1
    BY <1>0, <2>1, MailPlain
  <2>3. /\ \A q \in Request : q # r => phase'[q] = phase[q]
        /\ phase'[r] = "marking"
        /\ inbox' = [inbox EXCEPT ![r] = b]
    BY <1>7 DEF Fault, ClientOK, Send
  <2> HIDE DEF b
  <2>4. Mail(b, phase'[r])
    BY <2>2, <2>3 DEF Mail
  <2> QED  BY <2>2, <2>3, <2>4, MailMoves
<1>8. ASSUME NEW r \in Request, MarkTimeout(r)
      PROVE  MailOK'
  <2>1. /\ \A q \in Request : q # r => phase'[q] = phase[q]
        /\ phase[r] = "marking" /\ phase'[r] = "faulted" /\ inbox' = inbox
    BY <1>8 DEF MarkTimeout, ClientOK
  <2>2. Mail(inbox[r], phase'[r])
    BY <1>0, <2>1 DEF Mail
  <2> QED  BY <1>0, <2>1, <2>2 DEF MailOK
<1>9. ASSUME NEW r \in Request, VersionRace(r)
      PROVE  MailOK'
  <2>1. /\ \A q \in Request : q # r => phase'[q] = phase[q]
        /\ phase[r] = "calling" /\ phase'[r] = "faulted" /\ inbox' = inbox
    BY <1>9 DEF VersionRace, ClientOK
  <2>2. Mail(inbox[r], phase'[r])
    BY <1>0, <2>1 DEF Mail
  <2> QED  BY <1>0, <2>1, <2>2 DEF MailOK
<1>10. ASSUME NEW r \in Request, Retry(r)
      PROVE  MailOK'
  <2>1. /\ NoAcquire(inbox[r]) /\ Len(inbox[r]) <= 1
        /\ Call("release", at[r]) \in Message /\ Call("release", at[r]).op = "release"
        /\ Call("acquire", None) \in Message /\ Call("acquire", None).op = "acquire"
    BY <1>0, <1>10, CallTyped DEF Retry, Mail
  <2>2. Freed(r) \in Seq(Message) /\ NoAcquire(Freed(r)) /\ Len(Freed(r)) <= 2
    BY <1>0, <2>1, MailPlain DEF Freed
  <2>3. /\ Append(Freed(r), Call("acquire", None)) \in Seq(Message)
        /\ Mail(Append(Freed(r), Call("acquire", None)), "acquiring")
    BY <2>1, <2>2, MailAcquire
  <2>4. \A q \in Request : q # r => phase'[q] = phase[q]
    BY <1>10 DEF Retry, ClientOK
  <2>5. CASE Exhausted(r, retries'[r])
    <3>1. phase'[r] = "exhausted" /\ inbox' = [inbox EXCEPT ![r] = Freed(r)]
      BY <1>10, <2>5 DEF Retry, ClientOK
    <3>2. Mail(Freed(r), phase'[r])
      BY <2>2, <3>1 DEF Mail
    <3> QED  BY <2>2, <2>4, <3>1, <3>2, MailMoves
  <2>6. CASE ~Exhausted(r, retries'[r])
    <3>1. /\ phase'[r] = "acquiring"
          /\ inbox' = [inbox EXCEPT ![r] = Append(Freed(r), Call("acquire", None))]
      BY <1>10, <2>6 DEF Retry, ClientOK
    <3> QED  BY <2>3, <2>4, <3>1, MailMoves
  <2> QED  BY <2>5, <2>6
<1>11. ASSUME NEW r \in Request, Aborted(r)
      PROVE  MailOK'
  <2>1. /\ NoAcquire(inbox[r]) /\ Len(inbox[r]) <= 1
        /\ Call("release", at[r]) \in Message /\ Call("release", at[r]).op = "release"
        /\ Call("acquire", None) \in Message /\ Call("acquire", None).op = "acquire"
    BY <1>0, <1>11, CallTyped DEF Aborted, Mail
  <2>2. Freed(r) \in Seq(Message) /\ NoAcquire(Freed(r)) /\ Len(Freed(r)) <= 2
    BY <1>0, <2>1, MailPlain DEF Freed
  <2>3. /\ Append(Freed(r), Call("acquire", None)) \in Seq(Message)
        /\ Mail(Append(Freed(r), Call("acquire", None)), "acquiring")
    BY <2>1, <2>2, MailAcquire
  <2>4. /\ \A q \in Request : q # r => phase'[q] = phase[q]
        /\ phase'[r] = "acquiring"
        /\ inbox' = [inbox EXCEPT ![r] = Append(Freed(r), Call("acquire", None))]
    BY <1>11 DEF Aborted, ClientOK
  <2> QED  BY <2>3, <2>4, MailMoves
<1>12. ASSUME NEW s \in Server, Die(s)
      PROVE  MailOK'
  BY <1>12 DEF MailOK, Die, core, client, world, history
<1>13. ASSUME NEW s \in Server, Isolate(s)
      PROVE  MailOK'
  BY <1>13 DEF MailOK, Isolate, core, client, world, history
<1>14. ASSUME NEW s \in Server, Admit(s)
      PROVE  MailOK'
  BY <1>14 DEF MailOK, Admit, core, client, world, history
<1>15. CASE AddServers
  BY <1>15 DEF MailOK, AddServers, core, client, world, history
<1>16. CASE RemoveServers
  BY <1>16 DEF MailOK, RemoveServers, core, client, world, history
<1>17. CASE Restart
  BY <1>17 DEF MailOK, Restart, core, client, world, history
<1>18. CASE UNCHANGED vars
  BY <1>18 DEF Base, MailOK, vars, core, client, world, history
<1> QED
  BY <1>1, <1>2, <1>3, <1>4, <1>5, <1>6, <1>7, <1>8, <1>9,
     <1>10, <1>11, <1>12, <1>13, <1>14, <1>15, <1>16, <1>17, <1>18 DEF Next, Balance, Serve

\* Servers, Supervisor and history.
LEMMA WorldStep == Base /\ [Next]_vars => (WorldOK /\ Histories)'
<1> SUFFICES ASSUME Base, [Next]_vars
             PROVE  (WorldOK /\ Histories)'
  OBVIOUS
<1> USE RoutingAssumption DEF Base
<1>1. ASSUME NEW r \in Request, Acquire(r)
      PROVE  (WorldOK /\ Histories)'
  BY <1>1 DEF WorldOK, Histories, Acquire, core, client, world, history
<1>2. ASSUME NEW r \in Request, Resolve(r)
      PROVE  (WorldOK /\ Histories)'
  BY <1>2 DEF WorldOK, Histories, Resolve, core, client, world, history
<1>3. ASSUME NEW r \in Request, Release(r)
      PROVE  (WorldOK /\ Histories)'
  BY <1>3 DEF WorldOK, Histories, Release, core, client, world, history
<1>4. ASSUME NEW r \in Request, MarkFailed(r)
      PROVE  (WorldOK /\ Histories)'
  BY <1>4 DEF WorldOK, Histories, MarkFailed, core, client, world, history
<1>5. ASSUME NEW r \in Request, Generate(r)
      PROVE  (WorldOK /\ Histories)'
  BY <1>5 DEF WorldOK, Histories, Generate, core, client, world, history
<1>6. ASSUME NEW r \in Request, Return(r)
      PROVE  (WorldOK /\ Histories)'
  BY <1>6 DEF WorldOK, Histories, Return, Leave, core, client, world, history
<1>7. ASSUME NEW r \in Request, Fault(r)
      PROVE  (WorldOK /\ Histories)'
  <2>1. at[r] \in Server
    BY <1>7 DEF ClientOK, Places, Fault
  <2> QED  BY <1>7, <2>1 DEF WorldOK, Histories, Fault, world
<1>8. ASSUME NEW r \in Request, MarkTimeout(r)
      PROVE  (WorldOK /\ Histories)'
  BY <1>8 DEF WorldOK, Histories, MarkTimeout, core, client, world, history
<1>9. ASSUME NEW r \in Request, VersionRace(r)
      PROVE  (WorldOK /\ Histories)'
  BY <1>9 DEF WorldOK, Histories, VersionRace, core, client, world, history
<1>10. ASSUME NEW r \in Request, Retry(r)
      PROVE  (WorldOK /\ Histories)'
  BY <1>10 DEF WorldOK, Histories, Retry, Exhausted, Freed, core, client, world, history
<1>11. ASSUME NEW r \in Request, Aborted(r)
      PROVE  (WorldOK /\ Histories)'
  BY <1>11 DEF WorldOK, Histories, Aborted, Freed, core, client, world, history
<1>12. ASSUME NEW s \in Server, Die(s)
      PROVE  (WorldOK /\ Histories)'
  BY <1>12 DEF WorldOK, Histories, Die, core, client, world, history
<1>13. ASSUME NEW s \in Server, Isolate(s)
      PROVE  (WorldOK /\ Histories)'
  <2> DEFINE S == [op : {"add", "remove"}, server : Server]
  <2>1. Call("remove", s) \in S /\ control \in Seq(S)
    BY DEF Call, WorldOK
  <2> HIDE DEF S
  <2>2. Append(control, Call("remove", s)) \in Seq(S)
    BY <2>1
  <2> QED  BY <1>13, <2>2 DEF WorldOK, Histories, Isolate, history, S
<1>14. ASSUME NEW s \in Server, Admit(s)
      PROVE  (WorldOK /\ Histories)'
  <2> DEFINE S == [op : {"add", "remove"}, server : Server]
  <2>1. Call("add", s) \in S /\ control \in Seq(S)
    BY DEF Call, WorldOK
  <2> HIDE DEF S
  <2>2. Append(control, Call("add", s)) \in Seq(S)
    BY <2>1
  <2> QED  BY <1>14, <2>2 DEF WorldOK, Histories, Admit, history, S
<1>15. CASE AddServers
  <2>1. /\ Head(control).server \in Server
        /\ Tail(control) \in Seq([op : {"add", "remove"}, server : Server])
    BY <1>15, ControlTyped DEF AddServers
  <2> QED  BY <1>15, <2>1 DEF WorldOK, Histories, AddServers
<1>16. CASE RemoveServers
  <2>1. /\ Head(control).server \in Server
        /\ Tail(control) \in Seq([op : {"add", "remove"}, server : Server])
    BY <1>16, ControlTyped DEF RemoveServers
  <2> QED  BY <1>16, <2>1 DEF WorldOK, Histories, RemoveServers
<1>17. CASE Restart
  BY <1>17 DEF WorldOK, Histories, Restart, core, client, world, history
<1>18. CASE UNCHANGED vars
  BY <1>18 DEF Base, WorldOK, Histories, vars, core, client, world, history
<1> QED
  BY <1>1, <1>2, <1>3, <1>4, <1>5, <1>6, <1>7, <1>8, <1>9,
     <1>10, <1>11, <1>12, <1>13, <1>14, <1>15, <1>16, <1>17, <1>18 DEF Next, Balance, Serve

\* The cache.
LEMMA CacheStep == Base /\ [Next]_vars => CacheOK'
<1> SUFFICES ASSUME Base, [Next]_vars
             PROVE  CacheOK'
  OBVIOUS
<1> USE RoutingAssumption DEF Base
<1>0. ASSUME NEW E \in SUBSET sticky, sticky' = Cache(E), known \subseteq known'
      PROVE  CacheOK'
  <2>1. IsFiniteSet(E)
    BY FS_Subset DEF CacheOK
  <2>2. /\ \A g \in E : g.age \in Int /\ g.server \in known
        /\ \A e, f \in E : e.age = f.age => e = f
    BY DEF CacheOK, Ages
  <2>3. /\ \A x \in Cache(E) : x.server \in known /\ x.age \in Nat
        /\ IsFiniteSet(Cache(E)) /\ Cardinality(Cache(E)) <= CacheSize
        /\ \A x, y \in Cache(E) : x.age = y.age => x = y
    BY <2>1, <2>2, CacheIsSound
  <2> QED  BY <1>0, <2>3 DEF CacheOK, Ages
<1>1. ASSUME NEW r \in Request, Acquire(r)
      PROVE  CacheOK'
  <2>1. CASE sticky' = Cache({e \in sticky : e.key # Key(r)})
    BY <1>0, <1>1, <2>1 DEF Acquire
  <2>2. ASSUME NEW s \in Pick(r), sticky' = Touch(Key(r), s)
        PROVE  CacheOK'
    <3> DEFINE new == Entry(Key(r), s, -1)
               E == {e \in sticky : e.key # Key(r)} \cup {new}
    <3>1. s \in known
      BY <2>2, PicksRoutable DEF Routable
    <3>2. new.age = -1 /\ new.server = s
      BY DEF Entry
    <3>3. IsFiniteSet(E)
      <4>1. {e \in sticky : e.key # Key(r)} \in SUBSET sticky
        OBVIOUS
      <4>2. IsFiniteSet({e \in sticky : e.key # Key(r)})
        BY <4>1, FS_Subset DEF CacheOK
      <4> QED  BY <4>2, FS_AddElement
    <3> HIDE DEF new
    <3>4. \A g \in E : g.age \in Int /\ g.server \in known
      BY <3>1, <3>2 DEF CacheOK
    <3>5. \A e, f \in E : e.age = f.age => e = f
      BY <3>2 DEF CacheOK, Ages
    <3> HIDE DEF E
    <3>6. /\ \A x \in Cache(E) : x.server \in known /\ x.age \in Nat
          /\ IsFiniteSet(Cache(E)) /\ Cardinality(Cache(E)) <= CacheSize
          /\ \A x, y \in Cache(E) : x.age = y.age => x = y
      BY <3>3, <3>4, <3>5, CacheIsSound
    <3>7. sticky' = Cache(E) /\ known' = known
      BY <1>1, <2>2 DEF Touch, Acquire, E, new
    <3> QED  BY <3>6, <3>7 DEF CacheOK, Ages
  <2> QED  BY <1>1, <2>1, <2>2 DEF Acquire, Pick
<1>2. ASSUME NEW r \in Request, Resolve(r)
      PROVE  CacheOK'
  BY <1>2 DEF CacheOK, Ages, Resolve, core, client, world, history
<1>3. ASSUME NEW r \in Request, Release(r)
      PROVE  CacheOK'
  BY <1>3 DEF CacheOK, Ages, Release, core, client, world, history
<1>4. ASSUME NEW r \in Request, MarkFailed(r)
      PROVE  CacheOK'
  BY <1>4 DEF CacheOK, Ages, MarkFailed, core, client, world, history
<1>5. ASSUME NEW r \in Request, Generate(r)
      PROVE  CacheOK'
  BY <1>5 DEF CacheOK, Ages, Generate, core, client, world, history
<1>6. ASSUME NEW r \in Request, Return(r)
      PROVE  CacheOK'
  BY <1>6 DEF CacheOK, Ages, Return, Leave, core, client, world, history
<1>7. ASSUME NEW r \in Request, Fault(r)
      PROVE  CacheOK'
  BY <1>7 DEF CacheOK, Ages, Fault, core, client, world, history
<1>8. ASSUME NEW r \in Request, MarkTimeout(r)
      PROVE  CacheOK'
  BY <1>8 DEF CacheOK, Ages, MarkTimeout, core, client, world, history
<1>9. ASSUME NEW r \in Request, VersionRace(r)
      PROVE  CacheOK'
  BY <1>9 DEF CacheOK, Ages, VersionRace, core, client, world, history
<1>10. ASSUME NEW r \in Request, Retry(r)
      PROVE  CacheOK'
  BY <1>10 DEF CacheOK, Ages, Retry, Exhausted, Freed, core, client, world, history
<1>11. ASSUME NEW r \in Request, Aborted(r)
      PROVE  CacheOK'
  BY <1>11 DEF CacheOK, Ages, Aborted, Freed, core, client, world, history
<1>12. ASSUME NEW s \in Server, Die(s)
      PROVE  CacheOK'
  BY <1>12 DEF CacheOK, Ages, Die, core, client, world, history
<1>13. ASSUME NEW s \in Server, Isolate(s)
      PROVE  CacheOK'
  BY <1>13 DEF CacheOK, Ages, Isolate, core, client, world, history
<1>14. ASSUME NEW s \in Server, Admit(s)
      PROVE  CacheOK'
  BY <1>14 DEF CacheOK, Ages, Admit, core, client, world, history
<1>15. CASE AddServers
  BY <1>15 DEF CacheOK, Ages, AddServers, core, client, world, history
<1>16. CASE RemoveServers
  <2>1. sticky' = Cache({e \in sticky : e.server # Head(control).server}) /\ known' = known
    BY <1>16 DEF RemoveServers
  <2> QED  BY <1>0, <2>1
<1>17. CASE Restart
  <2>1. sticky' = {}
    BY <1>17 DEF Restart
  <2> QED  BY <2>1, FS_EmptySet DEF CacheOK, Ages
<1>18. CASE UNCHANGED vars
  BY <1>18 DEF Base, CacheOK, Ages, vars, core, client, world, history
<1> QED
  BY <1>1, <1>2, <1>3, <1>4, <1>5, <1>6, <1>7, <1>8, <1>9,
     <1>10, <1>11, <1>12, <1>13, <1>14, <1>15, <1>16, <1>17, <1>18 DEF Next, Balance, Serve

\* All of it.
LEMMA BaseStep == Base /\ [Next]_vars => Base'
BY CoreStep, ClientStep, MailStep, WorldStep, CacheStep DEF Base

-----------------------------------------------------------------------------
(***************************************************************************)
(* The counters.                                                            *)
(***************************************************************************)

\* The two kinds of holders of s.
LEMMA HoldersSplit ==
  ASSUME Base, NEW s \in Server
  PROVE  /\ IsFiniteSet(Freeing(inbox, s))
         /\ Cardinality(Placed(at, s)) \in Nat /\ Cardinality(Freeing(inbox, s)) \in Nat
         /\ Holders(s) = Cardinality(Placed(at, s)) + Cardinality(Freeing(inbox, s))
         /\ Holders(s)' = Cardinality(Placed(at', s)) + Cardinality(Freeing(inbox', s))
<1>1. inbox \in [Request -> Seq(Message)] /\ \A q \in Request : Len(inbox[q]) <= 3
  <2>1. \A q \in Request : inbox[q] \in Seq(Message) /\ Mail(inbox[q], phase[q])
    BY DEF Base, MailOK
  <2>2. ASSUME NEW q \in Request
        PROVE  Len(inbox[q]) <= 3
    <3>1. inbox[q] \in Seq(Message) /\ Mail(inbox[q], phase[q]) /\ Len(inbox[q]) \in Nat
      BY <2>1
    <3> QED  BY <3>1 DEF Mail
  <2> QED  BY <2>2 DEF Base, MailOK
<1>2. IsFiniteSet(Freeing(inbox, s))
  BY <1>1, FreeingIsFinite
<1>3. IsFiniteSet(Placed(at, s))
  <2>1. Placed(at, s) \in SUBSET Request
    BY DEF Placed
  <2> QED  BY <2>1, RoutingAssumption, FS_Subset
<1>4. Releases(s) = Freeing(inbox, s) /\ Releases(s)' = Freeing(inbox', s)
  BY DEF Releases, Freeing
<1>5. /\ {r \in Request : at[r] = s} = Placed(at, s)
      /\ {r \in Request : at'[r] = s} = Placed(at', s)
  BY DEF Placed
<1>6. /\ Holders(s) = Cardinality(Placed(at, s)) + Cardinality(Freeing(inbox, s))
      /\ Holders(s)' = Cardinality(Placed(at', s)) + Cardinality(Freeing(inbox', s))
  BY <1>4, <1>5 DEF Holders
<1> QED  BY <1>2, <1>3, <1>6, FS_CardinalityType

\* A call that is no release changes no holder.
LEMMA HoldersSent ==
  ASSUME Base, NEW s \in Server, NEW r \in Request, NEW c \in Message, c.op # "release",
         at' = at, inbox' = Send(r, c)
  PROVE  Holders(s)' = Holders(s)
<1>1. inbox \in [Request -> Seq(Message)] /\ Sends(inbox, inbox', r, c)
  BY DEF Base, MailOK, Send, Sends
<1>2. c # Call("release", s)
  BY DEF Call
<1>3. Cardinality(Freeing(inbox', s)) = Cardinality(Freeing(inbox, s)) + One(c = Call("release", s))
  BY <1>1, HoldersSplit, FreeingSent
<1>4. One(c = Call("release", s)) = 0
  BY <1>2 DEF One
<1> QED  BY <1>3, <1>4, HoldersSplit

\* A client leaves its server and sends the release; it may acquire again.
LEMMA HoldersFreed ==
  ASSUME Base, NEW s \in Server, NEW r \in Request, at[r] \in Server,
         at' = [at EXCEPT ![r] = None],
         \/ inbox' = [inbox EXCEPT ![r] = Freed(r)]
         \/ inbox' = [inbox EXCEPT ![r] = Append(Freed(r), Call("acquire", None))]
  PROVE  Holders(s)' = Holders(s)
<1> DEFINE c == Call("release", at[r])
           d == [inbox EXCEPT ![r] = Freed(r)]
<1>1. c \in Message /\ Call("acquire", None) \in Message
  BY CallTyped
<1>2. c = Call("release", s) <=> at[r] = s
  BY DEF Call
<1>3. inbox \in [Request -> Seq(Message)] /\ Sends(inbox, d, r, c)
  BY DEF Base, MailOK, Sends, Freed
<1>4. d \in [Request -> Seq(Message)] /\ d[r] = Freed(r)
  BY <1>1, <1>3 DEF Freed
<1>5. /\ IsFiniteSet(Freeing(d, s))
      /\ Cardinality(Freeing(d, s)) = Cardinality(Freeing(inbox, s)) + One(c = Call("release", s))
  <2> HIDE DEF d, c
  <2> QED  BY <1>1, <1>3, HoldersSplit, FreeingSent
<1>6. Cardinality(Freeing(inbox', s)) = Cardinality(Freeing(d, s))
  <2>1. CASE inbox' = d
    BY <2>1
  <2>2. CASE inbox' = [inbox EXCEPT ![r] = Append(Freed(r), Call("acquire", None))]
    <3>1. Sends(d, inbox', r, Call("acquire", None))
      BY <1>3, <1>4, <2>2 DEF Sends
    <3>2. Call("acquire", None) # Call("release", s)
      BY DEF Call
    <3>3. Cardinality(Freeing(inbox', s)) =
            Cardinality(Freeing(d, s)) + One(Call("acquire", None) = Call("release", s))
      <4> HIDE DEF d
      <4> QED  BY <1>1, <1>4, <1>5, <3>1, FreeingSent
    <3>4. One(Call("acquire", None) = Call("release", s)) = 0
      BY <3>2 DEF One
    <3>5. Cardinality(Freeing(d, s)) \in Nat
      BY <1>5, FS_CardinalityType
    <3> QED  BY <3>3, <3>4, <3>5
  <2> QED  BY <2>1, <2>2
<1>7. /\ Cardinality(Placed(at', s)) \in Nat
      /\ Cardinality(Placed(at', s)) + One(at[r] = s) =
           Cardinality(Placed(at, s)) + One(None = s)
  <2>1. at \in [Request -> Server \cup {None}] /\ Moves(at, at', r, None)
    BY DEF Base, ClientOK, Moves
  <2> QED  BY <2>1, PlacedMoves
<1>8. /\ One(None = s) = 0 /\ One(at[r] = s) \in Nat
      /\ One(c = Call("release", s)) = One(at[r] = s)
  BY <1>2, RoutingAssumption DEF One
<1>9. /\ Cardinality(Placed(at, s)) \in Nat /\ Cardinality(Freeing(inbox, s)) \in Nat
      /\ Holders(s) = Cardinality(Placed(at, s)) + Cardinality(Freeing(inbox, s))
      /\ Holders(s)' = Cardinality(Placed(at', s)) + Cardinality(Freeing(inbox', s))
  BY HoldersSplit
<1>10. Cardinality(Freeing(inbox', s)) = Cardinality(Freeing(inbox, s)) + One(at[r] = s)
  BY <1>5, <1>6, <1>8
<1>11. Cardinality(Placed(at', s)) + One(at[r] = s) = Cardinality(Placed(at, s))
  BY <1>7, <1>8, <1>9
<1> HIDE DEF d, c
<1> QED  BY <1>7, <1>8, <1>9, <1>10, <1>11

\* The balancer takes a call: only a release has a holder less.
LEMMA HoldersExecuted ==
  ASSUME Base, NEW s \in Server, NEW r \in Request, inbox[r] # <<>>,
         at' = at, inbox' = Executed(r)
  PROVE  /\ Holders(s)' \in Nat
         /\ Holders(s)' + One(Head(inbox[r]) = Call("release", s)) = Holders(s)
<1>1. inbox \in [Request -> Seq(Message)] /\ Executes(inbox, inbox', r)
  BY DEF Base, MailOK, Executed, Executes
<1>2. /\ IsFiniteSet(Freeing(inbox', s))
      /\ Cardinality(Freeing(inbox', s)) + One(Head(inbox[r]) = Call("release", s)) =
        Cardinality(Freeing(inbox, s))
  BY <1>1, HoldersSplit, FreeingExecuted
<1>3. Cardinality(Freeing(inbox', s)) \in Nat /\ One(Head(inbox[r]) = Call("release", s)) \in Nat
  BY <1>2, FS_CardinalityType DEF One
<1> QED  BY <1>2, <1>3, HoldersSplit

\* What CountsCovered says of one server.
Covered(s) ==
  /\ inflight[s] <= Holders(s)
  /\ restarts = 0 /\ s \notin recounted => inflight[s] = Holders(s)

\* The counters are covered, step by step.
LEMMA CountStep == IInv /\ [Next]_vars => CountsCovered'
<1> SUFFICES ASSUME Base, CountsCovered, Lives, [Next]_vars
             PROVE  CountsCovered'
  BY DEF IInv
<1> USE DEF Base
<1>0. ASSUME \A s \in Server : Holders(s)' = Holders(s),
             UNCHANGED <<inflight, restarts, recounted>>
      PROVE  CountsCovered'
  BY <1>0 DEF CountsCovered
<1>1. ASSUME NEW r \in Request, Acquire(r)
      PROVE  CountsCovered'
  <2>0. /\ at[r] = None /\ inbox[r] # <<>> /\ inbox' = Executed(r)
        /\ UNCHANGED <<restarts, recounted>>
    BY <1>1, AcquireWaits DEF Acquire, Receives, history
  <2>1. ASSUME NEW s \in Server
        PROVE  Cardinality(Freeing(inbox', s)) = Cardinality(Freeing(inbox, s))
    <3>1. inbox \in [Request -> Seq(Message)] /\ Executes(inbox, inbox', r)
      BY <2>0 DEF MailOK, Executed, Executes
    <3>2. /\ IsFiniteSet(Freeing(inbox', s))
          /\ Cardinality(Freeing(inbox', s)) + One(Head(inbox[r]) = Call("release", s)) =
            Cardinality(Freeing(inbox, s))
      BY <2>0, <3>1, HoldersSplit, FreeingExecuted
    <3>3. One(Head(inbox[r]) = Call("release", s)) = 0
      BY <1>1 DEF Acquire, Receives, Call, One
    <3>4. Cardinality(Freeing(inbox', s)) \in Nat
      BY <3>2, FS_CardinalityType
    <3> QED  BY <3>2, <3>3, <3>4
  <2>2. CASE UNCHANGED <<inflight, at>>
    <3>1. ASSUME NEW s \in Server
          PROVE  Holders(s)' = Holders(s)
      BY <2>1, <2>2, HoldersSplit
    <3> QED  BY <1>0, <2>0, <2>2, <3>1
  <2>3. ASSUME NEW z \in Pick(r), at' = [at EXCEPT ![r] = z],
               inflight' = [inflight EXCEPT ![z] = @ + 1]
        PROVE  CountsCovered'
    <3>1. z \in Server
      BY <2>3, PicksRoutable DEF CoreOK, Routable
    <3>2. ASSUME NEW s \in Server
          PROVE  Covered(s)'
      <4>1. at \in [Request -> Server \cup {None}] /\ Moves(at, at', r, z)
        BY <2>3 DEF ClientOK, Moves
      <4>2. /\ Cardinality(Placed(at', s)) \in Nat
            /\ Cardinality(Placed(at', s)) + One(at[r] = s) =
                 Cardinality(Placed(at, s)) + One(z = s)
        BY <4>1, PlacedMoves
      <4>3. One(at[r] = s) = 0
        BY <2>0, RoutingAssumption DEF One
      <4>4. /\ Holders(s) = Cardinality(Placed(at, s)) + Cardinality(Freeing(inbox, s))
            /\ Holders(s)' = Cardinality(Placed(at', s)) + Cardinality(Freeing(inbox, s))
            /\ Cardinality(Placed(at, s)) \in Nat /\ Cardinality(Freeing(inbox, s)) \in Nat
        BY <2>1, HoldersSplit
      <4>7. One(z = s) \in Nat
        BY DEF One
      <4>5. Holders(s)' = Holders(s) + One(z = s) /\ Holders(s) \in Nat
        BY <4>2, <4>3, <4>4, <4>7
      <4>6. inflight'[s] = inflight[s] + One(z = s) /\ inflight[s] \in Nat
        BY <2>3, <3>1 DEF CoreOK, One
      <4> QED  BY <2>0, <4>5, <4>6, <4>7 DEF Covered, CountsCovered
    <3> QED  BY <3>2 DEF Covered, CountsCovered
  <2> QED  BY <1>1, <2>2, <2>3 DEF Acquire, Pick
<1>2. ASSUME NEW r \in Request, Resolve(r)
      PROVE  CountsCovered'
  <2>0. /\ phase[r] = "resolving" /\ at[r] \in Server
        /\ UNCHANGED <<inbox, inflight, restarts, recounted, known>>
    BY <1>2 DEF Resolve, ClientOK, Places, core, history
  <2>1. CASE at' = at
    BY <1>0, <2>0, <2>1 DEF Holders, Releases
  <2>2. CASE at[r] \notin known /\ at' = [at EXCEPT ![r] = None]
    <3>1. restarts # 0
      BY <2>0, <2>2 DEF Lives, Reported
    <3>2. ASSUME NEW s \in Server
          PROVE  Covered(s)'
      <4>1. at \in [Request -> Server \cup {None}] /\ Moves(at, at', r, None)
        BY <2>2 DEF ClientOK, Moves
      <4>2. /\ Cardinality(Placed(at', s)) \in Nat
            /\ Cardinality(Placed(at', s)) + One(at[r] = s) =
                 Cardinality(Placed(at, s)) + One(None = s)
        BY <4>1, PlacedMoves
      <4>3. One(None = s) = 0
        BY RoutingAssumption DEF One
      <4>4. /\ Holders(s) = Cardinality(Placed(at, s)) + Cardinality(Freeing(inbox, s))
            /\ Holders(s)' = Cardinality(Placed(at', s)) + Cardinality(Freeing(inbox, s))
            /\ Cardinality(Placed(at, s)) \in Nat /\ Cardinality(Freeing(inbox, s)) \in Nat
        BY <2>0, HoldersSplit
      <4>5. CASE at[r] = s
        <5>1. inflight'[s] = 0
          BY <2>0, <2>2, <4>5 DEF Unknown
        <5> QED  BY <2>0, <3>1, <4>2, <4>4, <5>1 DEF Covered
      <4>6. CASE at[r] # s
        <5>1. One(at[r] = s) = 0
          BY <4>6 DEF One
        <5>2. Holders(s)' = Holders(s)
          BY <4>2, <4>3, <4>4, <5>1
        <5> QED  BY <2>0, <5>2 DEF Covered, CountsCovered
      <4> QED  BY <4>5, <4>6
    <3> QED  BY <3>2 DEF Covered, CountsCovered
  <2> QED  BY <1>2, <2>1, <2>2 DEF Resolve
<1>3. ASSUME NEW r \in Request, Release(r)
      PROVE  CountsCovered'
  <2> DEFINE z == Head(inbox[r]).server
  <2>1. inbox[r] # <<>> /\ at' = at /\ inbox' = Executed(r)
    BY <1>3 DEF Release, Receives, client
  <2>2. /\ UNCHANGED <<restarts, recounted>>
        /\ inflight' = IF z \in known /\ inflight[z] > 0
                       THEN [inflight EXCEPT ![z] = @ - 1] ELSE inflight
    BY <1>3 DEF Release, history
  <2>3. ASSUME NEW s \in Server
        PROVE  Head(inbox[r]) = Call("release", s) <=> z = s
    <3>1. inbox[r] \in Seq(Message)
      BY DEF MailOK
    <3>2. Head(inbox[r]) \in Message
      BY <2>1, <3>1, HeadTailProperties
    <3>3. Head(inbox[r]).op = "release"
      BY <1>3 DEF Release, Receives
    <3> HIDE DEF z
    <3> QED  BY <3>2, <3>3 DEF Message, Call, z
  <2> HIDE DEF z
  <2>4. ASSUME NEW s \in Server
        PROVE  Covered(s)'
    <3>1. /\ Holders(s)' + One(Head(inbox[r]) = Call("release", s)) = Holders(s)
          /\ Holders(s) \in Nat /\ Holders(s)' \in Nat
      BY <2>1, HoldersExecuted, HoldersSplit
    <3>2. Holders(s)' = IF z = s THEN Holders(s) - 1 ELSE Holders(s)
      <4>1. One(Head(inbox[r]) = Call("release", s)) = IF z = s THEN 1 ELSE 0
        BY <2>3 DEF One
      <4> QED  BY <3>1, <4>1
    <3>3. inflight[s] \in Nat /\ (s \notin known => inflight[s] = 0)
      BY DEF CoreOK, Unknown
    <3>4. CASE z = s
      <4>1. inflight'[s] = IF inflight[s] > 0 THEN inflight[s] - 1 ELSE 0
        BY <2>2, <3>3, <3>4 DEF CoreOK
      <4>2. Holders(s)' = Holders(s) - 1 /\ Holders(s) > 0
        <5>1. One(Head(inbox[r]) = Call("release", s)) = 1
          BY <2>3, <3>4 DEF One
        <5> QED  BY <3>1, <5>1
      <4> QED  BY <2>2, <3>1, <3>3, <4>1, <4>2 DEF Covered, CountsCovered
    <3>5. CASE z # s
      <4>1. inflight'[s] = inflight[s]
        BY <2>2, <3>5 DEF CoreOK
      <4> QED  BY <2>2, <3>2, <3>5, <4>1 DEF Covered, CountsCovered
    <3> QED  BY <3>4, <3>5
  <2> QED  BY <2>4 DEF Covered, CountsCovered
<1>4. ASSUME NEW r \in Request, MarkFailed(r)
      PROVE  CountsCovered'
  <2>1. ASSUME NEW s \in Server
        PROVE  Holders(s)' = Holders(s)
    <3>1. inbox[r] # <<>> /\ Head(inbox[r]) # Call("release", s)
      BY <1>4 DEF MarkFailed, Receives, Call
    <3>2. at' = at /\ inbox' = Executed(r)
      BY <1>4 DEF MarkFailed
    <3>3. /\ Holders(s)' + One(Head(inbox[r]) = Call("release", s)) = Holders(s)
          /\ Holders(s)' \in Nat
      BY <3>1, <3>2, HoldersExecuted
    <3>4. One(Head(inbox[r]) = Call("release", s)) = 0
      BY <3>1 DEF One
    <3> QED  BY <3>3, <3>4
  <2>2. UNCHANGED <<inflight, restarts, recounted>>
    BY <1>4 DEF MarkFailed, core, history
  <2> QED  BY <1>0, <2>1, <2>2
<1>5. ASSUME NEW r \in Request, Generate(r)
      PROVE  CountsCovered'
  <2>1. ASSUME NEW s \in Server
        PROVE  Holders(s)' = Holders(s)
    <3>1. Call("acquire", None) \in Message /\ Call("acquire", None).op # "release"
      BY <1>5, CallTyped DEF Generate, ClientOK, Places
    <3>2. at' = at /\ inbox' = Send(r, Call("acquire", None))
      BY <1>5 DEF Generate
    <3> QED  BY <3>1, <3>2, HoldersSent
  <2>2. UNCHANGED <<inflight, restarts, recounted>>
    BY <1>5 DEF Generate, core, history
  <2> QED  BY <1>0, <2>1, <2>2
<1>6. ASSUME NEW r \in Request, Return(r)
      PROVE  CountsCovered'
  <2>1. ASSUME NEW s \in Server
        PROVE  Holders(s)' = Holders(s)
    <3>1. at[r] \in Server
      BY <1>6 DEF Return, ClientOK, Places
    <3>2. /\ at' = [at EXCEPT ![r] = None]
          /\ \/ inbox' = [inbox EXCEPT ![r] = Freed(r)]
             \/ inbox' = [inbox EXCEPT ![r] = Append(Freed(r), Call("acquire", None))]
      BY <1>6 DEF Return, Leave, Send, Freed
    <3> QED  BY <3>1, <3>2, HoldersFreed
  <2>2. UNCHANGED <<inflight, restarts, recounted>>
    BY <1>6 DEF Return, core, history
  <2> QED  BY <1>0, <2>1, <2>2
<1>7. ASSUME NEW r \in Request, Fault(r)
      PROVE  CountsCovered'
  <2>1. ASSUME NEW s \in Server
        PROVE  Holders(s)' = Holders(s)
    <3>1. Call("mark", at[r]) \in Message /\ Call("mark", at[r]).op # "release"
      BY <1>7, CallTyped DEF Fault, ClientOK, Places
    <3>2. at' = at /\ inbox' = Send(r, Call("mark", at[r]))
      BY <1>7 DEF Fault
    <3> QED  BY <3>1, <3>2, HoldersSent
  <2>2. UNCHANGED <<inflight, restarts, recounted>>
    BY <1>7 DEF Fault, core, history
  <2> QED  BY <1>0, <2>1, <2>2
<1>8. ASSUME NEW r \in Request, MarkTimeout(r)
      PROVE  CountsCovered'
  <2>1. UNCHANGED <<at, inbox, inflight, restarts, recounted>>
    BY <1>8 DEF MarkTimeout, core, client, history
  <2> QED  BY <1>0, <2>1 DEF Holders, Releases
<1>9. ASSUME NEW r \in Request, VersionRace(r)
      PROVE  CountsCovered'
  <2>1. UNCHANGED <<at, inbox, inflight, restarts, recounted>>
    BY <1>9 DEF VersionRace, core, client, history
  <2> QED  BY <1>0, <2>1 DEF Holders, Releases
<1>10. ASSUME NEW r \in Request, Retry(r)
      PROVE  CountsCovered'
  <2>1. ASSUME NEW s \in Server
        PROVE  Holders(s)' = Holders(s)
    <3>1. at[r] \in Server
      BY <1>10 DEF Retry, ClientOK, Places
    <3>2. /\ at' = [at EXCEPT ![r] = None]
          /\ \/ inbox' = [inbox EXCEPT ![r] = Freed(r)]
             \/ inbox' = [inbox EXCEPT ![r] = Append(Freed(r), Call("acquire", None))]
      BY <1>10 DEF Retry
    <3> QED  BY <3>1, <3>2, HoldersFreed
  <2>2. UNCHANGED <<inflight, restarts, recounted>>
    BY <1>10 DEF Retry, core, history
  <2> QED  BY <1>0, <2>1, <2>2
<1>11. ASSUME NEW r \in Request, Aborted(r)
      PROVE  CountsCovered'
  <2>1. ASSUME NEW s \in Server
        PROVE  Holders(s)' = Holders(s)
    <3>1. at[r] \in Server
      BY <1>11 DEF Aborted, ClientOK, Places
    <3>2. /\ at' = [at EXCEPT ![r] = None]
          /\ \/ inbox' = [inbox EXCEPT ![r] = Freed(r)]
             \/ inbox' = [inbox EXCEPT ![r] = Append(Freed(r), Call("acquire", None))]
      BY <1>11 DEF Aborted
    <3> QED  BY <3>1, <3>2, HoldersFreed
  <2>2. UNCHANGED <<inflight, restarts, recounted>>
    BY <1>11 DEF Aborted, core, history
  <2> QED  BY <1>0, <2>1, <2>2
<1>12. ASSUME NEW s \in Server, Die(s)
      PROVE  CountsCovered'
  <2>1. UNCHANGED <<at, inbox, inflight, restarts, recounted>>
    BY <1>12 DEF Die, core, client, history
  <2> QED  BY <1>0, <2>1 DEF Holders, Releases
<1>13. ASSUME NEW s \in Server, Isolate(s)
      PROVE  CountsCovered'
  <2>1. UNCHANGED <<at, inbox, inflight, restarts, recounted>>
    BY <1>13 DEF Isolate, core, client, history
  <2> QED  BY <1>0, <2>1 DEF Holders, Releases
<1>14. ASSUME NEW s \in Server, Admit(s)
      PROVE  CountsCovered'
  <2>1. UNCHANGED <<at, inbox, inflight, restarts, recounted>>
    BY <1>14 DEF Admit, core, client, history
  <2> QED  BY <1>0, <2>1 DEF Holders, Releases
<1>15. CASE AddServers
  <2> DEFINE z == Head(control).server
  <2>1. ASSUME NEW s \in Server
        PROVE  Holders(s)' = Holders(s) /\ Holders(s) \in Nat
    <3>1. UNCHANGED <<at, inbox>>
      BY <1>15 DEF AddServers, client
    <3>2. Holders(s)' = Holders(s)
      BY <3>1 DEF Holders, Releases
    <3> QED  BY <3>2, HoldersSplit
  <2>2. /\ restarts' = restarts /\ z \in Server
        /\ recounted' = IF z \in dead THEN recounted \cup {z} ELSE recounted
        /\ inflight' = IF z \in dead \/ z \notin known
                       THEN [inflight EXCEPT ![z] = 0] ELSE inflight
    BY <1>15, ControlTyped DEF AddServers
  <2> HIDE DEF z
  <2>3. ASSUME NEW s \in Server
        PROVE  Covered(s)'
    <3>1. CASE s = z /\ z \in dead
      <4>1. inflight'[s] = 0 /\ s \in recounted'
        BY <2>2, <3>1 DEF CoreOK
      <4> QED  BY <2>1, <4>1 DEF Covered
    <3>2. CASE ~(s = z /\ z \in dead)
      <4>1. inflight'[s] = inflight[s]
        BY <2>2, <3>2 DEF CoreOK, Unknown
      <4>2. s \in recounted => s \in recounted'
        BY <2>2
      <4> QED  BY <2>1, <2>2, <4>1, <4>2 DEF Covered, CountsCovered
    <3> QED  BY <3>1, <3>2
  <2> QED  BY <2>3 DEF Covered, CountsCovered
<1>16. CASE RemoveServers
  <2>1. UNCHANGED <<at, inbox, inflight, restarts, recounted>>
    BY <1>16 DEF RemoveServers, core, client, history
  <2> QED  BY <1>0, <2>1 DEF Holders, Releases
<1>17. CASE Restart
  <2>1. ASSUME NEW s \in Server
        PROVE  /\ Holders(s)' = Holders(s) /\ Holders(s) \in Nat
               /\ inflight'[s] = 0 /\ restarts' # 0
    <3>1. UNCHANGED <<at, inbox>> /\ inflight'[s] = 0 /\ restarts' = restarts + 1
      BY <1>17 DEF Restart, client
    <3>2. Holders(s)' = Holders(s)
      BY <3>1 DEF Holders, Releases
    <3> QED  BY <3>1, <3>2, HoldersSplit DEF CoreOK
  <2> QED  BY <2>1 DEF CountsCovered
<1>18. CASE UNCHANGED vars
  <2>1. UNCHANGED <<at, inbox, inflight, restarts, recounted>>
    BY <1>18 DEF vars, core, client, history
  <2> QED  BY <1>0, <2>1 DEF Holders, Releases
<1> QED
  BY <1>1, <1>2, <1>3, <1>4, <1>5, <1>6, <1>7, <1>8, <1>9,
     <1>10, <1>11, <1>12, <1>13, <1>14, <1>15, <1>16, <1>17, <1>18 DEF Next, Balance, Serve

-----------------------------------------------------------------------------
(***************************************************************************)
(* Who is out of the routing.                                               *)
(***************************************************************************)

\* A report stays in the mailbox until it is executed.
LEMMA MarkedSent ==
  ASSUME NEW b \in Seq(Message), NEW c \in Message, NEW s, Marked(b, s) \/ c = Call("mark", s)
  PROVE  Marked(Append(b, c), s)
<1> DEFINE d == Append(b, c)
<1>1. /\ Len(b) \in Nat /\ DOMAIN b = 1..Len(b) /\ DOMAIN d = 1..(Len(b) + 1)
      /\ \A i \in 1..Len(b) : d[i] = b[i]
      /\ d[Len(b) + 1] = c
  OBVIOUS
<1> HIDE DEF d
<1>2. CASE Marked(b, s)
  <2>1. PICK i \in 1..Len(b) : b[i] = Call("mark", s)
    BY <1>1, <1>2 DEF Marked
  <2>2. i \in DOMAIN d /\ d[i] = Call("mark", s)
    BY <1>1, <2>1
  <2> QED  BY <2>2 DEF Marked, d
<1>3. CASE c = Call("mark", s)
  <2>1. Len(b) + 1 \in DOMAIN d
    BY <1>1
  <2> QED  BY <1>1, <1>3, <2>1 DEF Marked, d
<1> QED  BY <1>2, <1>3

LEMMA MarkedExecuted ==
  ASSUME NEW b \in Seq(Message), b # <<>>, NEW s, Marked(b, s), Head(b) # Call("mark", s)
  PROVE  Marked(Tail(b), s)
<1> DEFINE d == Tail(b)
<1>1. /\ Len(b) \in Nat \ {0} /\ DOMAIN b = 1..Len(b) /\ DOMAIN d = 1..(Len(b) - 1)
      /\ \A i \in 1..(Len(b) - 1) : d[i] = b[i + 1]
      /\ Head(b) = b[1]
  OBVIOUS
<1> HIDE DEF d
<1>2. PICK i \in 1..Len(b) : b[i] = Call("mark", s)
  BY <1>1 DEF Marked
<1>3. i # 1
  BY <1>1, <1>2
<1>4. i - 1 \in DOMAIN d /\ d[i - 1] = b[i]
  BY <1>1, <1>3
<1> QED  BY <1>2, <1>4 DEF Marked, d

\* An acquire finds every reported server out of the routing.
LEMMA ReportsExecuted ==
  ASSUME Base, Lives, restarts = 0, NEW r \in Request, Receives(r, "acquire")
  PROVE  shunned[r] \cap Routable = {}
<1>1. inbox[r] \in Seq(Message) /\ Len(inbox[r]) = 1 /\ inbox[r][1].op = "acquire"
  BY AcquireWaits DEF Base, MailOK
<1>2. \A s : ~Marked(inbox[r], s)
  BY <1>1 DEF Marked, Call
<1> QED  BY <1>2 DEF Lives, Reported

\* Step by step.
LEMMA LivesStep == IInv /\ [Next]_vars => Lives'
<1> SUFFICES ASSUME Base, Lives, [Next]_vars
             PROVE  Lives'
  BY DEF IInv
<1> USE RoutingAssumption DEF Base
<1>0. ASSUME restarts' = 0 =>
               /\ (removed \cap Routable)' = {}
               /\ \A q \in Request : at'[q] \in Server => at'[q] \in known'
               /\ \A q \in Request : Reported(q)'
      PROVE  Lives'
  BY <1>0 DEF Lives
<1>1. ASSUME NEW r \in Request, Acquire(r)
      PROVE  Lives'
  <2>1. /\ UNCHANGED <<known, dead, restarts, removed, shunned>>
        /\ \A q \in Request : q # r => inbox'[q] = inbox[q]
    BY <1>1 DEF Acquire, history, Executed, MailOK
  <2>2. Routable' = Routable
    BY <2>1 DEF Routable
  <2>3. ASSUME restarts = 0, NEW q \in Request
        PROVE  Reported(q)'
    <3>1. CASE q = r
      <4>1. shunned[r] \cap Routable = {}
        BY <1>1, <2>3, ReportsExecuted DEF Acquire
      <4> QED  BY <2>1, <2>2, <3>1, <4>1 DEF Reported
    <3>2. CASE q # r
      BY <2>1, <2>2, <2>3, <3>2 DEF Lives, Reported
    <3> QED  BY <3>1, <3>2
  <2>4. ASSUME restarts = 0, NEW q \in Request, at'[q] \in Server
        PROVE  at'[q] \in known
    <3>1. CASE at' = at
      BY <2>4, <3>1 DEF Lives, Reported
    <3>2. ASSUME NEW s \in Pick(r), at' = [at EXCEPT ![r] = s]
          PROVE  at'[q] \in known
      <4>1. s \in known
        BY <3>2, PicksRoutable DEF Routable
      <4> QED  BY <2>4, <3>2, <4>1 DEF Lives, Reported, ClientOK
    <3> QED  BY <1>1, <3>1, <3>2 DEF Acquire, Pick
  <2> QED  BY <1>0, <2>1, <2>2, <2>3, <2>4 DEF Lives, Reported
<1>2. ASSUME NEW r \in Request, Resolve(r)
      PROVE  Lives'
  <2>1. UNCHANGED <<known, dead, restarts, removed, inbox, shunned>>
    BY <1>2 DEF Resolve, core, history, world
  <2>2. Routable' = Routable
    BY <2>1 DEF Routable
  <2>3. \A q \in Request : at'[q] \in {at[q], None}
    BY <1>2 DEF Resolve, ClientOK
  <2> QED  BY <1>0, <2>1, <2>2, <2>3, RoutingAssumption DEF Lives, Reported
<1>3. ASSUME NEW r \in Request, Release(r)
      PROVE  Lives'
  <2>1. UNCHANGED <<known, dead, restarts, removed, shunned, at>>
    BY <1>3 DEF Release, history, client
  <2>2. Routable' = Routable
    BY <2>1 DEF Routable
  <2>3. ASSUME restarts = 0, NEW q \in Request
        PROVE  Reported(q)'
    <3>1. /\ inbox[r] # <<>> /\ inbox[r] \in Seq(Message)
          /\ \A s : Head(inbox[r]) # Call("mark", s)
      BY <1>3 DEF Release, Receives, Call, MailOK
    <3>2. inbox'[q] = IF q = r THEN Tail(inbox[r]) ELSE inbox[q]
      BY <1>3 DEF Release, Executed, MailOK
    <3>3. \A s \in shunned[q] \cap Routable : Marked(inbox[q], s)
      BY <2>3 DEF Lives, Reported
    <3> QED  BY <2>1, <2>2, <3>1, <3>2, <3>3, MarkedExecuted DEF Reported
  <2> QED  BY <1>0, <2>1, <2>2, <2>3 DEF Lives, Reported
<1>4. ASSUME NEW r \in Request, MarkFailed(r)
      PROVE  Lives'
  <2> DEFINE z == Head(inbox[r]).server
  <2>1. /\ UNCHANGED <<known, restarts, removed, shunned, at>>
        /\ dead' = dead \cup ({z} \cap known)
    BY <1>4 DEF MarkFailed, history
  <2>2. Routable' = Routable \ {z}
    BY <2>1 DEF Routable
  <2>3. ASSUME restarts = 0, NEW q \in Request
        PROVE  Reported(q)'
    <3>1. inbox[r] # <<>> /\ inbox[r] \in Seq(Message)
      BY <1>4 DEF MarkFailed, Receives, MailOK
    <3>2. \A s : s # z => Head(inbox[r]) # Call("mark", s)
      BY DEF Call
    <3>3. inbox'[q] = IF q = r THEN Tail(inbox[r]) ELSE inbox[q]
      BY <1>4 DEF MarkFailed, Executed, MailOK
    <3>4. \A s \in shunned[q] \cap Routable : Marked(inbox[q], s)
      BY <2>3 DEF Lives, Reported
    <3> HIDE DEF z
    <3> QED  BY <2>1, <2>2, <3>1, <3>2, <3>3, <3>4, MarkedExecuted DEF Reported
  <2> HIDE DEF z
  <2> QED  BY <1>0, <2>1, <2>2, <2>3 DEF Lives, Reported
<1>5. ASSUME NEW r \in Request, Generate(r)
      PROVE  Lives'
  <2>1. /\ UNCHANGED <<known, dead, restarts, removed>>
        /\ \A q \in Request : q # r => inbox'[q] = inbox[q] /\ shunned'[q] = shunned[q]
        /\ \A q \in Request : at'[q] \in {at[q], None}
    BY <1>5 DEF Generate, core, history, Histories, Send, MailOK, ClientOK
  <2>2. ASSUME restarts = 0
        PROVE  Reported(r)'
    <3>1. shunned'[r] = {}
      BY <1>5 DEF Generate, Histories
    <3> QED  BY <3>1 DEF Reported
  <2>3. Routable' = Routable
    BY <2>1 DEF Routable
  <2>4. ASSUME restarts = 0, NEW q \in Request, q # r
        PROVE  Reported(q)'
    BY <2>1, <2>3, <2>4 DEF Lives, Reported
  <2>5. restarts = 0 => \A q \in Request : Reported(q)'
    BY <2>2, <2>4
  <2> QED  BY <1>0, <2>1, <2>3, <2>5, RoutingAssumption DEF Lives, Reported
<1>6. ASSUME NEW r \in Request, Return(r)
      PROVE  Lives'
  <2>1. /\ UNCHANGED <<known, dead, restarts, removed>>
        /\ \A q \in Request : q # r => inbox'[q] = inbox[q] /\ shunned'[q] = shunned[q]
        /\ \A q \in Request : at'[q] \in {at[q], None}
    BY <1>6 DEF Return, core, history, Histories, Send, MailOK, ClientOK, Leave
  <2>2. ASSUME restarts = 0
        PROVE  Reported(r)'
    <3>1. inbox[r] \in Seq(Message) /\ at[r] \in Server \cup {None} /\ None \in Server \cup {None}
      BY DEF MailOK, ClientOK
    <3>2. \A s \in shunned[r] \cap Routable : Marked(inbox[r], s)
      BY <2>2 DEF Lives, Reported
    <3>3. shunned'[r] = shunned[r] /\ Routable' = Routable
      BY <1>6, <2>1 DEF Return, Routable, history
    <3>4. inbox'[r] = Append(inbox[r], Call("release", at[r]))
      BY <1>6 DEF Return, Leave, Send, MailOK
    <3>5. Call("release", at[r]) \in Message
      BY <3>1, CallTyped
    <3> QED  BY <3>1, <3>2, <3>3, <3>4, <3>5, MarkedSent DEF Reported
  <2>3. Routable' = Routable
    BY <2>1 DEF Routable
  <2>4. ASSUME restarts = 0, NEW q \in Request, q # r
        PROVE  Reported(q)'
    BY <2>1, <2>3, <2>4 DEF Lives, Reported
  <2>5. restarts = 0 => \A q \in Request : Reported(q)'
    BY <2>2, <2>4
  <2> QED  BY <1>0, <2>1, <2>3, <2>5, RoutingAssumption DEF Lives, Reported
<1>7. ASSUME NEW r \in Request, Fault(r)
      PROVE  Lives'
  <2>1. /\ UNCHANGED <<known, dead, restarts, removed>>
        /\ \A q \in Request : q # r => inbox'[q] = inbox[q] /\ shunned'[q] = shunned[q]
        /\ \A q \in Request : at'[q] \in {at[q], None}
    BY <1>7 DEF Fault, core, history, Histories, Send, MailOK, ClientOK
  <2>2. ASSUME restarts = 0
        PROVE  Reported(r)'
    <3>1. inbox[r] \in Seq(Message) /\ at[r] \in Server \cup {None}
      BY DEF MailOK, ClientOK
    <3>2. \A s \in shunned[r] \cap Routable : Marked(inbox[r], s)
      BY <2>2 DEF Lives, Reported
    <3>3. shunned'[r] = shunned[r] \cup {at[r]} /\ Routable' = Routable
      BY <1>7, <2>1 DEF Fault, Routable, Histories
    <3>4. inbox'[r] = Append(inbox[r], Call("mark", at[r]))
      BY <1>7 DEF Fault, Send, MailOK
    <3>5. Call("mark", at[r]) \in Message
      BY <3>1, CallTyped
    <3>6. ASSUME NEW s \in (shunned[r] \cap Routable)'
          PROVE  Marked(inbox[r], s) \/ Call("mark", at[r]) = Call("mark", s)
      BY <3>2, <3>3, <3>6
    <3> QED  BY <3>1, <3>4, <3>5, <3>6, MarkedSent DEF Reported
  <2>3. Routable' = Routable
    BY <2>1 DEF Routable
  <2>4. ASSUME restarts = 0, NEW q \in Request, q # r
        PROVE  Reported(q)'
    BY <2>1, <2>3, <2>4 DEF Lives, Reported
  <2>5. restarts = 0 => \A q \in Request : Reported(q)'
    BY <2>2, <2>4
  <2> QED  BY <1>0, <2>1, <2>3, <2>5, RoutingAssumption DEF Lives, Reported
<1>8. ASSUME NEW r \in Request, MarkTimeout(r)
      PROVE  Lives'
  <2>1. UNCHANGED <<known, dead, restarts, removed, inbox, shunned, at>>
    BY <1>8 DEF MarkTimeout, core, history, client, world
  <2>2. Routable' = Routable
    BY <2>1 DEF Routable
  <2> QED  BY <1>0, <2>1, <2>2 DEF Lives, Reported
<1>9. ASSUME NEW r \in Request, VersionRace(r)
      PROVE  Lives'
  <2>1. UNCHANGED <<known, dead, restarts, removed, inbox, shunned, at>>
    BY <1>9 DEF VersionRace, core, history, client, world
  <2>2. Routable' = Routable
    BY <2>1 DEF Routable
  <2> QED  BY <1>0, <2>1, <2>2 DEF Lives, Reported
<1>10. ASSUME NEW r \in Request, Retry(r)
      PROVE  Lives'
  <2>1. /\ UNCHANGED <<known, dead, restarts, removed>>
        /\ \A q \in Request : q # r => inbox'[q] = inbox[q] /\ shunned'[q] = shunned[q]
        /\ \A q \in Request : at'[q] \in {at[q], None}
    BY <1>10 DEF Retry, core, history, Histories, Send, MailOK, ClientOK
  <2>2. ASSUME restarts = 0
        PROVE  Reported(r)'
    <3>1. inbox[r] \in Seq(Message) /\ at[r] \in Server \cup {None} /\ None \in Server \cup {None}
      BY DEF MailOK, ClientOK
    <3>2. \A s \in shunned[r] \cap Routable : Marked(inbox[r], s)
      BY <2>2 DEF Lives, Reported
    <3>3. shunned'[r] = shunned[r] /\ Routable' = Routable
      BY <1>10, <2>1 DEF Retry, Routable, history
    <3>4. /\ Freed(r) = Append(inbox[r], Call("release", at[r]))
          /\ inbox'[r] \in {Freed(r), Append(Freed(r), Call("acquire", None))}
      BY <1>10 DEF Retry, Freed, MailOK
    <3>5. Call("release", at[r]) \in Message /\ Call("acquire", None) \in Message
      BY <3>1, CallTyped
    <3>6. Freed(r) \in Seq(Message)
      BY <3>1, <3>4, <3>5
    <3>7. \A s \in shunned[r] \cap Routable : Marked(Freed(r), s)
      BY <3>1, <3>2, <3>4, <3>5, MarkedSent DEF Reported
    <3>8. \A s \in shunned[r] \cap Routable : Marked(Append(Freed(r), Call("acquire", None)), s)
      BY <3>5, <3>6, <3>7, MarkedSent
    <3> QED  BY <3>3, <3>4, <3>7, <3>8 DEF Reported
  <2>3. Routable' = Routable
    BY <2>1 DEF Routable
  <2>4. ASSUME restarts = 0, NEW q \in Request, q # r
        PROVE  Reported(q)'
    BY <2>1, <2>3, <2>4 DEF Lives, Reported
  <2>5. restarts = 0 => \A q \in Request : Reported(q)'
    BY <2>2, <2>4
  <2> QED  BY <1>0, <2>1, <2>3, <2>5, RoutingAssumption DEF Lives, Reported
<1>11. ASSUME NEW r \in Request, Aborted(r)
      PROVE  Lives'
  <2>1. /\ UNCHANGED <<known, dead, restarts, removed>>
        /\ \A q \in Request : q # r => inbox'[q] = inbox[q] /\ shunned'[q] = shunned[q]
        /\ \A q \in Request : at'[q] \in {at[q], None}
    BY <1>11 DEF Aborted, core, history, Histories, Send, MailOK, ClientOK
  <2>2. ASSUME restarts = 0
        PROVE  Reported(r)'
    <3>1. inbox[r] \in Seq(Message) /\ at[r] \in Server \cup {None} /\ None \in Server \cup {None}
      BY DEF MailOK, ClientOK
    <3>2. \A s \in shunned[r] \cap Routable : Marked(inbox[r], s)
      BY <2>2 DEF Lives, Reported
    <3>3. shunned'[r] = shunned[r] /\ Routable' = Routable
      BY <1>11, <2>1 DEF Aborted, Routable, history
    <3>4. /\ Freed(r) = Append(inbox[r], Call("release", at[r]))
          /\ inbox'[r] \in {Freed(r), Append(Freed(r), Call("acquire", None))}
      BY <1>11 DEF Aborted, Freed, MailOK
    <3>5. Call("release", at[r]) \in Message /\ Call("acquire", None) \in Message
      BY <3>1, CallTyped
    <3>6. Freed(r) \in Seq(Message)
      BY <3>1, <3>4, <3>5
    <3>7. \A s \in shunned[r] \cap Routable : Marked(Freed(r), s)
      BY <3>1, <3>2, <3>4, <3>5, MarkedSent DEF Reported
    <3>8. \A s \in shunned[r] \cap Routable : Marked(Append(Freed(r), Call("acquire", None)), s)
      BY <3>5, <3>6, <3>7, MarkedSent
    <3> QED  BY <3>3, <3>4, <3>7, <3>8 DEF Reported
  <2>3. Routable' = Routable
    BY <2>1 DEF Routable
  <2>4. ASSUME restarts = 0, NEW q \in Request, q # r
        PROVE  Reported(q)'
    BY <2>1, <2>3, <2>4 DEF Lives, Reported
  <2>5. restarts = 0 => \A q \in Request : Reported(q)'
    BY <2>2, <2>4
  <2> QED  BY <1>0, <2>1, <2>3, <2>5, RoutingAssumption DEF Lives, Reported
<1>12. ASSUME NEW s \in Server, Die(s)
      PROVE  Lives'
  <2>1. UNCHANGED <<known, dead, restarts, removed, inbox, shunned, at>>
    BY <1>12 DEF Die, core, history, client, world
  <2>2. Routable' = Routable
    BY <2>1 DEF Routable
  <2> QED  BY <1>0, <2>1, <2>2 DEF Lives, Reported
<1>13. ASSUME NEW s \in Server, Isolate(s)
      PROVE  Lives'
  <2>1. UNCHANGED <<known, dead, restarts, removed, inbox, shunned, at>>
    BY <1>13 DEF Isolate, core, history, client, world
  <2>2. Routable' = Routable
    BY <2>1 DEF Routable
  <2> QED  BY <1>0, <2>1, <2>2 DEF Lives, Reported
<1>14. ASSUME NEW s \in Server, Admit(s)
      PROVE  Lives'
  <2>1. UNCHANGED <<known, dead, restarts, removed, inbox, shunned, at>>
    BY <1>14 DEF Admit, core, history, client, world
  <2>2. Routable' = Routable
    BY <2>1 DEF Routable
  <2> QED  BY <1>0, <2>1, <2>2 DEF Lives, Reported
<1>15. CASE AddServers
  <2> DEFINE z == Head(control).server
  <2>1. /\ UNCHANGED <<restarts, inbox, at>>
        /\ known' = known \cup {z} /\ dead' = dead \ {z} /\ removed' = removed \ {z}
        /\ \A q \in Request : shunned'[q] = shunned[q] \ {z}
    BY <1>15 DEF AddServers, client, Histories
  <2> HIDE DEF z
  <2>2. Routable' \subseteq Routable \cup {z}
    BY <2>1 DEF Routable
  <2> QED  BY <1>0, <2>1, <2>2 DEF Lives, Reported
<1>16. CASE RemoveServers
  <2> DEFINE z == Head(control).server
  <2>1. /\ UNCHANGED <<restarts, inbox, at, known, shunned>>
        /\ dead' = dead \cup ({z} \cap known) /\ removed' = removed \cup {z}
    BY <1>16 DEF RemoveServers, client
  <2> HIDE DEF z
  <2>2. Routable' = Routable \ {z}
    BY <2>1 DEF Routable
  <2> QED  BY <1>0, <2>1, <2>2 DEF Lives, Reported
<1>17. CASE Restart
  <2>1. restarts' # 0
    BY <1>17 DEF Restart, CoreOK
  <2> QED  BY <2>1 DEF Lives, Reported
<1>18. CASE UNCHANGED vars
  <2>1. UNCHANGED <<known, dead, restarts, removed, inbox, shunned, at>>
    BY <1>18 DEF vars, core, history, client, world
  <2>2. Routable' = Routable
    BY <2>1 DEF Routable
  <2> QED  BY <1>0, <2>1, <2>2 DEF Lives, Reported
<1> QED
  BY <1>1, <1>2, <1>3, <1>4, <1>5, <1>6, <1>7, <1>8, <1>9,
     <1>10, <1>11, <1>12, <1>13, <1>14, <1>15, <1>16, <1>17, <1>18 DEF Next, Balance, Serve

-----------------------------------------------------------------------------
(***************************************************************************)
(* The theorems.                                                            *)
(***************************************************************************)
LEMMA Initially == Init => IInv
<1> SUFFICES ASSUME Init
             PROVE  IInv
  OBVIOUS
<1> USE RoutingAssumption DEF Init
<1>1. CoreOK /\ Unknown /\ ClientOK /\ Histories /\ Lives
  BY DEF CoreOK, Unknown, ClientOK, Places, Histories, Lives, Reported
<1>2. CacheOK
  BY FS_EmptySet DEF CacheOK, Ages
<1>3. MailOK
  <2>1. <<>> \in Seq(Message) /\ Mail(<<>>, "idle")
    BY DEF Mail, NoAcquire
  <2> QED  BY <2>1 DEF MailOK
<1>4. WorldOK
  BY DEF WorldOK
<1>5. Base
  BY <1>1, <1>2, <1>3, <1>4 DEF Base
<1>6. ASSUME NEW s \in Server
      PROVE  Holders(s) = 0 /\ inflight[s] = 0
  <2>1. Placed(at, s) = {} /\ Freeing(inbox, s) = {}
    BY DEF Placed, Freeing
  <2>2. Holders(s) = Cardinality(Placed(at, s)) + Cardinality(Freeing(inbox, s))
    BY <1>5, HoldersSplit
  <2> QED  BY <2>1, <2>2, FS_EmptySet
<1>7. CountsCovered
  BY <1>6 DEF CountsCovered
<1> QED  BY <1>1, <1>5, <1>7 DEF IInv

LEMMA Invariance == Spec => []IInv
<1>1. IInv /\ [Next]_vars => IInv'
  BY BaseStep, CountStep, LivesStep DEF IInv
<1> QED  BY Initially, <1>1, PTL DEF Spec

\* The bookkeeping of the balancer holds for any servers, clients, retries and
\* restarts: its types, and that every request it counts is at the server or
\* has its release on the way, with equality until a counter is reset.
THEOREM CountersAgree == Spec => []Balanced
<1>1. IInv => Balanced
  <2> SUFFICES ASSUME IInv
               PROVE  Balanced
    OBVIOUS
  <2>1. ASSUME NEW r \in Request
        PROVE  Len(inbox[r]) <= 3
    <3>1. inbox[r] \in Seq(Message) /\ Mail(inbox[r], phase[r]) /\ Len(inbox[r]) \in Nat
      BY DEF IInv, Base, MailOK
    <3> QED  BY <3>1 DEF Mail
  <2>2. TypeOK
    BY <2>1 DEF IInv, Base, TypeOK, CoreOK, CacheOK, ClientOK, MailOK, WorldOK
  <2> QED  BY <2>2 DEF Balanced, IInv
<1> QED  BY Invariance, <1>1, PTL

\* As long as the balancer lives, no client is sent to a removed server, nor to
\* one it has itself reported during the same call: for any number of servers,
\* clients and retries, whatever marks and releases are late.
THEOREM RoutingIsFresh == Spec => RoutedFresh
<1> DEFINE A == restarts = 0 =>
       \A r \in Request : at'[r] # at[r] => at'[r] \notin removed \cup shunned[r]
<1>1. IInv /\ [Next]_vars => A
  <2> SUFFICES ASSUME IInv, [Next]_vars, restarts = 0, NEW q \in Request, at'[q] # at[q]
               PROVE  at'[q] \notin removed \cup shunned[q]
    OBVIOUS
  <2> USE DEF IInv, Base
  <2>1. None \notin removed \cup shunned[q]
    BY RoutingAssumption DEF Histories
  <2>2. ASSUME NEW r \in Request, Acquire(r)
        PROVE  at'[q] \notin removed \cup shunned[q]
    <3>1. PICK s \in Pick(r) : at' = [at EXCEPT ![r] = s]
      BY <2>2 DEF Acquire, Pick
    <3>2. q = r /\ at'[q] = s
      BY <3>1 DEF ClientOK
    <3>3. s \in Routable
      BY <3>1, PicksRoutable
    <3>4. shunned[r] \cap Routable = {}
      BY <2>2, ReportsExecuted DEF Acquire
    <3> QED  BY <3>2, <3>3, <3>4 DEF Lives, Reported
  <2>3. ASSUME NEW r \in Request, Resolve(r) \/ Return(r) \/ Retry(r) \/ Aborted(r)
        PROVE  at'[q] \notin removed \cup shunned[q]
    <3>1. at'[q] \in {at[q], None}
      BY <2>3 DEF Resolve, Return, Leave, Retry, Aborted, ClientOK
    <3> QED  BY <2>1, <3>1
  <2>4. ASSUME NEW r \in Request, \/ Release(r) \/ MarkFailed(r) \/ Generate(r) \/ Fault(r)
                                  \/ MarkTimeout(r) \/ VersionRace(r)
        PROVE  FALSE
    <3>1. at' = at
      BY <2>4 DEF Release, MarkFailed, Generate, Fault, MarkTimeout, VersionRace, client
    <3> QED  BY <3>1
  <2>5. CASE \/ \E s \in Server : Die(s) \/ Isolate(s) \/ Admit(s)
             \/ AddServers \/ RemoveServers \/ Restart \/ UNCHANGED vars
    <3>1. at' = at
      BY <2>5 DEF Die, Isolate, Admit, AddServers, RemoveServers, Restart, vars, client
    <3> QED  BY <3>1
  <2> QED  BY <2>2, <2>3, <2>4, <2>5 DEF Next, Balance, Serve
<1>2. A => [A]_vars
  OBVIOUS
<1> QED  BY Invariance, <1>1, PTL DEF Spec, RoutedFresh, A

=============================================================================
