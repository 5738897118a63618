------------------------- MODULE ProgressStore_proofs -------------------------
(***************************************************************************)
(* The progress store, for any number of streams, saves, stalled writes,    *)
(* failed deletions and sweeps: what the store's index calls live is on     *)
(* disk, a resumed request continues one snapshot, the count of pending     *)
(* saves is exact, and a slot never goes back to an older attempt.          *)
(***************************************************************************)
EXTENDS ProgressStore, FiniteSetTheorems, FunctionTheorems, SequenceTheorems, TLAPS

-----------------------------------------------------------------------------
(***************************************************************************)
(* The inductive invariant.                                                 *)
(***************************************************************************)

\* The saves that streams may have sent so far; what a file may hold.
Sent == {p \in Save : p[1] <= created /\ p[2] <= p[1] * MaxFlushes}
Content == Sent \cup {Missing}
At0 == {"sleep", "next", "enter", "files", "rmdir", "done"}
Deleting == {"enter", "files", "rmdir", "done"}
Handle == (Place \X Attempt) \cup {Nowhere}

\* A stream of attempt n was created after n - 1 others, and starts from what
\* one of them has saved.
Streams ==
  /\ attempt \in [Stream -> Nat] /\ tokens \in [Stream -> Nat]
  /\ flushed \in [Stream -> 0 .. MaxFlushes] /\ created \in 0 .. MaxStreams
  /\ wire \in [Stream -> Seq(Save)]
  /\ \A s \in Stream :
       IF s <= created
       THEN attempt[s] \in 1 .. s /\ tokens[s] <= (s - 1) * MaxFlushes + flushed[s]
       ELSE attempt[s] = 0 /\ tokens[s] = 0 /\ flushed[s] = 0
  /\ \A s \in Stream : \A i \in DOMAIN wire[s] : wire[s][i] \in Sent

\* What load_latest has read, where the client is in create_or_resume.
Reading ==
  /\ client \in {"ready", "reading", "marking", "waiting", "failed"}
  /\ found \in [tokens : Content, manifest : Content]
  /\ client \in {"ready", "waiting", "failed"} => found = Unread
  /\ client = "reading" =>
       /\ created < MaxStreams /\ latest \in Attempt
       /\ found.manifest # Missing /\ found.tokens = Missing
  /\ client = "marking" => created > 0 /\ attempt[created] - 1 \in Attempt

\* The queue, its count, and the save being written, which is never of an
\* older attempt than the slot.
Writing ==
  /\ queue \in Seq(Save) /\ \A i \in DOMAIN queue : queue[i] \in Sent
  /\ writer.step \in {"idle", "tokens", "manifest", "swap", "place", "clean"}
  /\ writer \in [step : {"idle", "tokens", "manifest", "swap", "place", "clean"},
                 save : Content]
  /\ writer.step = "idle" <=> writer = Idle
  /\ writer # Idle => writer.save \in Sent /\ latest <= AttemptOf(writer.save)
  /\ pending \in 0 .. Cap /\ PendingCounts
  /\ latest \in 0 .. MaxStreams /\ latest <= created
  /\ Indexed = {} => latest = 0

Standing == {"none", "live", "eligible"}
Record   == [attempt : Attempt, again : BOOLEAN]
Slots ==
  /\ index \in [Attempt -> Standing] /\ heap \in Seq(Record)
  /\ renewed \subseteq Attempt

\* The collector: it deletes the attempt at the head of its list, or sweeps.
Collected ==
  /\ gc \in [at : At0, todo : Seq(Attempt), dir : Handle, path : Handle, ok : BOOLEAN]
  /\ stalls \in Nat /\ rmFails \in Nat /\ sweeps \in Nat
  /\ gc.at \in Deleting <=> gc.path # Nowhere
  /\ gc.path # Nowhere /\ gc.path[1] = "final" => gc.todo # <<>> /\ gc.path[2] = Head(gc.todo)
  /\ gc.path # Nowhere /\ gc.path[1] # "final" => sweeps > 0
  /\ gc.dir # Nowhere =>
       /\ gc.at \in {"files", "rmdir"} /\ gc.dir[2] = gc.path[2]
       /\ gc.path[1] = "final" => gc.dir[1] \in {"final", "old"}

Folder == [there : BOOLEAN, tokens : Content, manifest : Content]
OnDisk ==
  /\ disk \in [Attempt -> [Place -> Folder]]
  /\ straggler \subseteq File \X Sent
  /\ stalls = 0 => straggler = {}

Types == Streams /\ Reading /\ Writing /\ Slots /\ Collected /\ OnDisk

\* Both files of a directory are there; a directory holds one save only.
Full(d) == d.tokens # Missing /\ d.manifest # Missing
OfOne(d) == d.tokens # Missing /\ d.manifest # Missing => d.tokens = d.manifest

\* A live attempt is on disk, in the directory that the save of this attempt has
\* moved away while it replaces it.
LiveFiles ==
  \A a \in Attempt :
    index[a] = "live" /\ a \notin Collecting /\ sweeps = 0 =>
      \/ Full(disk[a]["final"])
      \/ writer.step = "place" /\ AttemptOf(writer.save) = a /\ Full(disk[a]["old"])

\* What a save has written before it is renamed is complete, and so is what it
\* has put in place, unless the collector is after it.
Written ==
  sweeps = 0 /\ writer # Idle =>
    LET d == disk[AttemptOf(writer.save)] IN
    /\ writer.step = "manifest" => d["tmp"].tokens # Missing
    /\ writer.step \in {"swap", "place"} => Full(d["tmp"])
    /\ writer.step = "clean" /\ AttemptOf(writer.save) \notin Collecting => Full(d["final"])

\* Without a write that outlives its timeout, a directory holds one save.
Snapshots ==
  stalls = 0 =>
    /\ \A a \in Attempt : OfOne(disk[a]["final"]) /\ OfOne(disk[a]["old"])
    /\ writer.step \in {"tokens", "manifest", "swap", "place"} =>
         \A f \in File : disk[AttemptOf(writer.save)]["tmp"][f] \in {Missing, writer.save}
    /\ client = "reading" => disk[latest]["final"].tokens \in {Missing, found.manifest}
    /\ client = "marking" => found.tokens = found.manifest

\* The save of attempt a has moved the old directory away and not committed.
Busy(a) == writer.step \in {"place", "clean"} /\ AttemptOf(writer.save) = a

\* Without failures and renewals a deletion fails only if a save takes the
\* directory away, which then renews the attempt; the .tmp of a save is not
\* swept while the collector deletes attempts.
Deletion ==
  rmFails = 0 /\ renewed = {} /\ gc.path # Nowhere /\ gc.path[1] = "final" =>
    /\ gc.at = "files" => gc.dir = gc.path \/ Busy(gc.path[2])
    /\ gc.at = "rmdir" => At(gc.path) = Empty \/ Busy(gc.path[2])
    /\ gc.at = "done" /\ ~gc.ok => Busy(gc.path[2])
TmpStays ==
  gc.path # Nowhere /\ gc.path[1] = "final" /\ writer.step \in {"swap", "place"} =>
    disk[AttemptOf(writer.save)]["tmp"] # Absent

\* The attempts that have a record in the heap h or in the list t of attempts
\* to delete; none of them failed, and all in the order of their numbers.
RecordsOf(h, t) == {h[i].attempt : i \in DOMAIN h} \cup {t[i] : i \in DOMAIN t}
InOrder(h, t) ==
  /\ \A i \in DOMAIN h : ~h[i].again
  /\ \A i, j \in DOMAIN h : i < j => h[i].attempt < h[j].attempt
  /\ \A i, j \in DOMAIN t : i < j => t[i] < t[j]
  /\ \A i \in DOMAIN t, j \in DOMAIN h : t[i] < h[j].attempt

\* The records are those of the eligible attempts, in order, and only the latest
\* attempt is live.
Ordered ==
  rmFails = 0 /\ renewed = {} =>
    /\ InOrder(heap, gc.todo)
    /\ \A a \in Attempt : index[a] = "eligible" <=> a \in Collecting
    /\ \A a \in Attempt : index[a] = "live" => a = latest
    /\ \A a \in Collecting : a <= latest

IInv ==
  /\ Types /\ LiveFiles /\ Written /\ Snapshots
  /\ LatestIsIndexed /\ Deletion /\ TmpStays /\ Ordered

-----------------------------------------------------------------------------
(***************************************************************************)
(* Arithmetic of the bounds, and the elements of a sequence at positions.   *)
(***************************************************************************)

\* Streams in order have room for what they inherit and what they send.
LEMMA Room ==
  /\ MaxStreams \in Nat \ {0} /\ MaxFlushes \in Nat \ {0} /\ Cap \in Nat \ {0}
  /\ MaxLen \in Nat \ {0}
  /\ \A m, n \in Nat : m <= n => m * MaxFlushes <= n * MaxFlushes
  /\ \A s \in Stream : (s - 1) * MaxFlushes + MaxFlushes = s * MaxFlushes
  /\ \A s \in Stream : s * MaxFlushes \in Nat /\ s * MaxFlushes <= MaxLen
  /\ \A s \in Stream : (s - 1) * MaxFlushes \in Nat
PROOF
<1>0. /\ MaxStreams \in Nat \ {0} /\ MaxFlushes \in Nat \ {0} /\ Cap \in Nat \ {0}
  BY ProgressAssumption
<1>1. MaxLen \in Nat \ {0}
  BY <1>0 DEF MaxLen
<1>2. \A m, n \in Nat : m <= n => m * MaxFlushes <= n * MaxFlushes
  BY <1>0
<1>3. \A s \in Stream : (s - 1) * MaxFlushes + MaxFlushes = s * MaxFlushes
  BY <1>0 DEF Stream
<1>4. \A s \in Stream : s * MaxFlushes \in Nat /\ s * MaxFlushes <= MaxLen
  <2>1. TAKE s \in Stream
  <2>2. s \in Nat /\ s <= MaxStreams
    BY <1>0 DEF Stream
  <2>3. s * MaxFlushes <= MaxStreams * MaxFlushes
    BY <1>0, <1>2, <2>2
  <2>4. s * MaxFlushes \in Nat
    BY <1>0, <2>2
  <2> QED BY <2>3, <2>4 DEF MaxLen
<1>5. \A s \in Stream : (s - 1) * MaxFlushes \in Nat
  BY <1>0 DEF Stream
<1> QED BY <1>0, <1>1, <1>2, <1>3, <1>4, <1>5

\* No save is the missing one, and no place is nowhere.
LEMMA Markers ==
  /\ Missing \notin Save
  /\ \A p \in Place, a \in Attempt : <<p, a>> # Nowhere /\ <<p, a>>[1] = p /\ <<p, a>>[2] = a
  /\ Missing \in Content
  /\ Sent \subseteq Save
PROOF
<1>1. Missing \notin Save
  BY Room DEF Missing, Save, Stream
<1> QED BY <1>1 DEF Missing, Nowhere, Place, Content, Sent

\* The n-th element of a finite set of numbers.
LEMMA NthFacts ==
  ASSUME NEW I \in SUBSET Nat, IsFiniteSet(I)
  PROVE  /\ Cardinality(I) \in Nat
         /\ \A n \in 1 .. Cardinality(I) : Nth(I, n) \in I
         /\ \A m, n \in 1 .. Cardinality(I) : m < n => Nth(I, m) < Nth(I, n)
         /\ \A i \in I : \E n \in 1 .. Cardinality(I) : Nth(I, n) = i
PROOF
<1> DEFINE Upto(i) == {j \in I : j <= i}
           rank == [i \in I |-> Cardinality(Upto(i))]
<1>1. Cardinality(I) \in Nat
  BY FS_CardinalityType
<1>2. \A i \in I : /\ IsFiniteSet(Upto(i)) /\ Upto(i) \subseteq I /\ i \in Upto(i)
                   /\ Cardinality(Upto(i)) \in 1 .. Cardinality(I)
  <2>1. TAKE i \in I
  <2>2. Upto(i) \in SUBSET I /\ i \in Upto(i)
    OBVIOUS
  <2>3. IsFiniteSet(Upto(i)) /\ Cardinality(Upto(i)) <= Cardinality(I)
    BY <2>2, FS_Subset, Zenon
  <2>4. Cardinality(Upto(i)) \in Nat
    BY <2>3, FS_CardinalityType, Zenon
  <2>5. Cardinality(Upto(i)) # 0
    BY <2>2, <2>3, FS_EmptySet, Zenon
  <2> HIDE DEF Upto
  <2> QED BY <1>1, <2>2, <2>3, <2>4, <2>5
<1>3. \A i, j \in I : i < j => rank[i] < rank[j]
  <2>1. SUFFICES ASSUME NEW i \in I, NEW j \in I, i < j
                 PROVE  Cardinality(Upto(i)) < Cardinality(Upto(j))
    OBVIOUS
  <2>0. \A k \in I : k \in Nat
    OBVIOUS
  <2>2. Upto(i) \in SUBSET Upto(j) /\ j \notin Upto(i) /\ j \in Upto(j)
    <3>1. \A k \in Upto(i) : k \in I /\ k <= j
      BY <2>0, <2>1
    <3>2. Upto(i) \in SUBSET Upto(j)
      BY <3>1
    <3>3. ~ (j <= i)
      BY <2>0, <2>1
    <3>4. j <= j
      BY <2>0
    <3> QED BY <3>2, <3>3, <3>4
  <2>3. IsFiniteSet(Upto(j)) /\ Cardinality(Upto(i)) \in Nat /\ Cardinality(Upto(j)) \in Nat
    BY <1>2
  <2> HIDE DEF Upto
  <2>4. /\ Cardinality(Upto(i)) <= Cardinality(Upto(j))
        /\ Cardinality(Upto(j)) = Cardinality(Upto(i)) => Upto(j) = Upto(i)
    BY <2>2, <2>3, FS_Subset, Zenon
  <2> QED BY <2>2, <2>3, <2>4
<1> HIDE DEF Upto
<1>4. rank \in [I -> 1 .. Cardinality(I)]
  BY <1>2
<1>5. \A i, j \in I : rank[i] = rank[j] => i = j
  <2>1. SUFFICES ASSUME NEW i \in I, NEW j \in I, i # j
                 PROVE  rank[i] # rank[j]
    OBVIOUS
  <2>2. i \in Nat /\ j \in Nat /\ rank[i] \in 1 .. Cardinality(I) /\ rank[j] \in 1 .. Cardinality(I)
    BY <1>4
  <2>3. CASE i < j
    BY <1>1, <1>3, <2>2, <2>3
  <2>4. CASE j < i
    BY <1>1, <1>3, <2>2, <2>4
  <2> QED BY <2>1, <2>2, <2>3, <2>4
<1>6. rank \in Surjection(I, 1 .. Cardinality(I))
  <2>1. rank \in Injection(I, 1 .. Cardinality(I))
    BY <1>4, <1>5, Zenon DEF Injection, IsInjective
  <2>2. 1 \in Int /\ Cardinality(I) \in Int
    BY <1>1
  <2>3. IsFiniteSet(1 .. Cardinality(I))
        /\ Cardinality(1 .. Cardinality(I)) = IF 1 > Cardinality(I) THEN 0 ELSE Cardinality(I) - 1 + 1
    BY <2>2, FS_Interval, Zenon
  <2>4. Cardinality(I) = Cardinality(1 .. Cardinality(I))
    BY <1>1, <2>3
  <2> QED BY <2>1, <2>3, <2>4, FS_Injection, Zenon
<1>7. \A n \in 1 .. Cardinality(I) : \E i \in I : rank[i] = n
  BY <1>6, Zenon DEF Surjection
<1>8. \A n \in 1 .. Cardinality(I) : Nth(I, n) \in I /\ rank[Nth(I, n)] = n
  <2>1. TAKE n \in 1 .. Cardinality(I)
  <2>2. \E i \in I : Cardinality(Upto(i)) = n
    BY <1>7
  <2>3. Nth(I, n) = CHOOSE i \in I : Cardinality(Upto(i)) = n
    BY DEF Nth, Upto
  <2>4. Nth(I, n) \in I /\ Cardinality(Upto(Nth(I, n))) = n
    BY <2>2, <2>3, Zenon
  <2> QED BY <2>4
<1>9. \A m, n \in 1 .. Cardinality(I) : m < n => Nth(I, m) < Nth(I, n)
  <2>1. SUFFICES ASSUME NEW m \in 1 .. Cardinality(I), NEW n \in 1 .. Cardinality(I), m < n,
                        ~ (Nth(I, m) < Nth(I, n))
                 PROVE  FALSE
    OBVIOUS
  <2>2. /\ Nth(I, m) \in I /\ Nth(I, n) \in I
        /\ rank[Nth(I, m)] = m /\ rank[Nth(I, n)] = n
    BY <1>8
  <2>3. Nth(I, m) \in Nat /\ Nth(I, n) \in Nat
    BY <2>2
  <2>4. Nth(I, n) < Nth(I, m)
    BY <2>1, <2>2, <2>3
  <2>5. rank[Nth(I, n)] < rank[Nth(I, m)]
    BY <1>3, <2>2, <2>4
  <2> HIDE DEF rank
  <2> QED BY <1>1, <2>1, <2>2, <2>5
<1>10. \A i \in I : \E n \in 1 .. Cardinality(I) : Nth(I, n) = i
  <2>1. TAKE i \in I
  <2>2. rank[i] \in 1 .. Cardinality(I)
    BY <1>4
  <2>3. Nth(I, rank[i]) = i
    BY <1>5, <1>8, <2>2
  <2> QED BY <2>2, <2>3
<1> QED BY <1>1, <1>8, <1>9, <1>10

-----------------------------------------------------------------------------
(***************************************************************************)
(* Steps of the streams and the client.                                     *)
(***************************************************************************)

\* Saves stay sent; a save that is being written keeps its attempt.
LEMMA SentStays ==
  ASSUME Streams, created' \in Nat, created <= created',
         \A s \in Stream : s <= created => attempt'[s] = attempt[s]
  PROVE  /\ Sent \subseteq Sent' /\ Content \subseteq Content'
         /\ \A p \in Sent : AttemptOf(p)' = AttemptOf(p) /\ AttemptOf(p) \in Attempt
PROOF
<1>1. Sent \subseteq Sent'
  BY Room DEF Sent, Streams, Save, Stream
<1>2. \A p \in Sent : p[1] \in Stream /\ p[1] <= created
  BY DEF Sent, Save
<1>3. \A p \in Sent : AttemptOf(p)' = AttemptOf(p)
  BY <1>2 DEF AttemptOf
<1>4. \A s \in Stream : s <= created => attempt[s] \in Attempt
  BY Room DEF Streams, Attempt, Stream
<1>5. \A p \in Sent : AttemptOf(p) \in Attempt
  BY <1>2, <1>4 DEF AttemptOf
<1> QED BY <1>1, <1>3, <1>5 DEF Content

\* The step changes streams and client only.
LEMMA ClientStep ==
  ASSUME IInv, UNCHANGED <<store, threads>>, Streams', Reading', created <= created',
         \A s \in Stream : s <= created => attempt'[s] = attempt[s],
         stalls = 0 /\ client' = "reading" =>
           disk[latest]["final"].tokens \in {Missing, found'.manifest},
         stalls = 0 /\ client' = "marking" => found'.tokens = found'.manifest
  PROVE  IInv'
PROOF
<1>0. /\ Types /\ LiveFiles /\ Written /\ Snapshots
      /\ LatestIsIndexed /\ Deletion /\ TmpStays /\ Ordered
      /\ Streams /\ Writing /\ Slots /\ Collected /\ OnDisk
  BY DEF IInv, Types
<1>1. created' \in Nat /\ created \in Nat
  BY <1>0, Room DEF Streams
<1>2. /\ Sent \subseteq Sent' /\ Content \subseteq Content'
      /\ \A p \in Sent : AttemptOf(p)' = AttemptOf(p)
  BY <1>0, <1>1, SentStays
<1>3. /\ queue' = queue /\ pending' = pending /\ index' = index /\ latest' = latest
      /\ heap' = heap /\ writer' = writer /\ renewed' = renewed /\ disk' = disk
      /\ straggler' = straggler /\ gc' = gc /\ stalls' = stalls /\ rmFails' = rmFails
      /\ sweeps' = sweeps
  BY DEF store, slot, threads
<1>4. writer # Idle => writer.save \in Sent /\ AttemptOf(writer.save)' = AttemptOf(writer.save)
  BY <1>0, <1>2, <1>3 DEF Writing, AttemptOf
<1>5. writer.step # "idle" => writer # Idle
  BY DEF Idle
<1>6. Writing'
  <2>1. \A i \in DOMAIN queue : queue[i] \in Sent'
    BY <1>0, <1>2 DEF Writing
  <2>2. writer' # Idle => writer.save \in Sent' /\ latest <= AttemptOf(writer.save)'
    BY <1>0, <1>2, <1>3, <1>4 DEF Writing
  <2>3. latest <= created'
    BY <1>0, <1>1, Room DEF Writing
  <2>4. writer \in [step : {"idle", "tokens", "manifest", "swap", "place", "clean"},
                    save : Content']
    BY <1>0, <1>2 DEF Writing
  <2>5. PendingCounts' /\ Indexed' = Indexed
    BY <1>0, <1>3 DEF Writing, PendingCounts, Indexed
  <2> QED BY <1>0, <1>3, <2>1, <2>2, <2>3, <2>4, <2>5 DEF Writing
<1>7. Slots' /\ Collected'
  BY <1>0, <1>3 DEF Slots, Collected
<1>8. OnDisk'
  <2>1. straggler \subseteq File \X Sent'
    BY <1>0, <1>2 DEF OnDisk
  <2>2. disk \in [Attempt -> [Place -> Folder']]
    <3>1. Folder \subseteq Folder'
      BY <1>2 DEF Folder
    <3>2. disk \in [Attempt -> [Place -> Folder]]
      BY <1>0 DEF OnDisk
    <3> QED BY <3>1, <3>2
  <2> QED BY <1>0, <1>3, <2>1, <2>2 DEF OnDisk
<1>9. LatestIsIndexed' /\ Ordered' /\ Collecting' = Collecting
  BY <1>0, <1>3 DEF LatestIsIndexed, Ordered, Collecting, Indexed
<1>10. Written' /\ LiveFiles'
  BY <1>0, <1>3, <1>4, <1>5, <1>9 DEF Written, LiveFiles
<1>11. Snapshots'
  BY <1>0, <1>3, <1>4, <1>5 DEF Snapshots
<1>12. Deletion'
  BY <1>0, <1>3, <1>4, <1>5 DEF Deletion, Busy, At
<1>13. TmpStays'
  BY <1>0, <1>3, <1>4, <1>5 DEF TmpStays
<1> QED BY <1>6, <1>7, <1>8, <1>9, <1>10, <1>11, <1>12, <1>13 DEF IInv, Types

LEMMA FlushStep ==
  ASSUME IInv, NEW s \in Stream, Flush(s)
  PROVE  IInv'
PROOF
<1>0. Streams /\ Reading /\ Snapshots
  BY DEF IInv, Types
<1>1. /\ s <= created /\ flushed[s] < MaxFlushes
      /\ tokens' = [tokens EXCEPT ![s] = @ + 1]
      /\ flushed' = [flushed EXCEPT ![s] = @ + 1]
      /\ wire' = [wire EXCEPT ![s] = Append(@, <<s, tokens'[s]>>)]
      /\ attempt' = attempt /\ created' = created /\ client' = client /\ found' = found
      /\ UNCHANGED <<store, threads>>
  BY DEF Flush
<1>2. /\ s \in Nat /\ s >= 1 /\ tokens[s] \in Nat /\ flushed[s] \in Nat /\ created \in Nat
      /\ tokens[s] <= (s - 1) * MaxFlushes + flushed[s]
      /\ (s - 1) * MaxFlushes \in Nat
      /\ MaxFlushes \in Nat
  BY <1>0, <1>1, Room DEF Streams, Stream
<1>3. /\ tokens' \in [Stream -> Nat] /\ flushed' \in [Stream -> 0 .. MaxFlushes]
      /\ tokens'[s] = tokens[s] + 1 /\ flushed'[s] = flushed[s] + 1
      /\ \A r \in Stream : r # s => tokens'[r] = tokens[r] /\ flushed'[r] = flushed[r]
  BY <1>0, <1>1, <1>2 DEF Streams
<1>4. tokens'[s] \in Nat /\ tokens'[s] >= 1 /\ tokens'[s] <= s * MaxFlushes
  <2>1. tokens'[s] <= (s - 1) * MaxFlushes + MaxFlushes
    BY <1>1, <1>2, <1>3
  <2>2. (s - 1) * MaxFlushes + MaxFlushes = s * MaxFlushes
    BY Room
  <2> QED BY <1>2, <1>3, <2>1, <2>2
<1>5. <<s, tokens'[s]>> \in Save /\ <<s, tokens'[s]>> \in Sent /\ Sent' = Sent
  BY <1>1, <1>2, <1>4, Room DEF Save, Sent
<1>6. wire' \in [Stream -> Seq(Save)]
  BY <1>0, <1>1, <1>5 DEF Streams
<1>7. \A r \in Stream : \A i \in DOMAIN wire'[r] : wire'[r][i] \in Sent
  <2>1. TAKE r \in Stream
  <2>2. wire[r] \in Seq(Save) /\ \A i \in DOMAIN wire[r] : wire[r][i] \in Sent
    BY <1>0 DEF Streams
  <2>3. CASE r # s
    BY <1>0, <1>1, <2>2, <2>3 DEF Streams
  <2>4. CASE r = s
    <3>1. wire'[r] = Append(wire[r], <<s, tokens'[s]>>)
      BY <1>0, <1>1, <2>4 DEF Streams
    <3>2. TAKE i \in DOMAIN wire'[r]
    <3>3. i \in 1 .. Len(wire[r]) + 1 /\ Len(wire[r]) \in Nat /\ DOMAIN wire[r] = 1 .. Len(wire[r])
      BY <1>5, <2>2, <3>1
    <3>4. wire'[r][i] = IF i = Len(wire[r]) + 1 THEN <<s, tokens'[s]>> ELSE wire[r][i]
      BY <1>5, <2>2, <3>1, <3>3
    <3> QED BY <1>5, <2>2, <3>3, <3>4
  <2> QED BY <2>3, <2>4
<1>8. Streams'
  <2>1. \A r \in Stream :
          IF r <= created
          THEN attempt[r] \in 1 .. r /\ tokens'[r] <= (r - 1) * MaxFlushes + flushed'[r]
          ELSE attempt[r] = 0 /\ tokens'[r] = 0 /\ flushed'[r] = 0
    <3>1. TAKE r \in Stream
    <3>2. CASE r # s
      BY <1>0, <1>3, <3>2 DEF Streams
    <3>3. CASE r = s
      BY <1>0, <1>1, <1>2, <1>3, <3>3 DEF Streams
    <3> QED BY <3>2, <3>3
  <2> QED BY <1>0, <1>1, <1>3, <1>5, <1>6, <1>7, <2>1 DEF Streams
<1>9. Reading'
  BY <1>0, <1>1, <1>5 DEF Reading, Content, store, slot
<1>10. created <= created'
  BY <1>1, <1>2
<1>11. Snapshots
  BY <1>0
<1> QED BY <1>1, <1>8, <1>9, <1>10, <1>11, ClientStep DEF Snapshots

LEMMA AbandonStep ==
  ASSUME IInv, AbandonStream
  PROVE  IInv'
PROOF
<1>0. Streams /\ Reading
  BY DEF IInv, Types
<1>1. /\ client = "waiting" /\ client' = "ready"
      /\ attempt' = attempt /\ tokens' = tokens /\ flushed' = flushed /\ wire' = wire
      /\ created' = created /\ found' = found /\ UNCHANGED <<store, threads>>
  BY DEF AbandonStream
<1>2. Streams' /\ created <= created'
  BY <1>0, <1>1, Room DEF Streams, Sent
<1>3. Reading'
  BY <1>0, <1>1 DEF Reading, Content, Sent
<1> QED BY <1>1, <1>2, <1>3, ClientStep

\* A new stream, of an attempt after the latest and with what a save had.
LEMMA CreateStep ==
  ASSUME IInv, NEW a, NEW n \in Nat, Create(a, n), created < MaxStreams,
         a \in 1 .. created + 1, n <= created * MaxFlushes,
         UNCHANGED <<flushed, wire>>
  PROVE  /\ Streams' /\ created <= created' /\ created' = created + 1
         /\ created \in Nat /\ Sent \subseteq Sent' /\ Content \subseteq Content'
         /\ attempt'[created'] = a
         /\ \A s \in Stream : s <= created => attempt'[s] = attempt[s]
PROOF
<1>0. Streams
  BY DEF IInv, Types
<1>1. /\ created' = created + 1 /\ created \in Nat /\ created' \in Stream /\ created' \in Nat
      /\ created <= created'
  BY <1>0, Room DEF Create, Streams, Stream
<1>2. /\ attempt' = [attempt EXCEPT ![created'] = a]
      /\ tokens' = [tokens EXCEPT ![created'] = n]
  BY DEF Create
<1>3. /\ attempt' \in [Stream -> Nat] /\ tokens' \in [Stream -> Nat]
      /\ attempt'[created'] = a /\ tokens'[created'] = n
      /\ \A s \in Stream : s # created' => attempt'[s] = attempt[s] /\ tokens'[s] = tokens[s]
  BY <1>0, <1>1, <1>2 DEF Streams
<1>4. \A s \in Stream : s <= created => s # created'
  BY <1>1 DEF Stream
<1>5. Sent \subseteq Sent' /\ Content \subseteq Content'
  BY <1>0, <1>1, <1>3, <1>4, SentStays
<1>6. \A s \in Stream :
        IF s <= created'
        THEN attempt'[s] \in 1 .. s /\ tokens'[s] <= (s - 1) * MaxFlushes + flushed[s]
        ELSE attempt'[s] = 0 /\ tokens'[s] = 0 /\ flushed[s] = 0
  <2>1. TAKE s \in Stream
  <2>2. s \in Nat
    BY DEF Stream
  <2>3. CASE s = created'
    <3>1. flushed[s] = 0
      BY <1>0, <1>1, <2>3 DEF Streams
    <3>2. s - 1 = created
      BY <1>1, <2>3
    <3>3. attempt'[s] = a /\ tokens'[s] = n
      BY <1>3, <2>3
    <3>4. created * MaxFlushes \in Nat
      BY <1>1, Room
    <3> QED BY <1>1, <2>3, <3>1, <3>2, <3>3, <3>4
  <2>4. CASE s # created'
    <3>1. s <= created' <=> s <= created
      BY <1>1, <2>2, <2>4
    <3> QED BY <1>0, <1>3, <2>4, <3>1 DEF Streams
  <2> QED BY <2>3, <2>4
<1>7. Streams'
  <2>1. created' \in 0 .. MaxStreams
    BY <1>1 DEF Stream
  <2>2. \A s \in Stream : \A i \in DOMAIN wire[s] : wire[s][i] \in Sent'
    BY <1>0, <1>5 DEF Streams
  <2> QED BY <1>0, <1>3, <1>6, <2>1, <2>2 DEF Streams
<1> QED BY <1>1, <1>3, <1>4, <1>5, <1>7

LEMMA LoadStep ==
  ASSUME IInv, Load
  PROVE  IInv'
PROOF
<1>0. Streams /\ Reading /\ Snapshots /\ Writing /\ OnDisk /\ Slots
  BY DEF IInv, Types
<1> DEFINE dir == disk[latest]["final"]
<1>1. /\ client = "ready" /\ created < MaxStreams
      /\ flushed' = flushed /\ wire' = wire /\ UNCHANGED <<store, threads>> /\ latest' = latest
  BY DEF Load, store, slot
<1>2. created \in Nat /\ latest \in Nat /\ latest <= created /\ found = Unread
  BY <1>0, <1>1, Room DEF Streams, Writing, Reading
<1>3. CASE \E a \in 1 .. created + 1 : StartFresh(a)
  <2>1. PICK a \in 1 .. created + 1 : StartFresh(a)
    BY <1>3
  <2>2. /\ Create(a, 0) /\ client' = "waiting" /\ found' = Unread /\ 0 \in Nat
        /\ 0 <= created * MaxFlushes
    BY <1>2, <2>1, Room DEF StartFresh
  <2>3. /\ Streams' /\ created <= created'
        /\ \A s \in Stream : s <= created => attempt'[s] = attempt[s]
    BY <1>1, <2>1, <2>2, CreateStep
  <2>4. Reading'
    BY <2>2 DEF Reading, Unread, Content
  <2> QED BY <1>1, <2>2, <2>3, <2>4, ClientStep
<1>4. CASE /\ client' = "failed"
           /\ UNCHANGED <<attempt, tokens, created, found>>
  <2>1. Streams' /\ created <= created'
    BY <1>0, <1>1, <1>2, <1>4 DEF Streams, Sent
  <2>2. Reading'
    BY <1>0, <1>2, <1>4 DEF Reading, Unread, Content
  <2> QED BY <1>1, <1>4, <2>1, <2>2, ClientStep
<1>5. CASE /\ latest \in Indexed /\ dir.manifest # Missing
           /\ client' = "reading"
           /\ found' = [manifest |-> dir.manifest, tokens |-> Missing]
           /\ UNCHANGED <<attempt, tokens, created>>
  <2>1. Streams' /\ created <= created' /\ Content' = Content
    BY <1>0, <1>1, <1>2, <1>5 DEF Streams, Sent, Content
  <2>2. latest \in Attempt /\ "final" \in Place
    BY <1>5 DEF Indexed, Place
  <2>3. dir \in [there : BOOLEAN, tokens : Content, manifest : Content]
    BY <1>0, <2>2 DEF OnDisk, Folder
  <2>4. found' \in [tokens : Content, manifest : Content]
    BY <1>5, <2>3 DEF Content
  <2>5. found'.manifest = dir.manifest /\ found'.tokens = Missing
    BY <1>5
  <2>6. Reading'
    BY <1>1, <1>5, <2>1, <2>2, <2>4, <2>5 DEF Reading
  <2>7. stalls = 0 => OfOne(dir)
    BY <1>0, <2>2 DEF Snapshots
  <2>8. stalls = 0 => dir.tokens \in {Missing, found'.manifest}
    BY <1>5, <2>5, <2>7 DEF OfOne
  <2> QED BY <1>1, <1>5, <2>1, <2>6, <2>8, ClientStep
<1>6. latest \in Indexed => latest + 1 \in 1 .. created + 1
  BY <1>2 DEF Indexed, Attempt
<1>7. \/ Indexed = {} /\ StartFresh(1)
      \/ latest \notin Indexed /\ client' = "failed" /\ UNCHANGED <<attempt, tokens, created, found>>
      \/ latest \in Indexed /\ StartFresh(latest + 1)
      \/ /\ latest \in Indexed /\ dir.manifest # Missing
         /\ client' = "reading"
         /\ found' = [manifest |-> dir.manifest, tokens |-> Missing]
         /\ UNCHANGED <<attempt, tokens, created>>
  BY DEF Load
<1>8. 1 \in 1 .. created + 1
  BY <1>2
<1> HIDE DEF dir
<1> QED BY <1>3, <1>4, <1>5, <1>6, <1>7, <1>8

LEMMA ReadStep ==
  ASSUME IInv, ReadTokens
  PROVE  IInv'
PROOF
<1>0. Streams /\ Reading /\ Snapshots /\ Writing /\ OnDisk
  BY DEF IInv, Types
<1> DEFINE read == disk[latest]["final"].tokens
<1>1. /\ client = "reading" /\ created < MaxStreams /\ latest \in Attempt
      /\ found.manifest # Missing
      /\ flushed' = flushed /\ wire' = wire /\ UNCHANGED <<store, threads>> /\ latest' = latest
  BY <1>0 DEF ReadTokens, Reading, store, slot
<1>2. created \in Nat /\ latest \in Nat /\ latest <= created /\ latest + 1 \in 1 .. created + 1
  BY <1>0, <1>1, Room DEF Streams, Writing, Attempt
<1>3. CASE /\ read # Missing /\ read[2] = found.manifest[2]
           /\ Create(latest + 1, read[2])
           /\ client' = "marking" /\ found' = [found EXCEPT !.tokens = read]
  <2>1. read \in Content /\ "final" \in Place
    BY <1>0, <1>1 DEF OnDisk, Place, Folder
  <2>2. read \in Sent
    BY <1>3, <2>1 DEF Content
  <2>3. read[1] \in Stream /\ read[1] <= created /\ read[2] \in Nat /\ read[2] <= read[1] * MaxFlushes
    BY <2>2, Room DEF Sent, Save
  <2>4. read[2] <= created * MaxFlushes
    <3>1. read[1] * MaxFlushes <= created * MaxFlushes
      BY <1>2, <2>3, Room DEF Stream
    <3>2. read[1] * MaxFlushes \in Nat /\ created * MaxFlushes \in Nat
      BY <1>2, <2>3, Room
    <3> QED BY <2>3, <3>1, <3>2
  <2>5. /\ Streams' /\ created <= created' /\ created' = created + 1
        /\ Content \subseteq Content' /\ attempt'[created'] = latest + 1
        /\ \A s \in Stream : s <= created => attempt'[s] = attempt[s]
    BY <1>1, <1>2, <1>3, <2>3, <2>4, CreateStep
  <2>6. found' \in [tokens : Content', manifest : Content']
        /\ found'.tokens = read /\ found'.manifest = found.manifest
    BY <1>0, <1>3, <2>1, <2>5 DEF Reading
  <2>7. Reading'
    <3>1. attempt'[created'] - 1 = latest
      BY <1>2, <2>5
    <3>2. created' > 0
      BY <1>2, <2>5
    <3> QED BY <1>1, <1>3, <2>6, <3>1, <3>2 DEF Reading
  <2>8. stalls = 0 => read \in {Missing, found.manifest}
    BY <1>0, <1>1 DEF Snapshots
  <2>9. client' = "marking"
    BY <1>3
  <2>10. stalls = 0 => found'.tokens = found'.manifest
    BY <1>3, <2>6, <2>8
  <2> QED BY <1>1, <2>5, <2>7, <2>9, <2>10, ClientStep
<1>4. CASE StartFresh(latest + 1)
  <2>2. /\ Create(latest + 1, 0) /\ client' = "waiting" /\ found' = Unread /\ 0 \in Nat
        /\ 0 <= created * MaxFlushes
    BY <1>2, <1>4, Room DEF StartFresh
  <2>3. /\ Streams' /\ created <= created'
        /\ \A s \in Stream : s <= created => attempt'[s] = attempt[s]
    BY <1>1, <1>2, <2>2, CreateStep
  <2>4. Reading'
    BY <2>2 DEF Reading, Unread, Content
  <2> QED BY <1>1, <2>2, <2>3, <2>4, ClientStep
<1> QED BY <1>3, <1>4 DEF ReadTokens

-----------------------------------------------------------------------------
(***************************************************************************)
(* The records of the collector.                                            *)
(***************************************************************************)

LEMMA CollectingIs ==
  /\ Collecting = RecordsOf(heap, gc.todo)
  /\ Collecting' = RecordsOf(heap', gc'.todo)
PROOF BY DEF Collecting, RecordsOf, Range

LEMMA RecordsType ==
  ASSUME heap \in Seq(Record), gc.todo \in Seq(Attempt)
  PROVE  Collecting \subseteq Attempt /\ \A a \in Collecting : a \in Nat
PROOF
<1>1. \A i \in DOMAIN heap : heap[i] \in Record
  OBVIOUS
<1>2. \A r \in Record : r.attempt \in Attempt
  BY DEF Record
<1>3. \A i \in DOMAIN gc.todo : gc.todo[i] \in Attempt
  OBVIOUS
<1>4. Collecting \subseteq Attempt
  BY <1>1, <1>2, <1>3, CollectingIs DEF RecordsOf
<1> QED BY <1>4 DEF Attempt

LEMMA AppendRecord ==
  ASSUME NEW h \in Seq(Record), NEW t \in Seq(Attempt), NEW a \in Attempt, NEW b \in BOOLEAN
  PROVE  LET g == Append(h, [attempt |-> a, again |-> b]) IN
         /\ g \in Seq(Record)
         /\ RecordsOf(g, t) = RecordsOf(h, t) \cup {a}
         /\ InOrder(h, t) /\ ~b /\ (\A c \in RecordsOf(h, t) : c < a) => InOrder(g, t)
PROOF
<1> DEFINE r == [attempt |-> a, again |-> b]
           g == Append(h, r)
<1>1. r \in Record /\ r.attempt = a /\ r.again = b
  BY DEF Record
<1> HIDE DEF r
<1>2. /\ g \in Seq(Record) /\ Len(h) \in Nat /\ DOMAIN h = 1 .. Len(h)
      /\ DOMAIN g = 1 .. Len(h) + 1
      /\ g[Len(h) + 1] = r /\ \A i \in 1 .. Len(h) : g[i] = h[i]
  BY <1>1
<1> HIDE DEF g
<1>3. RecordsOf(g, t) = RecordsOf(h, t) \cup {a}
  <2>1. {g[i].attempt : i \in DOMAIN g} = {h[i].attempt : i \in DOMAIN h} \cup {a}
    <3>1. \A i \in DOMAIN g : i \in DOMAIN h \/ i = Len(h) + 1
      BY <1>2
    <3>2. DOMAIN h \subseteq DOMAIN g /\ Len(h) + 1 \in DOMAIN g
      BY <1>2
    <3> QED BY <1>1, <1>2, <3>1, <3>2
  <2> QED BY <2>1 DEF RecordsOf
<1>4. ASSUME InOrder(h, t), ~b, \A c \in RecordsOf(h, t) : c < a
      PROVE  InOrder(g, t)
  <2>1. /\ \A i \in DOMAIN h : h[i].attempt < a
        /\ \A i \in DOMAIN t : t[i] < a
    BY <1>4 DEF RecordsOf
  <2>2. \A i \in DOMAIN g : ~g[i].again
    BY <1>1, <1>2, <1>4 DEF InOrder
  <2>3. \A i, j \in DOMAIN g : i < j => g[i].attempt < g[j].attempt
    <3>1. SUFFICES ASSUME NEW i \in DOMAIN g, NEW j \in DOMAIN g, i < j
                   PROVE  g[i].attempt < g[j].attempt
      OBVIOUS
    <3>2. i \in 1 .. Len(h) /\ g[i] = h[i]
      BY <1>2, <3>1
    <3>3. CASE j = Len(h) + 1
      BY <1>1, <1>2, <2>1, <3>2, <3>3
    <3>4. CASE j \in 1 .. Len(h)
      BY <1>2, <1>4, <3>1, <3>2, <3>4 DEF InOrder
    <3> QED BY <1>2, <3>3, <3>4
  <2>4. \A i \in DOMAIN t, j \in DOMAIN g : t[i] < g[j].attempt
    <3>1. TAKE i \in DOMAIN t, j \in DOMAIN g
    <3>2. CASE j = Len(h) + 1
      BY <1>1, <1>2, <2>1, <3>2
    <3>3. CASE j \in 1 .. Len(h)
      BY <1>2, <1>4, <3>3 DEF InOrder
    <3> QED BY <1>2, <3>2, <3>3
  <2> QED BY <1>4, <2>2, <2>3, <2>4 DEF InOrder
<1> QED BY <1>2, <1>3, <1>4 DEF g, r

LEMMA DropHead ==
  ASSUME NEW h \in Seq(Record), NEW t \in Seq(Attempt), t # <<>>
  PROVE  /\ Head(t) \in Attempt /\ Tail(t) \in Seq(Attempt)
         /\ RecordsOf(h, t) = RecordsOf(h, Tail(t)) \cup {Head(t)}
         /\ InOrder(h, t) => /\ InOrder(h, Tail(t))
                             /\ \A c \in RecordsOf(h, Tail(t)) : Head(t) < c
PROOF
<1>1. /\ Head(t) \in Attempt /\ Tail(t) \in Seq(Attempt) /\ Len(t) \in Nat /\ Len(t) >= 1
      /\ DOMAIN t = 1 .. Len(t) /\ DOMAIN Tail(t) = 1 .. Len(t) - 1
      /\ Head(t) = t[1]
  OBVIOUS
<1>2. \A i \in 1 .. Len(t) - 1 : Tail(t)[i] = t[i + 1]
  OBVIOUS
<1>3. {t[i] : i \in DOMAIN t} = {Tail(t)[i] : i \in DOMAIN Tail(t)} \cup {Head(t)}
  <2>1. \A i \in DOMAIN t : i = 1 \/ (i - 1 \in DOMAIN Tail(t) /\ t[i] = Tail(t)[i - 1])
    BY <1>1, <1>2
  <2>2. \A i \in DOMAIN Tail(t) : i + 1 \in DOMAIN t /\ Tail(t)[i] = t[i + 1]
    BY <1>1, <1>2
  <2>3. 1 \in DOMAIN t
    BY <1>1
  <2>4. \A i \in DOMAIN t : t[i] \in {Tail(t)[j] : j \in DOMAIN Tail(t)} \cup {Head(t)}
    BY <1>1, <2>1
  <2>5. \A i \in DOMAIN Tail(t) : Tail(t)[i] \in {t[j] : j \in DOMAIN t}
    BY <2>2
  <2>6. Head(t) \in {t[j] : j \in DOMAIN t}
    BY <1>1, <2>3
  <2> QED BY <2>4, <2>5, <2>6
<1>4. ASSUME InOrder(h, t)
      PROVE  /\ InOrder(h, Tail(t))
             /\ \A c \in RecordsOf(h, Tail(t)) : Head(t) < c
  <2>1. \A i \in DOMAIN Tail(t) : i + 1 \in DOMAIN t /\ 1 < i + 1 /\ Tail(t)[i] = t[i + 1]
    BY <1>1, <1>2
  <2>2. 1 \in DOMAIN t
    BY <1>1
  <2>3. \A i, j \in DOMAIN Tail(t) : i < j => Tail(t)[i] < Tail(t)[j]
    <3>1. SUFFICES ASSUME NEW i \in DOMAIN Tail(t), NEW j \in DOMAIN Tail(t), i < j
                   PROVE  Tail(t)[i] < Tail(t)[j]
      OBVIOUS
    <3>2. i + 1 < j + 1
      BY <1>1, <3>1
    <3> QED BY <1>4, <2>1, <3>2 DEF InOrder
  <2>4. \A i \in DOMAIN Tail(t), j \in DOMAIN h : Tail(t)[i] < h[j].attempt
    BY <1>4, <2>1 DEF InOrder
  <2>5. \A i \in DOMAIN Tail(t) : Head(t) < Tail(t)[i]
    BY <1>1, <1>4, <2>1, <2>2 DEF InOrder
  <2>6. \A j \in DOMAIN h : Head(t) < h[j].attempt
    BY <1>1, <1>4, <2>2 DEF InOrder
  <2>7. InOrder(h, Tail(t))
    BY <1>4, <2>3, <2>4 DEF InOrder
  <2> QED BY <2>5, <2>6, <2>7 DEF RecordsOf
<1> QED BY <1>1, <1>3, <1>4 DEF RecordsOf

\* The records that are due go to the list, the others stay: none is lost.
LEMMA PickRecords ==
  ASSUME heap \in Seq(Record), NEW I \in SUBSET DOMAIN heap,
         NEW t, t = Picked([i \in I |-> heap[i].attempt], I),
         NEW g, g = Picked(heap, DOMAIN heap \ I)
  PROVE  /\ t \in Seq(Attempt) /\ g \in Seq(Record)
         /\ RecordsOf(g, t) = RecordsOf(heap, <<>>)
         /\ InOrder(heap, <<>>) /\ Due(I) => InOrder(g, t)
PROOF
<1> DEFINE J == DOMAIN heap \ I
<1>1. /\ DOMAIN heap = 1 .. Len(heap) /\ Len(heap) \in Nat
      /\ \A i \in DOMAIN heap : i \in Nat /\ heap[i] \in Record
             /\ heap[i].attempt \in Attempt
  <2>1. DOMAIN heap = 1 .. Len(heap) /\ Len(heap) \in Nat
    OBVIOUS
  <2>2. \A i \in DOMAIN heap : i \in Nat /\ heap[i] \in Record
    BY <2>1
  <2>3. \A r \in Record : r.attempt \in Attempt
    BY DEF Record
  <2> QED BY <2>1, <2>2, <2>3
<1>2. IsFiniteSet(DOMAIN heap) /\ I \in SUBSET Nat /\ J \in SUBSET Nat
  <2>1. 1 \in Int /\ Len(heap) \in Int
    BY <1>1
  <2>2. IsFiniteSet(1 .. Len(heap))
    BY <2>1, FS_Interval, Zenon
  <2> QED BY <1>1, <2>2
<1>3. IsFiniteSet(I) /\ IsFiniteSet(J)
  BY <1>2, FS_Subset
<1> HIDE DEF J
<1>4. J \in SUBSET DOMAIN heap /\ \A i \in DOMAIN heap : i \in I \/ i \in J
  BY DEF J
<1>5. /\ Cardinality(I) \in Nat
      /\ \A n \in 1 .. Cardinality(I) : Nth(I, n) \in I
      /\ \A m, n \in 1 .. Cardinality(I) : m < n => Nth(I, m) < Nth(I, n)
      /\ \A i \in I : \E n \in 1 .. Cardinality(I) : Nth(I, n) = i
  BY <1>2, <1>3, NthFacts
<1>6. /\ Cardinality(J) \in Nat
      /\ \A n \in 1 .. Cardinality(J) : Nth(J, n) \in J
      /\ \A m, n \in 1 .. Cardinality(J) : m < n => Nth(J, m) < Nth(J, n)
      /\ \A i \in J : \E n \in 1 .. Cardinality(J) : Nth(J, n) = i
  BY <1>2, <1>3, NthFacts
<1>7. t = [n \in 1 .. Cardinality(I) |-> heap[Nth(I, n)].attempt]
  BY <1>5 DEF Picked
<1>8. g = [n \in 1 .. Cardinality(J) |-> heap[Nth(J, n)]]
  BY DEF Picked, J
<1>9. \A n \in 1 .. Cardinality(I) : heap[Nth(I, n)].attempt \in Attempt
  BY <1>1, <1>5
<1>10. \A n \in 1 .. Cardinality(J) : heap[Nth(J, n)] \in Record
  BY <1>1, <1>4, <1>6
<1>11. t \in Seq(Attempt) /\ DOMAIN t = 1 .. Cardinality(I)
  BY <1>5, <1>7, <1>9
<1>12. g \in Seq(Record) /\ DOMAIN g = 1 .. Cardinality(J)
  <2>1. g \in [1 .. Cardinality(J) -> Record]
    BY <1>8, <1>10
  <2> QED BY <1>6, <2>1, SeqDef
<1>13. RecordsOf(g, t) = RecordsOf(heap, <<>>)
  <2>1. RecordsOf(heap, <<>>) = {heap[i].attempt : i \in DOMAIN heap}
    BY DEF RecordsOf
  <2>2. \A n \in DOMAIN t : t[n] \in {heap[i].attempt : i \in DOMAIN heap}
    BY <1>5, <1>7, <1>11
  <2>3. \A n \in DOMAIN g : g[n].attempt \in {heap[i].attempt : i \in DOMAIN heap}
    BY <1>4, <1>6, <1>8, <1>12
  <2>4. \A i \in I : heap[i].attempt \in {t[n] : n \in DOMAIN t}
    <3>1. TAKE i \in I
    <3>2. PICK n \in 1 .. Cardinality(I) : Nth(I, n) = i
      BY <1>5
    <3>3. n \in DOMAIN t /\ t[n] = heap[i].attempt
      BY <1>7, <1>11, <3>2
    <3> QED BY <3>3
  <2>5. \A i \in J : heap[i].attempt \in {g[n].attempt : n \in DOMAIN g}
    <3>1. TAKE i \in J
    <3>2. PICK n \in 1 .. Cardinality(J) : Nth(J, n) = i
      BY <1>6
    <3>3. n \in DOMAIN g /\ g[n] = heap[i]
      BY <1>8, <1>12, <3>2
    <3> QED BY <3>3
  <2>6. \A i \in DOMAIN heap :
          heap[i].attempt \in {g[n].attempt : n \in DOMAIN g} \cup {t[n] : n \in DOMAIN t}
    BY <1>4, <2>4, <2>5
  <2>7. {g[n].attempt : n \in DOMAIN g} \cup {t[n] : n \in DOMAIN t}
          = {heap[i].attempt : i \in DOMAIN heap}
    BY <2>2, <2>3, <2>6
  <2> QED BY <2>1, <2>7 DEF RecordsOf
<1>14. ASSUME InOrder(heap, <<>>), Due(I)
       PROVE  InOrder(g, t)
  <2>1. /\ \A i \in DOMAIN heap : ~heap[i].again
        /\ \A i, j \in DOMAIN heap : i < j => heap[i].attempt < heap[j].attempt
    BY <1>14 DEF InOrder
  <2>2. \A i \in I, j \in J : i < j
    <3>1. TAKE i \in I, j \in J
    <3>2. i \in DOMAIN heap /\ j \in DOMAIN heap /\ j \notin I /\ i \in Nat /\ j \in Nat
      BY <1>1 DEF J
    <3>3. ~ (j < i)
      BY <1>14, <2>1, <3>2 DEF Due
    <3>4. i # j
      BY <3>2
    <3> QED BY <3>2, <3>3, <3>4
  <2>3. \A i \in DOMAIN g : ~g[i].again
    BY <1>4, <1>6, <1>8, <1>12, <2>1
  <2>4. \A i, j \in DOMAIN g : i < j => g[i].attempt < g[j].attempt
    BY <1>4, <1>6, <1>8, <1>12, <2>1
  <2>5. \A i, j \in DOMAIN t : i < j => t[i] < t[j]
    BY <1>5, <1>7, <1>11, <2>1
  <2>6. \A i \in DOMAIN t, j \in DOMAIN g : t[i] < g[j].attempt
    <3>1. TAKE i \in DOMAIN t, j \in DOMAIN g
    <3>2. Nth(I, i) \in I /\ t[i] = heap[Nth(I, i)].attempt
      BY <1>5, <1>7, <1>11
    <3>3. Nth(J, j) \in J /\ g[j] = heap[Nth(J, j)]
      BY <1>6, <1>8, <1>12
    <3>4. Nth(I, i) < Nth(J, j) /\ Nth(I, i) \in DOMAIN heap /\ Nth(J, j) \in DOMAIN heap
      BY <1>4, <2>2, <3>2, <3>3
    <3> QED BY <2>1, <3>2, <3>3, <3>4
  <2> QED BY <2>3, <2>4, <2>5, <2>6 DEF InOrder
<1> QED BY <1>11, <1>12, <1>13, <1>14

\* An attempt that is made eligible gets a record; ix and heap are the slot's.
LEMMA EligibleFacts ==
  ASSUME NEW a \in Attempt, NEW ix \in [Attempt -> Standing], heap \in Seq(Record),
         gc.todo \in Seq(Attempt), gc'.todo = gc.todo, Eligible(a, ix, heap)
  PROVE  /\ index' \in [Attempt -> Standing] /\ heap' \in Seq(Record)
         /\ ix[a] = "live" => index'[a] = "eligible"
         /\ \A b \in Attempt : b # a \/ ix[a] # "live" => index'[b] = ix[b]
         /\ Collecting' = Collecting \cup (IF ix[a] = "live" THEN {a} ELSE {})
         /\ InOrder(heap, gc.todo) /\ (ix[a] = "live" => \A c \in Collecting : c < a)
            => InOrder(heap', gc'.todo)
PROOF
<1>1. Collecting = RecordsOf(heap, gc.todo) /\ Collecting' = RecordsOf(heap', gc.todo)
  BY CollectingIs
<1>2. CASE ix[a] = "live"
  <2>1. /\ index' = [ix EXCEPT ![a] = "eligible"]
        /\ heap' = Append(heap, [attempt |-> a, again |-> FALSE])
    BY <1>2 DEF Eligible
  <2>2. /\ heap' \in Seq(Record)
        /\ RecordsOf(heap', gc.todo) = RecordsOf(heap, gc.todo) \cup {a}
        /\ InOrder(heap, gc.todo) /\ (\A c \in RecordsOf(heap, gc.todo) : c < a)
           => InOrder(heap', gc.todo)
    BY <2>1, AppendRecord
  <2>3. /\ index' \in [Attempt -> Standing] /\ index'[a] = "eligible"
        /\ \A b \in Attempt : b # a => index'[b] = ix[b]
    BY <2>1 DEF Standing
  <2> QED BY <1>1, <1>2, <2>2, <2>3
<1>3. CASE ix[a] # "live"
  BY <1>1, <1>3 DEF Eligible
<1> QED BY <1>2, <1>3

-----------------------------------------------------------------------------
(***************************************************************************)
(* Steps of the event loop that leave the directories alone.                *)
(***************************************************************************)

\* The step creates no stream: saves and their attempts stay what they are.
LEMMA NoStream ==
  ASSUME Streams, UNCHANGED <<attempt, tokens, flushed, wire, created>>
  PROVE  /\ Streams' /\ Sent' = Sent /\ Content' = Content /\ created \in Nat
         /\ \A p \in Sent : AttemptOf(p) \in Attempt
         /\ Save \in SUBSET (Stream \X (1 .. MaxLen))
PROOF
<1>1. Streams' /\ created' \in Nat /\ created <= created'
  BY Room DEF Streams, Sent
<1>2. \A p \in Sent : AttemptOf(p) \in Attempt
  BY <1>1, SentStays
<1> QED BY <1>1, <1>2, Room DEF Sent, Content, Save

\* The save that is being written, and where it goes.
LEMMA WriterFacts ==
  ASSUME Streams, Writing
  PROVE  /\ writer # Idle <=> writer.step # "idle"
         /\ writer # Idle => /\ writer.save \in Sent /\ writer.save \in Save
                             /\ writer.save # Missing
                             /\ AttemptOf(writer.save) \in Attempt
                             /\ latest <= AttemptOf(writer.save)
         /\ latest \in Nat /\ pending \in Nat /\ Len(queue) \in Nat
         /\ writer = [step |-> writer.step, save |-> writer.save]
PROOF
<1>1. writer # Idle => writer.save \in Sent
  BY DEF Writing
<1>2. created \in Nat /\ created <= created
  BY Room DEF Streams
<1>3. \A s \in Stream : s <= created => attempt[s] \in Attempt
  BY Room DEF Streams, Attempt, Stream
<1>4. \A p \in Sent : p[1] \in Stream /\ p[1] <= created
  BY DEF Sent, Save
<1>5. \A p \in Sent : AttemptOf(p) \in Attempt
  BY <1>3, <1>4 DEF AttemptOf
<1> QED BY <1>1, <1>5, Markers, Room DEF Writing, Idle

LEMMA MarkStep ==
  ASSUME IInv, MarkSuperseded
  PROVE  IInv'
PROOF
<1>0. /\ Types /\ LiveFiles /\ Written /\ Snapshots
      /\ LatestIsIndexed /\ Deletion /\ TmpStays /\ Ordered
      /\ Streams /\ Reading /\ Writing /\ Slots /\ Collected /\ OnDisk
  BY DEF IInv, Types
<1> DEFINE a == attempt[created] - 1
<1>1. /\ client = "marking" /\ Eligible(a, index, heap) /\ client' = "waiting" /\ found' = Unread
      /\ UNCHANGED <<attempt, tokens, flushed, wire, created>>
      /\ queue' = queue /\ pending' = pending /\ latest' = latest /\ renewed' = renewed
      /\ writer' = writer /\ disk' = disk /\ straggler' = straggler /\ gc' = gc
      /\ stalls' = stalls /\ rmFails' = rmFails /\ sweeps' = sweeps
  BY DEF MarkSuperseded, threads
<1>2. a \in Attempt
  BY <1>0, <1>1 DEF Reading
<1> HIDE DEF a
<1>3. Streams' /\ Sent' = Sent /\ Content' = Content
  BY <1>0, <1>1, NoStream
<1>4. gc.todo \in Seq(Attempt) /\ gc'.todo = gc.todo
  BY <1>0, <1>1 DEF Collected
<1>5. /\ index' \in [Attempt -> Standing] /\ heap' \in Seq(Record)
      /\ index[a] = "live" => index'[a] = "eligible"
      /\ \A b \in Attempt : b # a \/ index[a] # "live" => index'[b] = index[b]
      /\ Collecting' = Collecting \cup (IF index[a] = "live" THEN {a} ELSE {})
      /\ InOrder(heap, gc.todo) /\ (index[a] = "live" => \A c \in Collecting : c < a)
         => InOrder(heap', gc'.todo)
  BY <1>0, <1>1, <1>2, <1>4, EligibleFacts DEF Slots
<1>6. Indexed' = Indexed /\ \A b \in Attempt : index'[b] = "live" => index[b] = "live"
  BY <1>2, <1>5 DEF Indexed
<1>7. Reading'
  BY <1>1 DEF Reading, Unread, Content
<1>8. Writing'
  BY <1>0, <1>1, <1>3, <1>6 DEF Writing, PendingCounts, AttemptOf
<1>9. Slots' /\ Collected' /\ OnDisk'
  BY <1>0, <1>1, <1>3, <1>5 DEF Slots, Collected, OnDisk, Folder
<1>10. LiveFiles' /\ Written'
  BY <1>0, <1>1, <1>5, <1>6 DEF LiveFiles, Written, AttemptOf
<1>11. Snapshots' /\ Deletion' /\ TmpStays'
  BY <1>0, <1>1 DEF Snapshots, Deletion, TmpStays, AttemptOf, Busy, At
<1>12. LatestIsIndexed'
  BY <1>0, <1>1, <1>6 DEF LatestIsIndexed
<1>13. Ordered'
  <2>1. SUFFICES ASSUME rmFails = 0, renewed = {}
                 PROVE  /\ InOrder(heap', gc'.todo)
                        /\ \A b \in Attempt : index'[b] = "eligible" <=> b \in Collecting'
                        /\ \A b \in Attempt : index'[b] = "live" => b = latest
                        /\ \A b \in Collecting' : b <= latest
    BY <1>1 DEF Ordered
  <2>2. /\ InOrder(heap, gc.todo)
        /\ \A b \in Attempt : index[b] = "eligible" <=> b \in Collecting
        /\ \A b \in Attempt : index[b] = "live" => b = latest
        /\ \A b \in Collecting : b <= latest
    BY <1>0, <2>1 DEF Ordered
  <2>3. Collecting \subseteq Attempt
    BY <1>0, <1>4, RecordsType DEF Slots
  <2>4. index[a] = "live" => \A c \in Collecting : c < a
    <3>1. SUFFICES ASSUME index[a] = "live", NEW c \in Collecting
                   PROVE  c < a
      OBVIOUS
    <3>2. a = latest /\ c <= latest /\ c # a
      BY <1>2, <2>2, <2>3, <3>1
    <3>3. c \in Nat /\ a \in Nat
      BY <1>2, <2>3 DEF Attempt
    <3> QED BY <3>2, <3>3
  <2>5. index[a] = "live" => a <= latest
    BY <1>2, <2>2 DEF Attempt
  <2>6. \A b \in Attempt : index'[b] = "eligible" <=> b \in Collecting'
    BY <1>2, <1>5, <2>2
  <2> QED BY <1>5, <1>6, <2>2, <2>4, <2>5, <2>6
<1> QED BY <1>3, <1>7, <1>8, <1>9, <1>10, <1>11, <1>12, <1>13 DEF IInv, Types

LEMMA ArriveStep ==
  ASSUME IInv, NEW s \in Stream, Arrive(s)
  PROVE  IInv'
PROOF
<1>0. /\ Types /\ LiveFiles /\ Written /\ Snapshots
      /\ LatestIsIndexed /\ Deletion /\ TmpStays /\ Ordered
      /\ Streams /\ Reading /\ Writing /\ Slots /\ Collected /\ OnDisk
  BY DEF IInv, Types
<1>1. /\ wire[s] # <<>> /\ wire' = [wire EXCEPT ![s] = Tail(@)]
      /\ attempt' = attempt /\ tokens' = tokens /\ flushed' = flushed /\ created' = created
      /\ client' = client /\ found' = found /\ index' = index /\ latest' = latest
      /\ heap' = heap /\ renewed' = renewed /\ writer' = writer /\ UNCHANGED threads
      /\ IF pending >= Cap THEN queue' = queue /\ pending' = pending
         ELSE queue' = Append(queue, Head(wire[s])) /\ pending' = pending + 1
  BY DEF Arrive, slot
<1>2. /\ disk' = disk /\ straggler' = straggler /\ gc' = gc /\ stalls' = stalls
      /\ rmFails' = rmFails /\ sweeps' = sweeps
  BY <1>1 DEF threads
<1>3. Sent' = Sent /\ Content' = Content /\ \A p : AttemptOf(p)' = attempt[p[1]]
  BY <1>1 DEF Sent, Content, AttemptOf
<1>4. wire[s] \in Seq(Save) /\ \A i \in DOMAIN wire[s] : wire[s][i] \in Sent
  BY <1>0 DEF Streams
<1>5. Head(wire[s]) \in Sent /\ Head(wire[s]) \in Save
  <2>1. Head(wire[s]) = wire[s][1] /\ 1 \in DOMAIN wire[s]
    BY <1>1, <1>4
  <2> QED BY <1>4, <2>1, Markers
<1>6. Streams'
  <2>1. wire' \in [Stream -> Seq(Save)]
    BY <1>0, <1>1, <1>4 DEF Streams
  <2>2. \A r \in Stream : \A i \in DOMAIN wire'[r] : wire'[r][i] \in Sent
    <3>1. TAKE r \in Stream
    <3>2. CASE r = s
      <4>1. wire'[r] = Tail(wire[s])
        BY <1>0, <1>1, <3>2 DEF Streams
      <4>2. \A i \in DOMAIN Tail(wire[s]) : i + 1 \in DOMAIN wire[s] /\ Tail(wire[s])[i] = wire[s][i + 1]
        BY <1>1, <1>4
      <4> QED BY <1>4, <4>1, <4>2
    <3>3. CASE r # s
      BY <1>0, <1>1, <3>3 DEF Streams
    <3> QED BY <3>2, <3>3
  <2> QED BY <1>0, <1>1, <1>3, <2>1, <2>2 DEF Streams
<1>7. Reading'
  BY <1>0, <1>1, <1>3 DEF Reading
<1>8. Writing'
  <2>1. pending \in Nat /\ Cap \in Nat /\ queue \in Seq(Save) /\ Len(queue) \in Nat
    BY <1>0, Room DEF Writing
  <2>2. queue' \in Seq(Save) /\ (\A i \in DOMAIN queue' : queue'[i] \in Sent)
    <3>1. CASE pending >= Cap
      BY <1>0, <1>1, <3>1 DEF Writing
    <3>2. CASE ~ (pending >= Cap)
      <4>1. /\ queue' \in Seq(Save) /\ DOMAIN queue' = 1 .. Len(queue) + 1
            /\ DOMAIN queue = 1 .. Len(queue)
            /\ queue'[Len(queue) + 1] = Head(wire[s])
            /\ \A i \in 1 .. Len(queue) : queue'[i] = queue[i]
        BY <1>1, <1>5, <2>1, <3>2
      <4> QED BY <1>0, <1>5, <2>1, <4>1 DEF Writing
    <3> QED BY <3>1, <3>2
  <2>3. pending' \in 0 .. Cap /\ PendingCounts'
    <3>0. PendingCounts
      BY <1>0 DEF Writing
    <3>1. CASE pending >= Cap
      BY <1>0, <1>1, <3>0, <3>1 DEF Writing, PendingCounts
    <3>2. CASE ~ (pending >= Cap)
      <4>1. Len(queue') = Len(queue) + 1 /\ pending' = pending + 1
        BY <1>1, <1>5, <2>1, <3>2
      <4> QED BY <1>1, <2>1, <3>0, <3>2, <4>1 DEF PendingCounts
    <3> QED BY <3>1, <3>2
  <2>4. writer # Idle => latest <= AttemptOf(writer.save)'
    BY <1>0, <1>1 DEF Writing, AttemptOf
  <2> QED BY <1>0, <1>1, <1>3, <2>2, <2>3, <2>4 DEF Writing, Indexed
<1>9. Slots' /\ Collected' /\ OnDisk'
  BY <1>0, <1>1, <1>2, <1>3 DEF Slots, Collected, OnDisk, Folder
<1>10. LiveFiles' /\ Written' /\ LatestIsIndexed' /\ Ordered'
  BY <1>0, <1>1, <1>2 DEF LiveFiles, Written, LatestIsIndexed, Ordered, AttemptOf, Collecting,
                          Indexed
<1>11. Snapshots' /\ Deletion' /\ TmpStays'
  BY <1>0, <1>1, <1>2 DEF Snapshots, Deletion, TmpStays, AttemptOf, Busy, At
<1> QED BY <1>6, <1>7, <1>8, <1>9, <1>10, <1>11 DEF IInv, Types

-----------------------------------------------------------------------------
(***************************************************************************)
(* Steps of the save that is being written.                                 *)
(***************************************************************************)

\* Where the moves of a save take a handle.
Moves == {<<>>, [final |-> "old"], [tmp |-> "final"], [old |-> "final"]}

\* What a save does to directories: those of other attempts, the list of the
\* collector and its path stay; its handle stays unless its place is concerned.
LEMMA Rearranged ==
  ASSUME OnDisk, Collected, NEW a \in Attempt, NEW content \in [Place -> Folder],
         NEW from \in Moves, NEW to \in SUBSET Place,
         Rearrange(a, content, Moved(a, from, to))
  PROVE  /\ disk' \in [Attempt -> [Place -> Folder]] /\ disk'[a] = content
         /\ \A b \in Attempt : b # a => disk'[b] = disk[b]
         /\ gc' \in [at : At0, todo : Seq(Attempt), dir : Handle, path : Handle, ok : BOOLEAN]
         /\ gc'.at = gc.at /\ gc'.todo = gc.todo /\ gc'.path = gc.path /\ gc'.ok = gc.ok
         /\ gc'.dir # Nowhere => gc.dir # Nowhere /\ gc'.dir[2] = gc.dir[2]
         /\ gc'.dir # Nowhere /\ gc.dir[1] \in {"final", "old"} => gc'.dir[1] \in {"final", "old"}
         /\ gc.dir = Nowhere \/ gc.dir[2] # a \/ gc.dir[1] \notin DOMAIN from \cup to
            => gc'.dir = gc.dir
PROOF
<1>1. /\ disk' = [disk EXCEPT ![a] = content]
      /\ gc' = [gc EXCEPT !.dir = Followed(a, Moved(a, from, to))]
  BY DEF Rearrange
<1>2. /\ disk' \in [Attempt -> [Place -> Folder]] /\ disk'[a] = content
      /\ \A b \in Attempt : b # a => disk'[b] = disk[b]
  BY <1>1 DEF OnDisk
<1>3. /\ gc'.at = gc.at /\ gc'.todo = gc.todo /\ gc'.path = gc.path /\ gc'.ok = gc.ok
      /\ gc'.dir = Followed(a, Moved(a, from, to))
      /\ Followed(a, Moved(a, from, to)) \in Handle
         => gc' \in [at : At0, todo : Seq(Attempt), dir : Handle, path : Handle, ok : BOOLEAN]
  BY <1>1 DEF Collected
<1>4. gc.dir \in Handle
  BY DEF Collected
<1>5. /\ DOMAIN <<>> = {}
      /\ \A f \in Moves : \A p \in DOMAIN f : p \in Place /\ f[p] \in {"final", "old"}
  BY DEF Moves, Place
<1>6. CASE gc.dir \in Place \X {a}
  <2> DEFINE p == gc.dir[1]
  <2>1. p \in Place /\ gc.dir = <<p, a>> /\ gc.dir[2] = a /\ gc.dir # Nowhere
    BY <1>6, Markers
  <2>2. gc'.dir = IF p \in DOMAIN from THEN <<from[p], a>>
                  ELSE IF p \in to THEN Nowhere ELSE <<p, a>>
    BY <1>3, <1>6, <2>1 DEF Followed, Moved
  <2> HIDE DEF p
  <2>3. p \in DOMAIN from => from[p] \in {"final", "old"} /\ from[p] \in Place
    BY <1>5 DEF Place
  <2>4. gc'.dir \in Handle
    BY <2>1, <2>2, <2>3 DEF Handle
  <2>5. gc'.dir # Nowhere => gc'.dir[2] = a /\ gc'.dir[1] \in {p, "final", "old"}
    BY <2>2, <2>3
  <2> QED BY <1>2, <1>3, <2>1, <2>2, <2>4, <2>5 DEF p
<1>7. CASE gc.dir \notin Place \X {a}
  <2>1. gc'.dir = gc.dir
    BY <1>3, <1>7 DEF Followed
  <2> QED BY <1>2, <1>3, <1>4, <2>1
<1> QED BY <1>6, <1>7

\* The step is one of the save: what it leaves to show of the collector.
LEMMA CollectedKept ==
  ASSUME Collected, stalls' \in Nat, rmFails' = rmFails, sweeps' = sweeps,
         gc' \in [at : At0, todo : Seq(Attempt), dir : Handle, path : Handle, ok : BOOLEAN],
         gc'.at = gc.at, gc'.todo = gc.todo, gc'.path = gc.path,
         gc'.dir # Nowhere => gc.dir # Nowhere /\ gc'.dir[2] = gc.dir[2],
         gc'.dir # Nowhere /\ gc.dir[1] \in {"final", "old"} => gc'.dir[1] \in {"final", "old"}
  PROVE  Collected'
PROOF
<1>1. /\ gc.at \in Deleting <=> gc.path # Nowhere
      /\ gc.path # Nowhere /\ gc.path[1] = "final" => gc.todo # <<>> /\ gc.path[2] = Head(gc.todo)
      /\ gc.path # Nowhere /\ gc.path[1] # "final" => sweeps > 0
      /\ gc.dir # Nowhere =>
           /\ gc.at \in {"files", "rmdir"} /\ gc.dir[2] = gc.path[2]
           /\ gc.path[1] = "final" => gc.dir[1] \in {"final", "old"}
      /\ rmFails \in Nat /\ sweeps \in Nat
  BY DEF Collected
<1>2. gc'.dir # Nowhere =>
        /\ gc'.at \in {"files", "rmdir"} /\ gc'.dir[2] = gc'.path[2]
        /\ gc'.path[1] = "final" => gc'.dir[1] \in {"final", "old"}
  BY <1>1
<1> QED BY <1>1, <1>2 DEF Collected

\* A file is written in the .tmp of an attempt.
Filled(a, f, v) == [disk EXCEPT ![a]["tmp"][f] = v]
LEMMA WriteFile ==
  ASSUME NEW a \in Attempt, NEW f \in File, NEW v \in Content,
         disk \in [Attempt -> [Place -> Folder]], disk' = Filled(a, f, v)
  PROVE  /\ disk' \in [Attempt -> [Place -> Folder]]
         /\ \A b \in Attempt : b # a => disk'[b] = disk[b]
         /\ \A q \in Place : q # "tmp" => disk'[a][q] = disk[a][q]
         /\ disk'[a]["tmp"][f] = v
         /\ \A g \in File : g # f => disk'[a]["tmp"][g] = disk[a]["tmp"][g]
PROOF
<1>a. disk' = [disk EXCEPT ![a]["tmp"][f] = v]
  BY DEF Filled
<1>0. disk[a]["tmp"] \in Folder /\ disk[a] \in [Place -> Folder] /\ "tmp" \in Place
  BY DEF Place
<1>1. CASE f = "tokens"
  <2> DEFINE e == [disk[a]["tmp"] EXCEPT !.tokens = v]
             h == [disk[a] EXCEPT !["tmp"] = e]
  <2>1. disk' = [disk EXCEPT ![a] = h]
    BY <1>1, <1>a
  <2>2. e \in Folder /\ e.tokens = v /\ e.manifest = disk[a]["tmp"].manifest
    BY <1>0 DEF Folder
  <2> HIDE DEF e
  <2>5. h \in [Place -> Folder] /\ h["tmp"] = e /\ \A q \in Place : q # "tmp" => h[q] = disk[a][q]
    BY <1>0, <2>2
  <2> HIDE DEF h
  <2>3. /\ disk'[a]["tmp"] = e
        /\ \A q \in Place : q # "tmp" => disk'[a][q] = disk[a][q]
        /\ \A b \in Attempt : b # a => disk'[b] = disk[b]
        /\ disk' \in [Attempt -> [Place -> Folder]]
    BY <2>1, <2>5
  <2>4. disk'[a]["tmp"].tokens = v /\ disk'[a]["tmp"].manifest = disk[a]["tmp"].manifest
    BY <2>2, <2>3
  <2> QED BY <1>1, <2>3, <2>4 DEF File
<1>2. CASE f = "manifest"
  <2> DEFINE e == [disk[a]["tmp"] EXCEPT !.manifest = v]
             h == [disk[a] EXCEPT !["tmp"] = e]
  <2>1. disk' = [disk EXCEPT ![a] = h]
    BY <1>2, <1>a
  <2>2. e \in Folder /\ e.manifest = v /\ e.tokens = disk[a]["tmp"].tokens
    BY <1>0 DEF Folder
  <2> HIDE DEF e
  <2>5. h \in [Place -> Folder] /\ h["tmp"] = e /\ \A q \in Place : q # "tmp" => h[q] = disk[a][q]
    BY <1>0, <2>2
  <2> HIDE DEF h
  <2>3. /\ disk'[a]["tmp"] = e
        /\ \A q \in Place : q # "tmp" => disk'[a][q] = disk[a][q]
        /\ \A b \in Attempt : b # a => disk'[b] = disk[b]
        /\ disk' \in [Attempt -> [Place -> Folder]]
    BY <2>1, <2>5
  <2>4. disk'[a]["tmp"].manifest = v /\ disk'[a]["tmp"].tokens = disk[a]["tmp"].tokens
    BY <2>2, <2>3
  <2> QED BY <1>2, <2>3, <2>4 DEF File
<1> QED BY <1>1, <1>2 DEF File

\* The two special directories.
LEMMA Folders ==
  /\ Absent \in Folder /\ Empty \in Folder /\ Absent # Empty
  /\ Absent.tokens = Missing /\ Absent.manifest = Missing
  /\ Empty.tokens = Missing /\ Empty.manifest = Missing
  /\ \A d \in Folder : Full(d) => d # Absent /\ d # Empty
  /\ "final" \in Place /\ "tmp" \in Place /\ "old" \in Place
PROOF BY Markers DEF Absent, Empty, Folder, Full, Place


\* The collector stays where it is; when it deletes an attempt, its handle stays.
Carried ==
  /\ gc' \in [at : At0, todo : Seq(Attempt), dir : Handle, path : Handle, ok : BOOLEAN]
  /\ gc'.at = gc.at /\ gc'.todo = gc.todo /\ gc'.path = gc.path /\ gc'.ok = gc.ok
  /\ gc'.dir # Nowhere => gc.dir # Nowhere /\ gc'.dir[2] = gc.dir[2]
  /\ gc'.dir # Nowhere /\ gc.dir[1] \in {"final", "old"} => gc'.dir[1] \in {"final", "old"}
  /\ gc.path # Nowhere /\ gc.path[1] = "final" => gc'.dir = gc.dir

\* The files of the save that is being written come from this save.
OfSave ==
  stalls = 0 /\ writer.step \in {"tokens", "manifest", "swap", "place"} =>
    \A f \in File : disk[AttemptOf(writer.save)]["tmp"][f] \in {Missing, writer.save}

\* A step that changes the .tmp of one attempt, and no other directory.
LEMMA TmpStep ==
  ASSUME IInv, UNCHANGED <<clients, slot, rmFails, sweeps>>, Carried,
         NEW a \in Attempt, disk' \in [Attempt -> [Place -> Folder]],
         \A b \in Attempt : b # a => disk'[b] = disk[b],
         disk'[a]["final"] = disk[a]["final"], disk'[a]["old"] = disk[a]["old"],
         \/ writer' = writer
         \/ writer.step \notin {"place", "clean"} /\ writer'.step \notin {"place", "clean"},
         stalls \in Nat, stalls' \in Nat, stalls <= stalls',
         OfSave', Writing', Written', TmpStays',
         straggler' \subseteq File \X Sent, stalls' = 0 => straggler' = {}
  PROVE  IInv'
PROOF
<1>0. /\ Types /\ LiveFiles /\ Written /\ Snapshots
      /\ LatestIsIndexed /\ Deletion /\ TmpStays /\ Ordered
      /\ Streams /\ Reading /\ Writing /\ Slots /\ Collected /\ OnDisk
  BY DEF IInv, Types
<1>1. /\ attempt' = attempt /\ tokens' = tokens /\ flushed' = flushed /\ wire' = wire
      /\ created' = created /\ client' = client /\ found' = found
      /\ index' = index /\ latest' = latest /\ heap' = heap /\ renewed' = renewed
      /\ rmFails' = rmFails /\ sweeps' = sweeps
  BY DEF clients, slot
<1>2. Streams' /\ Sent' = Sent /\ Content' = Content /\ Folder' = Folder
      /\ \A p : AttemptOf(p)' = attempt[p[1]]
  BY <1>0, <1>1, NoStream DEF Folder, AttemptOf
<1>3. Reading'
  BY <1>0, <1>1, <1>2 DEF Reading
<1>4. Slots'
  BY <1>0, <1>1 DEF Slots
<1>5. Collected'
  BY <1>0, <1>1, CollectedKept DEF Carried
<1>6. OnDisk'
  BY <1>2 DEF OnDisk
<1>7. \A b \in Attempt : disk'[b]["final"] = disk[b]["final"] /\ disk'[b]["old"] = disk[b]["old"]
  OBVIOUS
<1>8. Collecting' = Collecting /\ Indexed' = Indexed
  BY <1>1 DEF Collecting, Indexed, Carried
<1>9. LatestIsIndexed' /\ Ordered'
  BY <1>0, <1>1, <1>8 DEF LatestIsIndexed, Ordered, Carried
<1>10. writer' = writer \/ (writer.step # "place" /\ writer.step # "clean" /\
                            writer'.step # "place" /\ writer'.step # "clean")
  OBVIOUS
<1>11. LiveFiles'
  BY <1>0, <1>1, <1>7, <1>8, <1>10 DEF LiveFiles, AttemptOf
<1>12. stalls' = 0 => stalls = 0
  OBVIOUS
<1>13. Snapshots'
  <2>1. client = "reading" => latest \in Attempt
    BY <1>0 DEF Reading
  <2>2. stalls' = 0 => /\ \A b \in Attempt : OfOne(disk'[b]["final"]) /\ OfOne(disk'[b]["old"])
                       /\ client = "reading" => disk'[latest]["final"].tokens \in {Missing, found.manifest}
                       /\ client = "marking" => found.tokens = found.manifest
    BY <1>0, <1>7, <1>12, <2>1 DEF Snapshots
  <2> QED BY <1>1, <2>2 DEF Snapshots, OfSave
<1>14. \A b : Busy(b)' <=> Busy(b)
  BY <1>1, <1>10 DEF Busy, AttemptOf
<1>15. Deletion'
  <2>1. SUFFICES ASSUME rmFails = 0, renewed = {}, gc.path # Nowhere, gc.path[1] = "final"
                 PROVE  /\ gc'.at = "files" => gc'.dir = gc'.path \/ Busy(gc.path[2])'
                        /\ gc'.at = "rmdir" => disk'[gc.path[2]][gc.path[1]] = Empty \/ Busy(gc.path[2])'
                        /\ gc'.at = "done" /\ ~gc'.ok => Busy(gc.path[2])'
    BY <1>1 DEF Deletion, Carried, At, Busy, AttemptOf
  <2>2. gc.path \in Place \X Attempt
    BY <1>0, <2>1 DEF Collected, Handle
  <2>3. disk'[gc.path[2]][gc.path[1]] = At(gc.path)
    BY <1>7, <2>1, <2>2 DEF At
  <2> QED BY <1>0, <1>14, <2>1, <2>3 DEF Deletion, Carried
<1> QED BY <1>2, <1>3, <1>4, <1>5, <1>6, <1>9, <1>11, <1>13, <1>15 DEF IInv, Types

\* A save ends: the one that was being written leaves the count.
LEMMA SaveEnds ==
  ASSUME IInv, UNCHANGED <<clients, queue>>, writer # Idle, writer' = Idle,
         pending' = pending - 1, latest' \in 0 .. MaxStreams, latest' <= created,
         Indexed' = {} => latest' = 0
  PROVE  Writing'
PROOF
<1>0. Streams /\ Writing
  BY DEF IInv, Types
<1>1. attempt' = attempt /\ created' = created /\ queue' = queue
  BY DEF clients
<1>2. Sent' = Sent /\ Content' = Content
  BY <1>1 DEF Sent, Content
<1>3. pending = Len(queue) + 1 /\ Len(queue) \in Nat /\ pending \in 0 .. Cap /\ Cap \in Nat
  BY <1>0, Room DEF Writing, PendingCounts
<1>4. pending' \in 0 .. Cap /\ pending' = Len(queue')
  BY <1>1, <1>3
<1>5. PendingCounts'
  BY <1>3, <1>4 DEF PendingCounts
<1>6. writer'.step = "idle" /\ Idle \in [step : {"idle", "tokens", "manifest", "swap", "place", "clean"},
                                         save : Content]
  BY DEF Idle, Content
<1> QED BY <1>0, <1>1, <1>2, <1>4, <1>5, <1>6 DEF Writing

\* The .tmp of an attempt is made anew or removed.
LEMMA TmpMoved ==
  ASSUME OnDisk, Collected, NEW a \in Attempt, NEW d \in Folder, NEW to \in SUBSET {"tmp"},
         Rearrange(a, [disk[a] EXCEPT !["tmp"] = d], Moved(a, <<>>, to))
  PROVE  /\ Carried /\ disk' \in [Attempt -> [Place -> Folder]]
         /\ \A b \in Attempt : b # a => disk'[b] = disk[b]
         /\ disk'[a]["final"] = disk[a]["final"] /\ disk'[a]["old"] = disk[a]["old"]
         /\ disk'[a]["tmp"] = d
PROOF
<1> DEFINE content == [disk[a] EXCEPT !["tmp"] = d]
<1>1. content \in [Place -> Folder] /\ content["tmp"] = d
      /\ content["final"] = disk[a]["final"] /\ content["old"] = disk[a]["old"]
  BY DEF OnDisk, Place
<1> HIDE DEF content
<1>2. <<>> \in Moves /\ to \in SUBSET Place /\ DOMAIN <<>> = {} /\ Rearrange(a, content, Moved(a, <<>>, to))
  BY DEF Moves, Place, content
<1>3. /\ disk' \in [Attempt -> [Place -> Folder]] /\ disk'[a] = content
      /\ \A b \in Attempt : b # a => disk'[b] = disk[b]
      /\ gc' \in [at : At0, todo : Seq(Attempt), dir : Handle, path : Handle, ok : BOOLEAN]
      /\ gc'.at = gc.at /\ gc'.todo = gc.todo /\ gc'.path = gc.path /\ gc'.ok = gc.ok
      /\ gc'.dir # Nowhere => gc.dir # Nowhere /\ gc'.dir[2] = gc.dir[2]
      /\ gc'.dir # Nowhere /\ gc.dir[1] \in {"final", "old"} => gc'.dir[1] \in {"final", "old"}
      /\ gc.dir = Nowhere \/ gc.dir[2] # a \/ gc.dir[1] \notin DOMAIN <<>> \cup to
         => gc'.dir = gc.dir
  BY <1>1, <1>2, Rearranged
<1>4. gc.path # Nowhere /\ gc.path[1] = "final" => gc.dir = Nowhere \/ gc.dir[1] \in {"final", "old"}
  BY DEF Collected
<1>5. gc.path # Nowhere /\ gc.path[1] = "final" => gc'.dir = gc.dir
  <2>1. gc.dir[1] \in {"final", "old"} => gc.dir[1] \notin DOMAIN <<>> \cup to
    BY <1>2
  <2> QED BY <1>3, <1>4, <2>1
<1> QED BY <1>1, <1>3, <1>5 DEF Carried

LEMMA TakeStep ==
  ASSUME IInv, TakeSave
  PROVE  IInv'
PROOF
<1>0. /\ Types /\ LiveFiles /\ Written /\ Snapshots
      /\ LatestIsIndexed /\ Deletion /\ TmpStays /\ Ordered
      /\ Streams /\ Reading /\ Writing /\ Slots /\ Collected /\ OnDisk
  BY DEF IInv, Types
<1> DEFINE p == Head(queue)
           a == AttemptOf(p)
<1>1. /\ writer = Idle /\ queue # <<>> /\ queue' = Tail(queue)
      /\ UNCHANGED <<clients, slot, rmFails, sweeps>> /\ straggler' = straggler
      /\ stalls' = stalls
      /\ \/ /\ Indexed # {} /\ a < latest /\ pending' = pending - 1
            /\ UNCHANGED <<writer, disk, gc>>
         \/ /\ ~ (Indexed # {} /\ a < latest)
            /\ writer' = [step |-> "tokens", save |-> p]
            /\ Rearrange(a, [disk[a] EXCEPT !["tmp"] = Empty], Moved(a, <<>>, {"tmp"}))
            /\ pending' = pending
  BY DEF TakeSave
<1>2. /\ attempt' = attempt /\ tokens' = tokens /\ flushed' = flushed /\ wire' = wire
      /\ created' = created /\ index' = index /\ latest' = latest
  BY <1>1 DEF clients, slot
<1>3. Sent' = Sent /\ Content' = Content /\ Indexed' = Indexed
      /\ \A q : AttemptOf(q)' = AttemptOf(q)
  BY <1>2 DEF Sent, Content, Indexed, AttemptOf
<1>4. /\ p \in Sent /\ p \in Save /\ p # Missing
      /\ Tail(queue) \in Seq(Save) /\ Len(queue) \in Nat /\ Len(Tail(queue)) = Len(queue) - 1
      /\ \A i \in DOMAIN Tail(queue) : Tail(queue)[i] \in Sent
  <2>1. queue \in Seq(Save) /\ \A i \in DOMAIN queue : queue[i] \in Sent
    BY <1>0 DEF Writing
  <2>2. 1 \in DOMAIN queue /\ Head(queue) = queue[1]
    BY <1>1, <2>1
  <2>3. Tail(queue) \in Seq(Save) /\ Len(queue) \in Nat /\ Len(Tail(queue)) = Len(queue) - 1
    BY <1>1, <2>1
  <2>4. \A i \in DOMAIN Tail(queue) : i + 1 \in DOMAIN queue /\ Tail(queue)[i] = queue[i + 1]
    BY <1>1, <2>1
  <2> QED BY <2>1, <2>2, <2>3, <2>4, Markers
<1>5. a \in Attempt
  BY <1>0, <1>2, <1>4, NoStream
<1>6. pending = Len(queue) /\ pending \in 0 .. Cap /\ Cap \in Nat /\ stalls \in Nat
  BY <1>0, <1>1, Room DEF Writing, PendingCounts, Collected
<1> HIDE DEF p, a
<1>7. CASE /\ Indexed # {} /\ a < latest /\ pending' = pending - 1
           /\ UNCHANGED <<writer, disk, gc>>
  <2>1. Writing'
    <3>0. pending' = pending - 1 /\ Len(queue') = Len(queue) - 1 /\ Len(queue') \in Nat
      BY <1>1, <1>4, <1>7
    <3>1. pending' \in 0 .. Cap /\ pending' = Len(queue')
      BY <1>6, <3>0
    <3>2. PendingCounts'
      BY <1>1, <1>7, <3>1 DEF PendingCounts
    <3> QED BY <1>0, <1>1, <1>2, <1>3, <1>4, <1>7, <3>1, <3>2 DEF Writing
  <2>2. Carried
    BY <1>0, <1>7 DEF Carried, Collected
  <2>3. OfSave' /\ Written' /\ TmpStays'
    BY <1>1, <1>7 DEF OfSave, Written, TmpStays, Idle
  <2>4. disk' = disk /\ writer' = writer
    BY <1>7
  <2>5. straggler' \subseteq File \X Sent /\ (stalls' = 0 => straggler' = {})
    BY <1>0, <1>1 DEF OnDisk
  <2>6. disk' \in [Attempt -> [Place -> Folder]]
    BY <1>0, <2>4 DEF OnDisk
  <2> QED BY <1>1, <1>5, <1>6, <2>1, <2>2, <2>3, <2>4, <2>5, <2>6, TmpStep
<1>8. CASE /\ ~ (Indexed # {} /\ a < latest)
           /\ writer' = [step |-> "tokens", save |-> p]
           /\ Rearrange(a, [disk[a] EXCEPT !["tmp"] = Empty], Moved(a, <<>>, {"tmp"}))
           /\ pending' = pending
  <2>1. writer'.step = "tokens" /\ writer'.save = p /\ writer' # Idle
    BY <1>8 DEF Idle
  <2>2. /\ Carried /\ disk' \in [Attempt -> [Place -> Folder]]
        /\ \A b \in Attempt : b # a => disk'[b] = disk[b]
        /\ disk'[a]["final"] = disk[a]["final"] /\ disk'[a]["old"] = disk[a]["old"]
        /\ disk'[a]["tmp"] = Empty
    BY <1>0, <1>5, <1>8, Folders, TmpMoved
  <2>3. latest <= a
    BY <1>0, <1>5, <1>8 DEF Writing, Attempt
  <2>4. Writing'
    <3>1. PendingCounts'
      <4>0. pending' = pending /\ Len(queue') = Len(queue) - 1
        BY <1>1, <1>4, <1>8
      <4>1. pending' = Len(queue') + 1
        BY <1>4, <1>6, <4>0
      <4> QED BY <2>1, <4>1 DEF PendingCounts
    <3>2. AttemptOf(writer.save)' = a
      BY <1>2, <2>1 DEF a, AttemptOf
    <3>3. writer' \in [step : {"idle", "tokens", "manifest", "swap", "place", "clean"},
                       save : Content]
      BY <1>4, <1>8 DEF Content
    <3>4. latest' \in 0 .. MaxStreams /\ latest' <= created' /\ (Indexed' = {} => latest' = 0)
      BY <1>0, <1>2, <1>3 DEF Writing
    <3> QED BY <1>1, <1>2, <1>3, <1>4, <1>6, <1>8, <2>1, <2>3, <3>1, <3>2, <3>3, <3>4 DEF Writing
  <2>5. OfSave'
    <3>1. AttemptOf(writer.save)' = a
      BY <1>2, <2>1 DEF a, AttemptOf
    <3>2. \A f \in File : disk'[a]["tmp"][f] = Missing
      BY <2>2, Folders DEF File
    <3> QED BY <3>1, <3>2 DEF OfSave
  <2>6. Written' /\ TmpStays'
    BY <2>1 DEF Written, TmpStays
  <2>7. straggler' \subseteq File \X Sent /\ (stalls' = 0 => straggler' = {})
    BY <1>0, <1>1 DEF OnDisk
  <2>8. writer.step \notin {"place", "clean"} /\ writer'.step \notin {"place", "clean"}
    BY <1>1, <2>1 DEF Idle
  <2> QED BY <1>1, <1>5, <1>6, <2>2, <2>4, <2>5, <2>6, <2>7, <2>8, TmpStep
<1> QED BY <1>1, <1>7, <1>8

\* The save is given up: its .tmp is gone, nothing else is touched.
LEMMA RejectStep ==
  ASSUME IInv, UNCHANGED <<clients, queue, slot, rmFails, sweeps>>,
         writer.step \in {"tokens", "manifest", "swap"},
         NEW to \in SUBSET {"tmp"}, Reject(disk[AttemptOf(writer.save)], Moved(AttemptOf(writer.save), <<>>, to)),
         stalls' \in Nat, stalls <= stalls',
         straggler' \subseteq File \X Sent, stalls' = 0 => straggler' = {}
  PROVE  IInv'
PROOF
<1>0. Streams /\ Writing /\ Collected /\ OnDisk
  BY DEF IInv, Types
<1> DEFINE a == AttemptOf(writer.save)
<1>1. writer # Idle /\ a \in Attempt
  BY <1>0, WriterFacts DEF Idle
<1>2. /\ Rearrange(a, [disk[a] EXCEPT !["tmp"] = Absent], Moved(a, <<>>, to))
      /\ writer' = Idle /\ pending' = pending - 1
  BY DEF Reject
<1> HIDE DEF a
<1>3. /\ Carried /\ disk' \in [Attempt -> [Place -> Folder]]
      /\ \A b \in Attempt : b # a => disk'[b] = disk[b]
      /\ disk'[a]["final"] = disk[a]["final"] /\ disk'[a]["old"] = disk[a]["old"]
  BY <1>0, <1>1, <1>2, Folders, TmpMoved
<1>4. Writing'
  <2>1. latest' = latest /\ Indexed' = Indexed
    BY DEF slot, Indexed
  <2>2. latest \in 0 .. MaxStreams /\ latest <= created /\ (Indexed = {} => latest = 0)
    BY <1>0 DEF Writing
  <2> QED BY <1>1, <1>2, <2>1, <2>2, SaveEnds
<1>5. writer'.step = "idle"
  BY <1>2 DEF Idle
<1>6. OfSave' /\ Written' /\ TmpStays'
  BY <1>2, <1>5 DEF OfSave, Written, TmpStays
<1>7. stalls \in Nat
  BY <1>0 DEF Collected
<1>8. writer.step \notin {"place", "clean"} /\ writer'.step \notin {"place", "clean"}
  BY <1>5
<1> QED BY <1>1, <1>3, <1>4, <1>6, <1>7, <1>8, TmpStep

LEMMA ShardStep ==
  ASSUME IInv, WriteShard
  PROVE  IInv'
PROOF
<1>0. /\ Types /\ LiveFiles /\ Written /\ Snapshots
      /\ LatestIsIndexed /\ Deletion /\ TmpStays /\ Ordered
      /\ Streams /\ Reading /\ Writing /\ Slots /\ Collected /\ OnDisk
  BY DEF IInv, Types
<1> DEFINE a == AttemptOf(writer.save)
           f == writer.step
<1>1. /\ f \in File /\ queue' = queue
      /\ UNCHANGED <<clients, queue, slot, rmFails, sweeps>>
      /\ \/ /\ disk[a]["tmp"] # Absent
            /\ disk' = [disk EXCEPT ![a]["tmp"][f] = writer.save]
            /\ writer' = [writer EXCEPT !.step = IF f = "tokens" THEN "manifest" ELSE "swap"]
            /\ UNCHANGED <<straggler, gc, stalls, pending>>
         \/ /\ Reject(disk[a], Moved(a, <<>>, {}))
            /\ UNCHANGED <<straggler, stalls>>
         \/ /\ stalls' = stalls + 1
            /\ straggler' = straggler \cup {<<f, writer.save>>}
            /\ Reject(disk[a], Moved(a, <<>>, {"tmp"}))
  BY DEF WriteShard
<1>2. /\ writer # Idle /\ a \in Attempt /\ writer.save \in Sent /\ writer.save # Missing
      /\ writer = [step |-> writer.step, save |-> writer.save]
      /\ stalls \in Nat /\ straggler \subseteq File \X Sent /\ (stalls = 0 => straggler = {})
      /\ f \in {"tokens", "manifest"}
  BY <1>0, <1>1, WriterFacts DEF Idle, File, Collected, OnDisk
<1>3. CASE /\ disk[a]["tmp"] # Absent
           /\ disk' = [disk EXCEPT ![a]["tmp"][f] = writer.save]
           /\ writer' = [writer EXCEPT !.step = IF f = "tokens" THEN "manifest" ELSE "swap"]
           /\ UNCHANGED <<straggler, gc, stalls, pending>>
  <2>1. writer.save \in Content /\ "tmp" \in Place /\ disk \in [Attempt -> [Place -> Folder]]
    BY <1>0, <1>2, Folders DEF Content, OnDisk
  <2>2. /\ disk' \in [Attempt -> [Place -> Folder]]
        /\ \A b \in Attempt : b # a => disk'[b] = disk[b]
        /\ \A q \in Place : q # "tmp" => disk'[a][q] = disk[a][q]
        /\ disk'[a]["tmp"][f] = writer.save
        /\ \A g \in File : g # f => disk'[a]["tmp"][g] = disk[a]["tmp"][g]
    <3>1. disk' = Filled(a, f, writer.save)
      BY <1>3, Zenon DEF Filled
    <3> HIDE DEF a, f
    <3> QED BY <1>1, <1>2, <2>1, <3>1, WriteFile
  <2>3. /\ writer' = [step |-> IF f = "tokens" THEN "manifest" ELSE "swap", save |-> writer.save]
    BY <1>2, <1>3
  <2>4. /\ writer'.save = writer.save /\ writer'.step = IF f = "tokens" THEN "manifest" ELSE "swap"
        /\ writer' # Idle
    BY <2>3 DEF Idle
  <2>5. /\ attempt' = attempt /\ created' = created /\ latest' = latest /\ index' = index
        /\ pending' = pending /\ sweeps' = sweeps /\ gc' = gc /\ stalls' = stalls
        /\ straggler' = straggler
    BY <1>1, <1>3 DEF clients, slot
  <2>6. AttemptOf(writer.save)' = a
    BY <2>4, <2>5 DEF AttemptOf
  <2>7. Sent' = Sent /\ Content' = Content /\ Indexed' = Indexed
    BY <2>5 DEF Sent, Content, Indexed
  <2>8. Writing'
    <3>1. PendingCounts'
      BY <1>0, <1>1, <1>2, <2>4, <2>5 DEF Writing, PendingCounts
    <3>2. writer' \in [step : {"idle", "tokens", "manifest", "swap", "place", "clean"},
                       save : Content]
      BY <2>1, <2>3
    <3>3. latest <= a
      BY <1>0, <1>2 DEF Writing
    <3>4. writer'.step # "idle"
      BY <2>4
    <3>5. /\ latest' \in 0 .. MaxStreams /\ latest' <= created' /\ (Indexed' = {} => latest' = 0)
          /\ queue' \in Seq(Save) /\ (\A i \in DOMAIN queue' : queue'[i] \in Sent')
          /\ pending' \in 0 .. Cap
      BY <1>0, <1>1, <2>5, <2>7 DEF Writing
    <3>6. writer'.step \in {"idle", "tokens", "manifest", "swap", "place", "clean"}
      BY <2>4
    <3> QED BY <1>2, <2>4, <2>5, <2>6, <2>7, <3>1, <3>2, <3>3, <3>4, <3>5, <3>6 DEF Writing
  <2>9. OfSave'
    <3>1. stalls = 0 => \A g \in File : disk[a]["tmp"][g] \in {Missing, writer.save}
      BY <1>0, <1>2 DEF Snapshots
    <3>2. stalls = 0 => \A g \in File : disk'[a]["tmp"][g] \in {Missing, writer.save}
      BY <2>2, <3>1
    <3> QED BY <2>4, <2>5, <2>6, <3>2 DEF OfSave
  <2>10. Written'
    <3>1. sweeps = 0 /\ f = "manifest" => disk[a]["tmp"].tokens # Missing
      BY <1>0, <1>2 DEF Written
    <3>2. f = "tokens" => disk'[a]["tmp"].tokens # Missing
      BY <1>2, <2>2
    <3>3. sweeps = 0 /\ f = "manifest" => Full(disk'[a]["tmp"])
      BY <1>2, <2>2, <3>1 DEF Full, File
    <3> QED BY <1>2, <2>4, <2>5, <2>6, <3>2, <3>3 DEF Written
  <2>11. TmpStays'
    <3>1. disk'[a]["tmp"] # Absent
      BY <1>2, <2>2, Folders
    <3> QED BY <2>6, <3>1 DEF TmpStays
  <2>12. Carried
    BY <1>0, <2>5 DEF Carried, Collected
  <2>13. writer.step \notin {"place", "clean"} /\ writer'.step \notin {"place", "clean"}
    BY <1>2, <2>4
  <2>14. disk'[a]["final"] = disk[a]["final"] /\ disk'[a]["old"] = disk[a]["old"]
    BY <2>2, Folders
  <2>15. stalls' \in Nat /\ stalls <= stalls'
    BY <1>2, <2>5
  <2>16. straggler' \subseteq File \X Sent /\ (stalls' = 0 => straggler' = {})
    BY <1>2, <2>5
  <2> QED BY <1>1, <1>2, <2>2, <2>8, <2>9, <2>10, <2>11, <2>12, <2>13, <2>14, <2>15, <2>16, TmpStep
<1>4. CASE /\ Reject(disk[a], Moved(a, <<>>, {}))
           /\ UNCHANGED <<straggler, stalls>>
  <2>1. stalls' \in Nat /\ stalls <= stalls'
    BY <1>2, <1>4
  <2> QED BY <1>1, <1>2, <1>4, <2>1, RejectStep
<1>5. CASE /\ stalls' = stalls + 1
           /\ straggler' = straggler \cup {<<f, writer.save>>}
           /\ Reject(disk[a], Moved(a, <<>>, {"tmp"}))
  <2>1. stalls' \in Nat /\ stalls <= stalls' /\ stalls' # 0
    BY <1>2, <1>5
  <2>2. straggler' \subseteq File \X Sent
    BY <1>1, <1>2, <1>5
  <2> QED BY <1>1, <1>2, <1>5, <2>1, <2>2, RejectStep
<1> QED BY <1>1, <1>3, <1>4, <1>5

LEMMA StragglerStep ==
  ASSUME IInv, StragglerWrites
  PROVE  IInv'
PROOF
<1>0. /\ Types /\ LiveFiles /\ Written /\ Snapshots
      /\ LatestIsIndexed /\ Deletion /\ TmpStays /\ Ordered
      /\ Streams /\ Reading /\ Writing /\ Slots /\ Collected /\ OnDisk
  BY DEF IInv, Types
<1>1. PICK w \in straggler :
        /\ straggler' = straggler \ {w}
        /\ disk' = IF disk[AttemptOf(w[2])]["tmp"] = Absent THEN disk
                   ELSE [disk EXCEPT ![AttemptOf(w[2])]["tmp"][w[1]] = w[2]]
        /\ UNCHANGED <<clients, store, gc, stalls, rmFails, sweeps>>
  BY DEF StragglerWrites
<1> DEFINE a == AttemptOf(w[2])
<1>2. /\ attempt' = attempt /\ tokens' = tokens /\ flushed' = flushed /\ wire' = wire
      /\ created' = created /\ queue' = queue /\ pending' = pending /\ writer' = writer
      /\ UNCHANGED slot /\ index' = index /\ latest' = latest /\ gc' = gc /\ stalls' = stalls
      /\ rmFails' = rmFails /\ sweeps' = sweeps /\ UNCHANGED clients /\ heap' = heap
  BY <1>1 DEF clients, store, slot
<1>3. w[1] \in File /\ w[2] \in Sent /\ stalls \in Nat /\ stalls # 0
      /\ straggler' \subseteq File \X Sent
  BY <1>0, <1>1 DEF OnDisk, Collected
<1>4. a \in Attempt /\ w[2] \in Content /\ w[2] # Missing
  BY <1>0, <1>2, <1>3, NoStream, Markers DEF Content
<1>5. disk \in [Attempt -> [Place -> Folder]] /\ "tmp" \in Place
  BY <1>0, Folders DEF OnDisk
<1> HIDE DEF a
<1>6. /\ disk' \in [Attempt -> [Place -> Folder]]
      /\ \A b \in Attempt : b # a => disk'[b] = disk[b]
      /\ disk'[a]["final"] = disk[a]["final"] /\ disk'[a]["old"] = disk[a]["old"]
      /\ disk[a]["tmp"] # Absent => disk'[a]["tmp"] # Absent
      /\ \A g \in File : disk[a]["tmp"][g] # Missing => disk'[a]["tmp"][g] # Missing
  <2>1. CASE disk[a]["tmp"] = Absent
    <3>1. disk' = disk
      BY <1>1, <2>1 DEF a
    <3> QED BY <1>5, <3>1
  <2>2. CASE disk[a]["tmp"] # Absent
    <3>1. disk' = [disk EXCEPT ![a]["tmp"][w[1]] = w[2]]
      BY <1>1, <2>2 DEF a
    <3>2. /\ disk' \in [Attempt -> [Place -> Folder]]
          /\ \A b \in Attempt : b # a => disk'[b] = disk[b]
          /\ \A q \in Place : q # "tmp" => disk'[a][q] = disk[a][q]
          /\ disk'[a]["tmp"][w[1]] = w[2]
          /\ \A g \in File : g # w[1] => disk'[a]["tmp"][g] = disk[a]["tmp"][g]
      <4>1. disk' = Filled(a, w[1], w[2])
        BY <3>1, Zenon DEF Filled
      <4> QED BY <1>3, <1>4, <1>5, <4>1, WriteFile
    <3>3. disk'[a]["tmp"] # Absent
      BY <1>3, <1>4, <3>2, Folders DEF File
    <3>4. \A g \in File : disk[a]["tmp"][g] # Missing => disk'[a]["tmp"][g] # Missing
      BY <1>4, <3>2
    <3> QED BY <3>2, <3>3, <3>4, Folders
  <2> QED BY <2>1, <2>2
<1>7. /\ Sent' = Sent /\ Content' = Content /\ Indexed' = Indexed /\ Collecting' = Collecting
      /\ AttemptOf(writer.save)' = AttemptOf(writer.save)
  BY <1>2 DEF Sent, Content, Indexed, AttemptOf, Collecting
<1>8. Writing'
  BY <1>0, <1>2, <1>7 DEF Writing, PendingCounts
<1>9. writer # Idle => AttemptOf(writer.save) \in Attempt
  BY <1>0, WriterFacts
<1>10. writer.step # "idle" => writer # Idle
  BY DEF Idle
<1>11. \A b \in Attempt :
         /\ disk'[b]["final"] = disk[b]["final"]
         /\ disk[b]["tmp"] # Absent => disk'[b]["tmp"] # Absent
         /\ \A g \in File : disk[b]["tmp"][g] # Missing => disk'[b]["tmp"][g] # Missing
  BY <1>6
<1>12. \A b \in Attempt : Full(disk[b]["tmp"]) => Full(disk'[b]["tmp"])
  BY <1>11 DEF Full, File
<1>13. Written'
  <2>1. \A b \in Attempt : disk[b]["tmp"].tokens # Missing => disk'[b]["tmp"].tokens # Missing
    BY <1>11 DEF File
  <2> QED BY <1>0, <1>2, <1>7, <1>9, <1>11, <1>12, <2>1 DEF Written
<1>14. TmpStays'
  BY <1>0, <1>2, <1>7, <1>9, <1>10, <1>11 DEF TmpStays
<1>15. OfSave'
  BY <1>2, <1>3 DEF OfSave
<1>16. Carried
  BY <1>0, <1>2 DEF Carried, Collected
<1>17. UNCHANGED <<clients, slot, rmFails, sweeps>> /\ stalls' \in Nat /\ stalls <= stalls'
       /\ (stalls' = 0 => straggler' = {})
  BY <1>2, <1>3
<1> QED BY <1>2, <1>3, <1>4, <1>6, <1>8, <1>13, <1>14, <1>15, <1>16, <1>17, TmpStep

-----------------------------------------------------------------------------
(***************************************************************************)
(* Steps that rename directories, and the commit.                           *)
(***************************************************************************)

\* The slot after a commit of attempt a: only a is live among those that were
\* not collected, and the records are in order unless a had one.
LEMMA CommitFacts ==
  ASSUME IInv, UNCHANGED <<clients, queue, rmFails>>, gc'.todo = gc.todo,
         writer # Idle, NEW a, a = AttemptOf(writer.save), Commit(a)
  PROVE  /\ Slots' /\ Writing' /\ Ordered' /\ LatestIsIndexed'
         /\ writer' = Idle /\ latest' = a
         /\ \A b \in Attempt : index'[b] = "live" => b = a \/ index[b] = "live"
         /\ Collecting \subseteq Collecting'
         /\ renewed \subseteq renewed' /\ (a \in Collecting => renewed' # {})
PROOF
<1>0. /\ Types /\ LatestIsIndexed /\ Ordered
      /\ Streams /\ Writing /\ Slots /\ Collected
  BY DEF IInv, Types
<1> DEFINE ix == [index EXCEPT ![a] = "live"]
<1>1. /\ latest' = a /\ writer' = Idle /\ pending' = pending - 1
      /\ renewed' = renewed \cup ({a} \cap Collecting)
      /\ \/ latest # a /\ latest \in Indexed /\ Eligible(latest, ix, heap)
         \/ ~ (latest # a /\ latest \in Indexed) /\ index' = ix /\ heap' = heap
  BY DEF Commit
<1>2. a \in Attempt /\ latest <= a /\ latest \in Nat /\ a \in Nat /\ a <= MaxStreams /\ a <= created
  <2>1. a \in Attempt /\ latest <= a /\ latest \in Nat
    BY <1>0, WriterFacts
  <2>2. writer.save \in Sent
    BY <1>0 DEF Writing
  <2>3. writer.save[1] \in Stream /\ writer.save[1] <= created /\ writer.save[1] \in Nat
    BY <2>2 DEF Sent, Save, Stream
  <2>4. a <= writer.save[1] /\ created \in Nat
    BY <1>0, <2>3, Room DEF Streams, AttemptOf
  <2>5. a \in Nat /\ a <= MaxStreams
    BY <2>1, Room DEF Attempt
  <2> QED BY <2>1, <2>3, <2>4, <2>5
<1>3. /\ ix \in [Attempt -> Standing] /\ ix[a] = "live"
      /\ \A b \in Attempt : b # a => ix[b] = index[b]
  BY <1>0, <1>2 DEF Slots, Standing
<1>4. heap \in Seq(Record) /\ gc.todo \in Seq(Attempt) /\ index \in [Attempt -> Standing]
  BY <1>0 DEF Slots, Collected
<1>5. Collecting \subseteq Attempt /\ \A c \in Collecting : c \in Nat
  BY <1>4, RecordsType
<1> HIDE DEF ix
<1> DEFINE made == IF latest # a /\ latest \in Indexed /\ index[latest] = "live" THEN {latest} ELSE {}
<1>6. /\ index' \in [Attempt -> Standing] /\ heap' \in Seq(Record)
      /\ Collecting' = Collecting \cup made
      /\ \A b \in Attempt : index'[b] = IF b \in made THEN "eligible" ELSE ix[b]
      /\ InOrder(heap, gc.todo) /\ (\A b \in made : \A c \in Collecting : c < b)
         => InOrder(heap', gc.todo)
  <2>1. CASE latest # a /\ latest \in Indexed /\ Eligible(latest, ix, heap)
    <3>1. latest \in Attempt
      BY <2>1 DEF Indexed
    <3>2. /\ index' \in [Attempt -> Standing] /\ heap' \in Seq(Record)
          /\ ix[latest] = "live" => index'[latest] = "eligible"
          /\ \A b \in Attempt : b # latest \/ ix[latest] # "live" => index'[b] = ix[b]
          /\ Collecting' = Collecting \cup (IF ix[latest] = "live" THEN {latest} ELSE {})
          /\ InOrder(heap, gc.todo) /\ (ix[latest] = "live" => \A c \in Collecting : c < latest)
             => InOrder(heap', gc.todo)
      BY <1>3, <1>4, <2>1, <3>1, EligibleFacts
    <3>3. made = IF ix[latest] = "live" THEN {latest} ELSE {}
      BY <1>3, <2>1, <3>1
    <3> HIDE DEF made
    <3> QED BY <3>1, <3>2, <3>3
  <2>2. CASE ~ (latest # a /\ latest \in Indexed) /\ index' = ix /\ heap' = heap
    <3>1. made = {}
      BY <2>2
    <3>2. Collecting' = Collecting
      BY <2>2 DEF Collecting
    <3> HIDE DEF made
    <3> QED BY <1>3, <1>4, <2>2, <3>1, <3>2
  <2> QED BY <1>1, <2>1, <2>2
<1>7. /\ a \notin made
      /\ \A b \in made : b = latest /\ b \in Attempt /\ b # a /\ index[b] = "live" /\ b <= a
  BY <1>2 DEF Indexed
<1>8. latest # a /\ latest \in Indexed /\ index[latest] = "live" => latest \in made
  OBVIOUS
<1> HIDE DEF made
<1>9. index'[a] = "live"
  BY <1>2, <1>3, <1>6, <1>7
<1>10. Slots'
  BY <1>0, <1>1, <1>2, <1>6 DEF Slots
<1>11. a \in Indexed'
  BY <1>2, <1>9 DEF Indexed
<1>12. LatestIsIndexed'
  BY <1>1, <1>11 DEF LatestIsIndexed
<1>13. Writing'
  <2>1. latest' \in 0 .. MaxStreams /\ latest' <= created
    BY <1>1, <1>2, Room
  <2>2. Indexed' = {} => latest' = 0
    BY <1>11
  <2> QED BY <1>1, <2>1, <2>2, SaveEnds
<1>14. /\ \A b \in Attempt : index'[b] = "live" => b = a \/ index[b] = "live"
       /\ Collecting \subseteq Collecting'
       /\ renewed \subseteq renewed' /\ (a \in Collecting => renewed' # {})
  <2>1. \A b \in Attempt : index'[b] = "live" => b = a \/ index[b] = "live"
    BY <1>3, <1>6
  <2> QED BY <1>1, <1>6, <2>1
<1>15. Ordered'
  <2>1. SUFFICES ASSUME rmFails = 0, renewed' = {}
                 PROVE  /\ InOrder(heap', gc.todo)
                        /\ \A b \in Attempt : index'[b] = "eligible" <=> b \in Collecting'
                        /\ \A b \in Attempt : index'[b] = "live" => b = a
                        /\ \A c \in Collecting' : c <= a
    BY <1>1 DEF Ordered
  <2>2. renewed = {} /\ a \notin Collecting
    BY <1>14, <2>1
  <2>3. /\ InOrder(heap, gc.todo)
        /\ \A b \in Attempt : index[b] = "eligible" <=> b \in Collecting
        /\ \A b \in Attempt : index[b] = "live" => b = latest
        /\ \A c \in Collecting : c <= latest
    BY <1>0, <2>1, <2>2 DEF Ordered
  <2>4. \A b \in made : \A c \in Collecting : c < b
    <3>1. TAKE b \in made
    <3>2. TAKE c \in Collecting
    <3>3. b = latest /\ b \notin Collecting /\ c <= latest /\ c # b /\ c \in Nat
      BY <1>5, <1>7, <2>3
    <3> QED BY <1>2, <3>3
  <2>5. \A b \in Attempt : index'[b] = "eligible" <=> b \in Collecting'
    <3>1. TAKE b \in Attempt
    <3>2. CASE b = a
      BY <1>6, <1>7, <1>9, <2>2, <3>2
    <3>3. CASE b # a
      BY <1>3, <1>6, <2>3, <3>3
    <3> QED BY <3>2, <3>3
  <2>6. \A b \in Attempt : index'[b] = "live" => b = a
    <3>1. SUFFICES ASSUME NEW b \in Attempt, index'[b] = "live", b # a
                   PROVE  FALSE
      OBVIOUS
    <3>2. index[b] = "live" /\ b \notin made
      BY <1>3, <1>6, <3>1
    <3>3. b = latest /\ b \in Indexed
      BY <2>3, <3>2 DEF Indexed
    <3> QED BY <1>8, <3>1, <3>2, <3>3
  <2>7. \A c \in Collecting' : c <= a
    <3>1. TAKE c \in Collecting'
    <3>2. c \in Collecting => c <= latest /\ c \in Nat
      BY <1>5, <2>3
    <3>3. c \in Collecting \/ c \in made
      BY <1>6
    <3> QED BY <1>2, <1>7, <3>2, <3>3
  <2> QED BY <1>6, <2>3, <2>4, <2>5, <2>6, <2>7
<1> QED BY <1>1, <1>10, <1>12, <1>13, <1>14, <1>15

\* A rename by the save of attempt a, after which it commits or goes on: what
\* remains to show is about the directories of a.
LEMMA RenameStep ==
  ASSUME IInv, UNCHANGED <<clients, queue, straggler, stalls, rmFails, sweeps>>,
         client # "reading", NEW a \in Attempt, a = AttemptOf(writer.save), writer # Idle,
         NEW content \in [Place -> Folder], NEW from \in Moves, NEW to \in SUBSET Place,
         Rearrange(a, content, Moved(a, from, to)),
         Slots', Writing', Ordered', LatestIsIndexed',
         \A b \in Attempt : b # a /\ index'[b] = "live" => index[b] = "live",
         Collecting \subseteq Collecting', renewed \subseteq renewed',
         OfOne(content["final"]) \/ stalls # 0, OfOne(content["old"]) \/ stalls # 0,
         index'[a] = "live" /\ a \notin Collecting' /\ sweeps = 0 =>
           \/ Full(content["final"])
           \/ writer'.step = "place" /\ writer'.save = writer.save /\ Full(content["old"]),
         OfSave', Written', TmpStays',
         gc.path = <<"final", a>> /\ rmFails = 0 /\ renewed' = {} => Busy(a)'
  PROVE  IInv'
PROOF
<1>0. /\ Types /\ LiveFiles /\ Written /\ Snapshots
      /\ LatestIsIndexed /\ Deletion /\ TmpStays /\ Ordered
      /\ Streams /\ Reading /\ Writing /\ Slots /\ Collected /\ OnDisk
  BY DEF IInv, Types
<1>1. /\ attempt' = attempt /\ tokens' = tokens /\ flushed' = flushed /\ wire' = wire
      /\ created' = created /\ client' = client /\ found' = found /\ straggler' = straggler
      /\ stalls' = stalls /\ rmFails' = rmFails /\ sweeps' = sweeps
  BY DEF clients
<1>2. Streams' /\ Sent' = Sent /\ Content' = Content /\ Folder' = Folder
      /\ \A p : AttemptOf(p)' = attempt[p[1]]
  BY <1>0, <1>1, NoStream DEF Folder, AttemptOf
<1>3. Reading'
  BY <1>0, <1>1, <1>2 DEF Reading
<1>4. /\ disk' \in [Attempt -> [Place -> Folder]] /\ disk'[a] = content
      /\ \A b \in Attempt : b # a => disk'[b] = disk[b]
      /\ gc' \in [at : At0, todo : Seq(Attempt), dir : Handle, path : Handle, ok : BOOLEAN]
      /\ gc'.at = gc.at /\ gc'.todo = gc.todo /\ gc'.path = gc.path /\ gc'.ok = gc.ok
      /\ gc'.dir # Nowhere => gc.dir # Nowhere /\ gc'.dir[2] = gc.dir[2]
      /\ gc'.dir # Nowhere /\ gc.dir[1] \in {"final", "old"} => gc'.dir[1] \in {"final", "old"}
      /\ gc.dir = Nowhere \/ gc.dir[2] # a => gc'.dir = gc.dir
  BY <1>0, Rearranged
<1>5. Collected'
  <2>1. stalls' \in Nat
    BY <1>0, <1>1 DEF Collected
  <2> QED BY <1>0, <1>1, <1>4, <2>1, CollectedKept
<1>6. OnDisk'
  BY <1>0, <1>1, <1>2, <1>4 DEF OnDisk
<1>7. LiveFiles'
  <2>1. SUFFICES ASSUME NEW b \in Attempt, index'[b] = "live", b \notin Collecting', sweeps = 0
                 PROVE  \/ Full(disk'[b]["final"])
                        \/ writer'.step = "place" /\ AttemptOf(writer.save)' = b /\ Full(disk'[b]["old"])
    BY <1>1 DEF LiveFiles
  <2>2. CASE b = a
    BY <1>2, <1>4, <2>1, <2>2 DEF AttemptOf
  <2>3. CASE b # a
    <3>1. index[b] = "live" /\ b \notin Collecting
      BY <2>1, <2>3
    <3>2. Full(disk[b]["final"])
      BY <1>0, <2>1, <2>3, <3>1 DEF LiveFiles
    <3> QED BY <1>4, <2>3, <3>2
  <2> QED BY <2>2, <2>3
<1>8. Snapshots'
  <2>1. stalls = 0 => \A b \in Attempt : OfOne(disk'[b]["final"]) /\ OfOne(disk'[b]["old"])
    <3>1. SUFFICES ASSUME stalls = 0, NEW b \in Attempt
                   PROVE  OfOne(disk'[b]["final"]) /\ OfOne(disk'[b]["old"])
      OBVIOUS
    <3>2. CASE b = a
      BY <1>4, <3>1, <3>2
    <3>3. CASE b # a
      BY <1>0, <1>4, <3>1, <3>3 DEF Snapshots
    <3> QED BY <3>2, <3>3
  <2>2. stalls = 0 /\ client = "marking" => found.tokens = found.manifest
    BY <1>0 DEF Snapshots
  <2> QED BY <1>1, <2>1, <2>2 DEF Snapshots, OfSave
<1>9. Deletion'
  <2>1. SUFFICES ASSUME rmFails = 0, renewed' = {}, gc.path # Nowhere, gc.path[1] = "final"
                 PROVE  /\ gc.at = "files" => gc'.dir = gc.path \/ Busy(gc.path[2])'
                        /\ gc.at = "rmdir" => disk'[gc.path[2]][gc.path[1]] = Empty \/ Busy(gc.path[2])'
                        /\ gc.at = "done" /\ ~gc.ok => Busy(gc.path[2])'
    BY <1>1, <1>4 DEF Deletion, At, Busy, AttemptOf
  <2>2. gc.path \in Place \X Attempt
    BY <1>0, <2>1 DEF Collected, Handle
  <2>3. CASE gc.path[2] = a
    <3>1. gc.path = <<"final", a>>
      BY <2>1, <2>2, <2>3
    <3>2. Busy(a)'
      BY <2>1, <3>1
    <3>3. Busy(gc.path[2])'
      BY <1>4, <2>3, <3>2 DEF Busy, AttemptOf
    <3> QED BY <3>3
  <2>4. CASE gc.path[2] # a
    <3>1. ~ Busy(gc.path[2])
      BY <2>4 DEF Busy
    <3>2. renewed = {}
      BY <2>1
    <3>3. /\ gc.at = "files" => gc.dir = gc.path
          /\ gc.at = "rmdir" => At(gc.path) = Empty
          /\ ~ (gc.at = "done" /\ ~gc.ok)
      BY <1>0, <2>1, <3>1, <3>2 DEF Deletion
    <3>4. disk'[gc.path[2]][gc.path[1]] = At(gc.path)
      BY <1>4, <2>2, <2>4 DEF At
    <3>5. gc.dir = gc.path => gc'.dir = gc.path
      BY <1>4, <2>4
    <3> QED BY <3>3, <3>4, <3>5
  <2> QED BY <2>3, <2>4
<1> QED BY <1>2, <1>3, <1>5, <1>6, <1>7, <1>8, <1>9 DEF IInv, Types

\* The attempt that the collector deletes is among those with a record.
LEMMA DeletedHasRecord ==
  ASSUME Collected, NEW a \in Attempt, gc.path = <<"final", a>>
  PROVE  a \in Collecting
PROOF
<1>1. gc.path # Nowhere /\ gc.path[1] = "final" /\ gc.path[2] = a
  BY Markers, Folders
<1>2. gc.todo # <<>> /\ a = Head(gc.todo) /\ gc.todo \in Seq(Attempt)
  BY <1>1 DEF Collected
<1>3. 1 \in DOMAIN gc.todo /\ a = gc.todo[1]
  BY <1>2
<1>4. a \in RecordsOf(heap, gc.todo)
  BY <1>3 DEF RecordsOf
<1> QED BY <1>4, CollectingIs

LEMMA SwapStep ==
  ASSUME IInv, Swap
  PROVE  IInv'
PROOF
<1>0. /\ Types /\ LiveFiles /\ Written /\ Snapshots
      /\ LatestIsIndexed /\ Deletion /\ TmpStays /\ Ordered
      /\ Streams /\ Reading /\ Writing /\ Slots /\ Collected /\ OnDisk
  BY DEF IInv, Types
<1>1. writer.step = "swap" /\ client # "reading"
      /\ UNCHANGED <<clients, queue, straggler, stalls, rmFails, sweeps>>
  BY DEF Swap
<1>2. /\ writer # Idle /\ AttemptOf(writer.save) \in Attempt
      /\ writer = [step |-> writer.step, save |-> writer.save] /\ writer.save # Missing
  BY <1>0, <1>1, WriterFacts DEF Idle
<1>3. PICK a \in Attempt : a = AttemptOf(writer.save)
  BY <1>2
<1> DEFINE d == disk[a]
<1>4. d \in [Place -> Folder] /\ d["final"] \in Folder /\ d["tmp"] \in Folder /\ d["old"] \in Folder
  BY <1>0, Folders DEF OnDisk
<1>5. /\ attempt' = attempt /\ tokens' = tokens /\ flushed' = flushed /\ wire' = wire
      /\ created' = created /\ client' = client /\ found' = found /\ queue' = queue
      /\ stalls' = stalls /\ rmFails' = rmFails /\ sweeps' = sweeps
  BY <1>1 DEF clients
<1>6. stalls = 0 => /\ OfOne(d["final"]) /\ OfOne(d["old"])
                    /\ \A f \in File : d["tmp"][f] \in {Missing, writer.save}
  BY <1>0, <1>1, <1>3 DEF Snapshots
<1>7. stalls = 0 => OfOne(d["tmp"])
  BY <1>6 DEF OfOne, File
<1>8. sweeps = 0 => Full(d["tmp"])
  BY <1>0, <1>1, <1>2, <1>3 DEF Written
<1>9. \A b \in Attempt : index[b] = "live" /\ b \notin Collecting /\ sweeps = 0 => Full(disk[b]["final"])
  BY <1>0, <1>1 DEF LiveFiles
<1> HIDE DEF d
<1>10. \/ /\ Rearrange(a, [d EXCEPT !["old"] = d["final"], !["final"] = Absent],
                       Moved(a, [final |-> "old"], {"old"}))
          /\ d["final"] # Absent
          /\ writer' = [writer EXCEPT !.step = "place"]
          /\ UNCHANGED <<slot, pending>>
       \/ /\ d["tmp"] # Absent
          /\ Rearrange(a, [d EXCEPT !["final"] = d["tmp"], !["tmp"] = Absent],
                       Moved(a, [tmp |-> "final"], {}))
          /\ Commit(a)
       \/ Reject(d, Moved(a, <<>>, {})) /\ UNCHANGED slot
  BY <1>3 DEF Swap, d
<1>11. CASE /\ Rearrange(a, [d EXCEPT !["old"] = d["final"], !["final"] = Absent],
                         Moved(a, [final |-> "old"], {"old"}))
            /\ writer' = [writer EXCEPT !.step = "place"]
            /\ UNCHANGED <<slot, pending>>
  <2> DEFINE content == [d EXCEPT !["old"] = d["final"], !["final"] = Absent]
  <2>1. content \in [Place -> Folder] /\ content["final"] = Absent /\ content["old"] = d["final"]
        /\ content["tmp"] = d["tmp"]
    BY <1>4, Folders DEF Place
  <2> HIDE DEF content
  <2>2. Rearrange(a, content, Moved(a, [final |-> "old"], {"old"}))
    BY <1>11 DEF content
  <2>3. [final |-> "old"] \in Moves /\ {"old"} \in SUBSET Place
    BY DEF Moves, Place
  <2>4. /\ writer' = [step |-> "place", save |-> writer.save] /\ writer'.step = "place"
        /\ writer'.save = writer.save /\ writer' # Idle
    BY <1>2, <1>11 DEF Idle
  <2>5. /\ index' = index /\ latest' = latest /\ heap' = heap /\ renewed' = renewed
        /\ pending' = pending
    BY <1>11 DEF slot
  <2>6. /\ disk' \in [Attempt -> [Place -> Folder]] /\ disk'[a] = content
        /\ gc'.at = gc.at /\ gc'.todo = gc.todo /\ gc'.path = gc.path
    BY <1>0, <2>1, <2>2, <2>3, Rearranged
  <2>7. Sent' = Sent /\ Content' = Content /\ Indexed' = Indexed /\ Collecting' = Collecting
        /\ AttemptOf(writer.save)' = a
    BY <1>3, <1>5, <2>4, <2>5, <2>6 DEF Sent, Content, Indexed, AttemptOf, Collecting
  <2>8. Slots' /\ Ordered' /\ LatestIsIndexed'
    BY <1>0, <1>5, <2>5, <2>6, <2>7 DEF Slots, Ordered, LatestIsIndexed
  <2>9. Writing'
    <3>1. writer.save \in Sent /\ latest <= a
      BY <1>0, <1>2, <1>3 DEF Writing
    <3>2. writer' \in [step : {"idle", "tokens", "manifest", "swap", "place", "clean"},
                       save : Content]
      BY <2>4, <3>1 DEF Content
    <3>3. PendingCounts'
      BY <1>0, <1>2, <1>5, <2>4, <2>5 DEF Writing, PendingCounts
    <3>4. /\ latest' \in 0 .. MaxStreams /\ latest' <= created' /\ (Indexed' = {} => latest' = 0)
          /\ queue' \in Seq(Save) /\ (\A i \in DOMAIN queue' : queue'[i] \in Sent')
          /\ pending' \in 0 .. Cap
      BY <1>0, <1>5, <2>5, <2>7 DEF Writing
    <3> QED BY <2>4, <2>5, <2>7, <3>1, <3>2, <3>3, <3>4 DEF Writing
  <2>10. OfSave'
    BY <1>5, <1>6, <2>1, <2>4, <2>6, <2>7 DEF OfSave, File
  <2>11. Written'
    BY <1>5, <1>8, <2>1, <2>4, <2>6, <2>7 DEF Written
  <2>12. TmpStays'
    <3>1. gc.path # Nowhere /\ gc.path[1] = "final" => d["tmp"] # Absent
      BY <1>0, <1>1, <1>3 DEF TmpStays, d
    <3> QED BY <2>1, <2>6, <2>7, <3>1 DEF TmpStays
  <2>13. Busy(a)'
    BY <2>4, <2>7 DEF Busy
  <2>14. OfOne(content["final"]) /\ (OfOne(content["old"]) \/ stalls # 0)
    BY <1>6, <2>1, Folders DEF OfOne
  <2>15. index'[a] = "live" /\ a \notin Collecting' /\ sweeps = 0 => Full(content["old"])
    BY <1>9, <2>1, <2>5, <2>7 DEF d
  <2> QED BY <1>1, <1>2, <1>3, <2>1, <2>2, <2>3, <2>4, <2>5, <2>7, <2>8, <2>9, <2>10, <2>11, <2>12,
             <2>13, <2>14, <2>15, RenameStep
<1>12. CASE /\ d["tmp"] # Absent
            /\ Rearrange(a, [d EXCEPT !["final"] = d["tmp"], !["tmp"] = Absent],
                         Moved(a, [tmp |-> "final"], {}))
            /\ Commit(a)
  <2> DEFINE content == [d EXCEPT !["final"] = d["tmp"], !["tmp"] = Absent]
  <2>1. content \in [Place -> Folder] /\ content["final"] = d["tmp"] /\ content["old"] = d["old"]
    BY <1>4, Folders DEF Place
  <2> HIDE DEF content
  <2>2. Rearrange(a, content, Moved(a, [tmp |-> "final"], {})) /\ Commit(a)
    BY <1>12 DEF content
  <2>3. [tmp |-> "final"] \in Moves /\ {} \in SUBSET Place
    BY DEF Moves
  <2>4. gc'.todo = gc.todo
    BY <1>0, <2>1, <2>2, <2>3, Rearranged
  <2>5. UNCHANGED <<clients, queue, rmFails>>
    BY <1>1
  <2>6. /\ Slots' /\ Writing' /\ Ordered' /\ LatestIsIndexed'
        /\ writer' = Idle /\ latest' = a
        /\ \A b \in Attempt : index'[b] = "live" => b = a \/ index[b] = "live"
        /\ Collecting \subseteq Collecting'
        /\ renewed \subseteq renewed' /\ (a \in Collecting => renewed' # {})
    BY <1>2, <1>3, <2>2, <2>4, <2>5, CommitFacts
  <2>7. OfSave' /\ Written' /\ TmpStays'
    BY <2>6 DEF OfSave, Written, TmpStays, Idle
  <2>8. gc.path = <<"final", a>> => renewed' # {}
    BY <1>0, <2>6, DeletedHasRecord
  <2>9. (OfOne(content["final"]) \/ stalls # 0) /\ (OfOne(content["old"]) \/ stalls # 0)
    BY <1>6, <1>7, <2>1
  <2>10. sweeps = 0 => Full(content["final"])
    BY <1>8, <2>1
  <2>11. \A b \in Attempt : b # a /\ index'[b] = "live" => index[b] = "live"
    BY <2>6
  <2> QED BY <1>1, <1>2, <1>3, <2>1, <2>2, <2>3, <2>6, <2>7, <2>8, <2>9, <2>10, <2>11, RenameStep
<1>13. CASE Reject(d, Moved(a, <<>>, {})) /\ UNCHANGED slot
  <2>1. Reject(disk[AttemptOf(writer.save)], Moved(AttemptOf(writer.save), <<>>, {}))
    BY <1>3, <1>13 DEF d
  <2>2. stalls' \in Nat /\ stalls <= stalls' /\ straggler' \subseteq File \X Sent
        /\ (stalls' = 0 => straggler' = {})
    BY <1>0, <1>1 DEF Collected, OnDisk
  <2>3. UNCHANGED <<clients, queue, slot, rmFails, sweeps>> /\ {} \in SUBSET {"tmp"}
    BY <1>1, <1>13
  <2>4. writer.step \in {"tokens", "manifest", "swap"}
    BY <1>1
  <2> QED BY <2>1, <2>2, <2>3, <2>4, RejectStep
<1> QED BY <1>10, <1>11, <1>12, <1>13

LEMMA ReplaceStep ==
  ASSUME IInv, Replace
  PROVE  IInv'
PROOF
<1>0. /\ Types /\ LiveFiles /\ Written /\ Snapshots
      /\ LatestIsIndexed /\ Deletion /\ TmpStays /\ Ordered
      /\ Streams /\ Reading /\ Writing /\ Slots /\ Collected /\ OnDisk
  BY DEF IInv, Types
<1>1. writer.step = "place" /\ client # "reading"
      /\ UNCHANGED <<clients, queue, slot, straggler, stalls, rmFails, sweeps>>
  BY DEF Replace
<1>2. /\ writer # Idle /\ AttemptOf(writer.save) \in Attempt
      /\ writer = [step |-> writer.step, save |-> writer.save] /\ writer.save # Missing
  BY <1>0, <1>1, WriterFacts DEF Idle
<1>3. PICK a \in Attempt : a = AttemptOf(writer.save)
  BY <1>2
<1> DEFINE d == disk[a]
<1>4. d \in [Place -> Folder] /\ d["final"] \in Folder /\ d["tmp"] \in Folder /\ d["old"] \in Folder
  BY <1>0, Folders DEF OnDisk
<1>5. /\ attempt' = attempt /\ tokens' = tokens /\ flushed' = flushed /\ wire' = wire
      /\ created' = created /\ client' = client /\ found' = found /\ queue' = queue
      /\ index' = index /\ latest' = latest /\ heap' = heap /\ renewed' = renewed
      /\ stalls' = stalls /\ rmFails' = rmFails /\ sweeps' = sweeps
  BY <1>1 DEF clients, slot
<1>6. stalls = 0 => OfOne(d["old"]) /\ OfOne(d["tmp"])
  BY <1>0, <1>1, <1>3 DEF Snapshots, OfOne, File
<1>7. sweeps = 0 => Full(d["tmp"])
  BY <1>0, <1>1, <1>2, <1>3 DEF Written
<1>8. gc.path # Nowhere /\ gc.path[1] = "final" => d["tmp"] # Absent
  BY <1>0, <1>1, <1>3 DEF TmpStays
<1>9. /\ Indexed' = Indexed /\ Slots' /\ LatestIsIndexed'
      /\ \A b \in Attempt : b # a /\ index'[b] = "live" => index[b] = "live"
      /\ renewed \subseteq renewed'
      /\ latest \in 0 .. MaxStreams /\ latest <= created /\ (Indexed = {} => latest = 0)
  BY <1>0, <1>5 DEF Indexed, Slots, LatestIsIndexed, Writing
<1> HIDE DEF d
<1>10. \/ /\ d["tmp"] # Absent
          /\ Rearrange(a, [d EXCEPT !["final"] = d["tmp"], !["tmp"] = Absent],
                       Moved(a, [tmp |-> "final"], {}))
          /\ writer' = [writer EXCEPT !.step = "clean"]
          /\ UNCHANGED pending
       \/ /\ d["tmp"] = Absent
          /\ Reject([d EXCEPT !["final"] = d["old"], !["old"] = Absent],
                    Moved(a, [old |-> "final"], {}))
  BY <1>3 DEF Replace, d
<1>11. gc.path = <<"final", a>> => gc.path # Nowhere /\ gc.path[1] = "final"
  BY Markers, Folders
<1>12. CASE /\ Rearrange(a, [d EXCEPT !["final"] = d["tmp"], !["tmp"] = Absent],
                         Moved(a, [tmp |-> "final"], {}))
            /\ writer' = [writer EXCEPT !.step = "clean"]
            /\ UNCHANGED pending
  <2> DEFINE content == [d EXCEPT !["final"] = d["tmp"], !["tmp"] = Absent]
  <2>1. content \in [Place -> Folder] /\ content["final"] = d["tmp"] /\ content["old"] = d["old"]
    BY <1>4, Folders DEF Place
  <2> HIDE DEF content
  <2>2. Rearrange(a, content, Moved(a, [tmp |-> "final"], {}))
    BY <1>12 DEF content
  <2>3. [tmp |-> "final"] \in Moves /\ {} \in SUBSET Place
    BY DEF Moves
  <2>4. /\ writer' = [step |-> "clean", save |-> writer.save] /\ writer'.step = "clean"
        /\ writer'.save = writer.save /\ writer' # Idle
    BY <1>2, <1>12 DEF Idle
  <2>5. pending' = pending
    BY <1>12
  <2>6. /\ disk' \in [Attempt -> [Place -> Folder]] /\ disk'[a] = content
        /\ gc'.at = gc.at /\ gc'.todo = gc.todo /\ gc'.path = gc.path
    BY <1>0, <2>1, <2>2, <2>3, Rearranged
  <2>7. Sent' = Sent /\ Content' = Content /\ Collecting' = Collecting
        /\ AttemptOf(writer.save)' = a
    BY <1>3, <1>5, <2>4, <2>6 DEF Sent, Content, AttemptOf, Collecting
  <2>8. Ordered'
    BY <1>0, <1>5, <2>6, <2>7 DEF Ordered
  <2>9. Writing'
    <3>1. writer.save \in Sent /\ latest <= a
      BY <1>0, <1>2, <1>3 DEF Writing
    <3>2. writer' \in [step : {"idle", "tokens", "manifest", "swap", "place", "clean"},
                       save : Content]
      BY <2>4, <3>1 DEF Content
    <3>3. PendingCounts'
      BY <1>0, <1>2, <1>5, <2>4, <2>5 DEF Writing, PendingCounts
    <3>4. /\ latest' \in 0 .. MaxStreams /\ latest' <= created' /\ (Indexed' = {} => latest' = 0)
          /\ queue' \in Seq(Save) /\ (\A i \in DOMAIN queue' : queue'[i] \in Sent')
          /\ pending' \in 0 .. Cap
      BY <1>0, <1>5, <1>9, <2>5, <2>7 DEF Writing
    <3> QED BY <1>5, <2>4, <2>7, <3>1, <3>2, <3>3, <3>4 DEF Writing
  <2>10. OfSave' /\ TmpStays'
    BY <2>4 DEF OfSave, TmpStays
  <2>11. Written'
    BY <1>5, <1>7, <2>1, <2>4, <2>6, <2>7 DEF Written
  <2>12. Busy(a)'
    BY <2>4, <2>7 DEF Busy
  <2>13. (OfOne(content["final"]) \/ stalls # 0) /\ (OfOne(content["old"]) \/ stalls # 0)
    BY <1>6, <2>1
  <2>14. sweeps = 0 => Full(content["final"])
    BY <1>7, <2>1
  <2> QED BY <1>1, <1>2, <1>3, <1>9, <2>1, <2>2, <2>3, <2>7, <2>8, <2>9, <2>10, <2>11,
             <2>12, <2>13, <2>14, RenameStep
<1>13. CASE /\ d["tmp"] = Absent
            /\ Reject([d EXCEPT !["final"] = d["old"], !["old"] = Absent],
                      Moved(a, [old |-> "final"], {}))
  <2> DEFINE back    == [d EXCEPT !["final"] = d["old"], !["old"] = Absent]
             content == [back EXCEPT !["tmp"] = Absent]
  <2>1. back \in [Place -> Folder] /\ back["final"] = d["old"] /\ back["old"] = Absent
    BY <1>4, Folders DEF Place
  <2>2. Reject(back, Moved(a, [old |-> "final"], {}))
    BY <1>13
  <2> HIDE DEF back
  <2>3. content \in [Place -> Folder] /\ content["final"] = d["old"] /\ content["old"] = Absent
    BY <2>1, Folders
  <2>4. Rearrange(a, content, Moved(a, [old |-> "final"], {})) /\ writer' = Idle
        /\ pending' = pending - 1
    BY <1>3, <2>2 DEF Reject
  <2> HIDE DEF content
  <2>5. [old |-> "final"] \in Moves /\ {} \in SUBSET Place
    BY DEF Moves
  <2>6. gc'.todo = gc.todo
    BY <1>0, <2>3, <2>4, <2>5, Rearranged
  <2>7. Collecting' = Collecting
    BY <1>5, <2>6 DEF Collecting
  <2>8. Ordered'
    BY <1>0, <1>5, <2>6, <2>7 DEF Ordered
  <2>9. Writing'
    BY <1>1, <1>2, <1>5, <1>9, <2>4, SaveEnds
  <2>10. OfSave' /\ Written' /\ TmpStays'
    BY <2>4 DEF OfSave, Written, TmpStays, Idle
  <2>11. sweeps # 0 /\ gc.path # <<"final", a>>
    BY <1>7, <1>8, <1>11, <1>13, Folders DEF Full
  <2>12. (OfOne(content["final"]) \/ stalls # 0) /\ OfOne(content["old"])
    BY <1>6, <2>3, Folders DEF OfOne
  <2> QED BY <1>1, <1>2, <1>3, <1>9, <2>3, <2>4, <2>5, <2>7, <2>8, <2>9, <2>10, <2>11, <2>12,
             RenameStep
<1> QED BY <1>10, <1>12, <1>13

LEMMA CleanStep ==
  ASSUME IInv, CleanOld
  PROVE  IInv'
PROOF
<1>0. /\ Types /\ LiveFiles /\ Written /\ Snapshots
      /\ Streams /\ Reading /\ Writing /\ Slots /\ Collected /\ OnDisk
  BY DEF IInv, Types
<1>1. writer.step = "clean" /\ client # "reading"
      /\ UNCHANGED <<clients, queue, straggler, stalls, rmFails, sweeps>>
  BY DEF CleanOld
<1>2. writer # Idle /\ AttemptOf(writer.save) \in Attempt
  BY <1>0, <1>1, WriterFacts DEF Idle
<1>3. PICK a \in Attempt : a = AttemptOf(writer.save)
  BY <1>2
<1> DEFINE content == [disk[a] EXCEPT !["old"] = Absent]
<1>4. content \in [Place -> Folder] /\ content["final"] = disk[a]["final"] /\ content["old"] = Absent
  BY <1>0, Folders DEF OnDisk, Place
<1>5. Rearrange(a, content, Moved(a, <<>>, {"old"})) /\ Commit(a)
  BY <1>3 DEF CleanOld
<1> HIDE DEF content
<1>6. <<>> \in Moves /\ {"old"} \in SUBSET Place
  BY DEF Moves, Place
<1>7. gc'.todo = gc.todo
  BY <1>0, <1>4, <1>5, <1>6, Rearranged
<1>8. UNCHANGED <<clients, queue, rmFails>>
  BY <1>1
<1>9. /\ Slots' /\ Writing' /\ Ordered' /\ LatestIsIndexed'
      /\ writer' = Idle /\ latest' = a
      /\ \A b \in Attempt : index'[b] = "live" => b = a \/ index[b] = "live"
      /\ Collecting \subseteq Collecting'
      /\ renewed \subseteq renewed' /\ (a \in Collecting => renewed' # {})
  BY <1>2, <1>3, <1>5, <1>7, <1>8, CommitFacts
<1>10. OfSave' /\ Written' /\ TmpStays'
  BY <1>9 DEF OfSave, Written, TmpStays, Idle
<1>11. gc.path = <<"final", a>> => renewed' # {}
  BY <1>0, <1>9, DeletedHasRecord
<1>12. (OfOne(content["final"]) \/ stalls # 0) /\ OfOne(content["old"])
  BY <1>0, <1>4, Folders DEF OfOne, Snapshots
<1>13. a \notin Collecting' /\ sweeps = 0 => Full(content["final"])
  BY <1>0, <1>1, <1>2, <1>3, <1>4, <1>9 DEF Written
<1>14. \A b \in Attempt : b # a /\ index'[b] = "live" => index[b] = "live"
  BY <1>9
<1> QED BY <1>1, <1>2, <1>3, <1>4, <1>5, <1>6, <1>9, <1>10, <1>11, <1>12, <1>13, <1>14, RenameStep

-----------------------------------------------------------------------------
(***************************************************************************)
(* Steps of the collector.                                                  *)
(***************************************************************************)

\* A step of the collector that leaves the directories alone.
LEMMA CollectorStep ==
  ASSUME IInv,
         UNCHANGED <<clients, queue, pending, renewed, writer, disk, straggler, stalls>>,
         sweeps' \in Nat, sweeps <= sweeps', Slots', Collected',
         latest' = latest \/ (latest' = 0 /\ client # "reading"),
         Indexed' = {} => latest' = 0,
         \A b \in Attempt : index'[b] = "live" /\ b \notin Collecting' =>
                              index[b] = "live" /\ b \notin Collecting,
         writer.step = "clean" => Collecting \subseteq Collecting',
         Ordered', LatestIsIndexed', Deletion', TmpStays'
  PROVE  IInv'
PROOF
<1>0. /\ Types /\ LiveFiles /\ Written /\ Snapshots
      /\ Streams /\ Reading /\ Writing /\ Slots /\ Collected /\ OnDisk
  BY DEF IInv, Types
<1>1. /\ attempt' = attempt /\ tokens' = tokens /\ flushed' = flushed /\ wire' = wire
      /\ created' = created /\ client' = client /\ found' = found /\ queue' = queue
      /\ pending' = pending /\ writer' = writer /\ disk' = disk /\ straggler' = straggler
      /\ stalls' = stalls /\ renewed' = renewed
  BY DEF clients
<1>2. Streams' /\ Sent' = Sent /\ Content' = Content /\ Folder' = Folder
      /\ \A p : AttemptOf(p)' = attempt[p[1]]
  BY <1>0, <1>1, NoStream DEF Folder, AttemptOf
<1>3. Reading'
  BY <1>0, <1>1, <1>2 DEF Reading
<1>4. latest \in Nat /\ 0 <= latest /\ latest' <= latest /\ latest' \in Nat
  BY <1>0, Room DEF Writing
<1>5. Writing'
  <2>1. latest' \in 0 .. MaxStreams /\ latest' <= created
    BY <1>0, <1>4, Room DEF Writing, Streams
  <2>2. writer # Idle => writer.save \in Sent /\ latest' <= AttemptOf(writer.save)
    <3>1. writer # Idle => AttemptOf(writer.save) \in Attempt /\ latest <= AttemptOf(writer.save)
                           /\ writer.save \in Sent
      BY <1>0, WriterFacts
    <3> QED BY <1>4, <3>1 DEF Attempt
  <2>3. PendingCounts'
    BY <1>0, <1>1 DEF Writing, PendingCounts
  <2>4. AttemptOf(writer.save)' = AttemptOf(writer.save)
    BY <1>1 DEF AttemptOf
  <2> QED BY <1>0, <1>1, <1>2, <2>1, <2>2, <2>3, <2>4 DEF Writing
<1>6. OnDisk'
  BY <1>0, <1>1, <1>2 DEF OnDisk
<1>7. sweeps' = 0 => sweeps = 0
  BY <1>0 DEF Collected
<1>8. LiveFiles'
  BY <1>0, <1>1, <1>7 DEF LiveFiles, AttemptOf
<1>9. Written'
  BY <1>0, <1>1, <1>7 DEF Written, AttemptOf
<1>10. Snapshots'
  BY <1>0, <1>1 DEF Snapshots, AttemptOf
<1> QED BY <1>2, <1>3, <1>5, <1>6, <1>8, <1>9, <1>10 DEF IInv, Types

LEMMA CollectStep ==
  ASSUME IInv, Collect
  PROVE  IInv'
PROOF
<1>0. /\ LatestIsIndexed /\ Ordered /\ Writing /\ Slots /\ Collected
  BY DEF IInv, Types
<1>1. PICK I \in SUBSET DOMAIN heap :
        /\ Due(I)
        /\ gc' = [gc EXCEPT !.at = "next", !.todo = Picked([i \in I |-> heap[i].attempt], I)]
        /\ heap' = Picked(heap, DOMAIN heap \ I)
  BY DEF Collect
<1>2. /\ gc = Asleep /\ index' = index /\ latest' = latest /\ renewed' = renewed
      /\ UNCHANGED <<clients, queue, pending, renewed, writer, disk, straggler, stalls>>
      /\ rmFails' = rmFails /\ sweeps' = sweeps
  BY DEF Collect
<1> DEFINE t == Picked([i \in I |-> heap[i].attempt], I)
<1>3. heap \in Seq(Record) /\ gc.todo = <<>>
  BY <1>0, <1>2 DEF Slots, Asleep
<1>4. /\ t \in Seq(Attempt) /\ heap' \in Seq(Record)
      /\ RecordsOf(heap', t) = RecordsOf(heap, <<>>)
      /\ InOrder(heap, <<>>) /\ Due(I) => InOrder(heap', t)
  BY <1>1, <1>3, PickRecords
<1>5. gc' = [gc EXCEPT !.at = "next", !.todo = t]
  BY <1>1
<1> HIDE DEF t
<1>6. /\ gc' \in [at : At0, todo : Seq(Attempt), dir : Handle, path : Handle, ok : BOOLEAN]
      /\ gc'.at = "next" /\ gc'.todo = t /\ gc'.path = gc.path /\ gc'.dir = gc.dir
  BY <1>0, <1>4, <1>5 DEF Collected, At0
<1>7. gc.path = Nowhere /\ gc.dir = Nowhere
  BY <1>2 DEF Asleep
<1>8. Collecting' = Collecting /\ Indexed' = Indexed
  BY <1>2, <1>3, <1>4, <1>6, CollectingIs DEF Indexed
<1>9. Slots'
  BY <1>0, <1>2, <1>4 DEF Slots
<1>10. Collected'
  BY <1>0, <1>2, <1>6, <1>7 DEF Collected, Deleting
<1>11. Ordered'
  BY <1>0, <1>1, <1>2, <1>3, <1>4, <1>6, <1>8 DEF Ordered
<1>12. LatestIsIndexed'
  BY <1>0, <1>2, <1>8 DEF LatestIsIndexed
<1>13. Deletion' /\ TmpStays'
  BY <1>6, <1>7 DEF Deletion, TmpStays
<1>14. sweeps' \in Nat /\ sweeps <= sweeps' /\ (Indexed' = {} => latest' = 0)
  BY <1>0, <1>2, <1>8 DEF Collected, Writing
<1> QED BY <1>2, <1>8, <1>9, <1>10, <1>11, <1>12, <1>13, <1>14, CollectorStep

\* The attempt at the head of the list is dropped: while the records are in order
\* it is the oldest, and never the latest unless it is the only one.
LEMMA PopFacts ==
  ASSUME IInv, gc.todo # <<>>, Pop(Head(gc.todo)), gc'.todo = Tail(gc.todo),
         UNCHANGED <<heap, renewed, rmFails>>
  PROVE  /\ Slots' /\ Ordered' /\ LatestIsIndexed'
         /\ latest' = latest \/ latest' = 0
         /\ Indexed' = {} => latest' = 0
         /\ \A b \in Attempt : index'[b] = "live" /\ b \notin Collecting' =>
                                 index[b] = "live" /\ b \notin Collecting
PROOF
<1>0. /\ LatestIsIndexed /\ Ordered /\ Writing /\ Slots /\ Collected
  BY DEF IInv, Types
<1> DEFINE a == Head(gc.todo)
<1>1. gc.todo \in Seq(Attempt) /\ heap \in Seq(Record) /\ heap' = heap /\ renewed' = renewed
      /\ rmFails' = rmFails
  BY <1>0 DEF Slots, Collected
<1>2. /\ a \in Attempt /\ Tail(gc.todo) \in Seq(Attempt)
      /\ RecordsOf(heap, gc.todo) = RecordsOf(heap, Tail(gc.todo)) \cup {a}
      /\ InOrder(heap, gc.todo) => /\ InOrder(heap, Tail(gc.todo))
                                   /\ \A c \in RecordsOf(heap, Tail(gc.todo)) : a < c
  BY <1>1, DropHead
<1>3. index' = [index EXCEPT ![a] = "none"] /\ latest' = IF Indexed \subseteq {a} THEN 0 ELSE latest
  BY DEF Pop
<1> HIDE DEF a
<1>4. /\ index' \in [Attempt -> Standing] /\ index'[a] = "none"
      /\ \A b \in Attempt : b # a => index'[b] = index[b]
  BY <1>0, <1>2, <1>3 DEF Slots, Standing
<1>5. Collecting = Collecting' \cup {a} /\ Collecting' = RecordsOf(heap, Tail(gc.todo))
      /\ Collecting \subseteq Attempt
  BY <1>1, <1>2, CollectingIs, RecordsType
<1>6. Indexed' = Indexed \ {a}
  BY <1>4 DEF Indexed
<1>7. Slots'
  BY <1>0, <1>1, <1>4 DEF Slots
<1>8. Indexed' = {} <=> Indexed \subseteq {a}
  BY <1>6
<1>9. \A b \in Attempt : index'[b] = "live" => b # a /\ index[b] = "live"
  BY <1>4
<1>10. ASSUME rmFails = 0, renewed = {}
       PROVE  /\ InOrder(heap, gc.todo)
              /\ \A b \in Attempt : index[b] = "eligible" <=> b \in Collecting
              /\ \A b \in Attempt : index[b] = "live" => b = latest
              /\ \A b \in Collecting : b <= latest
              /\ \A c \in Collecting' : a < c /\ c # a
  <2>1. /\ InOrder(heap, gc.todo)
        /\ \A b \in Attempt : index[b] = "eligible" <=> b \in Collecting
        /\ \A b \in Attempt : index[b] = "live" => b = latest
        /\ \A b \in Collecting : b <= latest
    BY <1>0, <1>10 DEF Ordered
  <2>2. \A c \in Collecting' : a < c
    BY <1>2, <1>5, <2>1
  <2>3. \A c \in Collecting' : c \in Nat /\ a \in Nat
    BY <1>2, <1>5 DEF Attempt
  <2> QED BY <2>1, <2>2, <2>3
<1>11. Ordered'
  <2>1. SUFFICES ASSUME rmFails = 0, renewed = {}
                 PROVE  /\ InOrder(heap, Tail(gc.todo))
                        /\ \A b \in Attempt : index'[b] = "eligible" <=> b \in Collecting'
                        /\ \A b \in Attempt : index'[b] = "live" => b = latest'
                        /\ \A b \in Collecting' : b <= latest'
    BY <1>1 DEF Ordered
  <2>2. InOrder(heap, Tail(gc.todo))
    BY <1>2, <1>10, <2>1
  <2>3. \A b \in Attempt : index'[b] = "eligible" <=> b \in Collecting'
    <3>1. TAKE b \in Attempt
    <3>2. CASE b = a
      BY <1>4, <1>10, <2>1, <3>2
    <3>3. CASE b # a
      BY <1>4, <1>5, <1>10, <2>1, <3>3
    <3> QED BY <3>2, <3>3
  <2>4. \A b \in Attempt : index'[b] = "live" => b = latest'
    <3>1. SUFFICES ASSUME NEW b \in Attempt, index'[b] = "live"
                   PROVE  b = latest'
      OBVIOUS
    <3>2. b # a /\ index[b] = "live" /\ b \in Indexed
      BY <1>9, <3>1 DEF Indexed
    <3>3. latest' = latest
      BY <1>3, <3>2
    <3> QED BY <1>10, <2>1, <3>2, <3>3
  <2>5. \A b \in Collecting' : b <= latest'
    <3>1. TAKE b \in Collecting'
    <3>2. b \in Attempt /\ b \in Collecting /\ b # a
      BY <1>5, <1>10, <2>1
    <3>3. b \in Indexed
      BY <1>10, <2>1, <3>2 DEF Indexed
    <3>4. latest' = latest
      BY <1>3, <3>2, <3>3
    <3> QED BY <1>10, <2>1, <3>2, <3>4
  <2> QED BY <2>2, <2>3, <2>4, <2>5
<1>12. LatestIsIndexed'
  <2>1. SUFFICES ASSUME rmFails = 0, renewed = {}, Indexed' # {}
                 PROVE  latest' \in Indexed'
    BY <1>1 DEF LatestIsIndexed
  <2>2. PICK c \in Indexed : c # a
    BY <1>6, <2>1
  <2>3. latest' = latest /\ latest \in Indexed /\ c \in Attempt
    BY <1>0, <1>3, <2>1, <2>2 DEF LatestIsIndexed, Indexed
  <2>4. index[c] = "live" \/ index[c] = "eligible"
    BY <1>0, <2>2, <2>3 DEF Indexed, Slots, Standing
  <2>5. CASE index[c] = "live"
    BY <1>6, <1>10, <2>1, <2>2, <2>3, <2>5
  <2>6. CASE index[c] = "eligible"
    <3>1. c \in Collecting' /\ a < c /\ c <= latest
      BY <1>5, <1>10, <2>1, <2>2, <2>3, <2>6
    <3>2. a # latest
      BY <1>2, <2>3, <3>1 DEF Indexed, Attempt
    <3> QED BY <1>6, <2>3, <3>2
  <2> QED BY <2>4, <2>5, <2>6
<1>13. \A b \in Attempt : index'[b] = "live" /\ b \notin Collecting' =>
                            index[b] = "live" /\ b \notin Collecting
  BY <1>5, <1>9
<1> QED BY <1>3, <1>7, <1>8, <1>11, <1>12, <1>13

LEMMA CollectNextStep ==
  ASSUME IInv, CollectNext
  PROVE  IInv'
PROOF
<1>0. /\ Types /\ LatestIsIndexed /\ Ordered /\ Writing /\ Slots /\ Collected
  BY DEF IInv, Types
<1> DEFINE a == Head(gc.todo)
<1>1. /\ gc.at = "next" /\ gc.todo # <<>> /\ LoopFree
      /\ UNCHANGED <<clients, queue, pending, renewed, writer, disk, straggler, stalls>>
      /\ heap' = heap /\ renewed' = renewed /\ rmFails' = rmFails /\ sweeps' = sweeps
      /\ \/ Pop(a) /\ gc' = [gc EXCEPT !.todo = Tail(@)]
         \/ /\ gc' = [gc EXCEPT !.at = "enter", !.path = <<"final", a>>]
            /\ index' = index /\ latest' = latest
  BY DEF CollectNext
<1>2. /\ gc.todo \in Seq(Attempt) /\ a \in Attempt /\ Tail(gc.todo) \in Seq(Attempt)
      /\ gc.path = Nowhere /\ gc.dir = Nowhere
  BY <1>0, <1>1 DEF Collected, Deleting
<1>3. client # "reading" /\ writer.step # "clean" /\ writer.step # "swap" /\ writer.step # "place"
  BY <1>1 DEF LoopFree
<1>4. sweeps' \in Nat /\ sweeps <= sweeps'
  BY <1>0, <1>1 DEF Collected
<1>5. CASE Pop(a) /\ gc' = [gc EXCEPT !.todo = Tail(@)]
  <2>1. /\ gc' \in [at : At0, todo : Seq(Attempt), dir : Handle, path : Handle, ok : BOOLEAN]
        /\ gc'.at = "next" /\ gc'.todo = Tail(gc.todo) /\ gc'.path = gc.path /\ gc'.dir = gc.dir
    BY <1>0, <1>1, <1>2, <1>5 DEF Collected, At0
  <2>2. /\ Slots' /\ Ordered' /\ LatestIsIndexed'
        /\ latest' = latest \/ latest' = 0
        /\ Indexed' = {} => latest' = 0
        /\ \A b \in Attempt : index'[b] = "live" /\ b \notin Collecting' =>
                                index[b] = "live" /\ b \notin Collecting
    BY <1>1, <1>5, <2>1, PopFacts
  <2>3. Collected'
    BY <1>0, <1>1, <1>2, <2>1 DEF Collected, Deleting
  <2>4. Deletion' /\ TmpStays'
    BY <1>2, <2>1 DEF Deletion, TmpStays
  <2> QED BY <1>1, <1>3, <1>4, <2>2, <2>3, <2>4, CollectorStep
<1>6. CASE /\ gc' = [gc EXCEPT !.at = "enter", !.path = <<"final", a>>]
           /\ index' = index /\ latest' = latest
  <2> DEFINE p == <<"final", a>>
  <2>1. p \in Handle /\ p # Nowhere /\ p[1] = "final" /\ p[2] = a
    BY <1>2, Markers, Folders DEF Handle
  <2>2. gc' = [gc EXCEPT !.at = "enter", !.path = p]
    BY <1>6
  <2> HIDE DEF p
  <2>3. /\ gc' \in [at : At0, todo : Seq(Attempt), dir : Handle, path : Handle, ok : BOOLEAN]
        /\ gc'.at = "enter" /\ gc'.todo = gc.todo /\ gc'.path = p /\ gc'.dir = gc.dir
    BY <1>0, <2>1, <2>2 DEF Collected, At0
  <2>4. Collecting' = Collecting /\ Indexed' = Indexed
    BY <1>1, <1>6, <2>3 DEF Collecting, Indexed
  <2>5. Slots' /\ Ordered' /\ LatestIsIndexed' /\ (Indexed' = {} => latest' = 0)
    BY <1>0, <1>1, <1>6, <2>3, <2>4 DEF Slots, Ordered, LatestIsIndexed, Writing
  <2>6. Collected'
    BY <1>0, <1>1, <1>2, <2>1, <2>3 DEF Collected, Deleting
  <2>7. Deletion' /\ TmpStays'
    BY <1>1, <1>3, <2>3 DEF Deletion, TmpStays
  <2> QED BY <1>1, <1>4, <1>6, <2>4, <2>5, <2>6, <2>7, CollectorStep
<1> QED BY <1>1, <1>5, <1>6

LEMMA SweepStep ==
  ASSUME IInv, SweepNext
  PROVE  IInv'
PROOF
<1>0. /\ Types /\ LatestIsIndexed /\ Ordered /\ Writing /\ Slots /\ Collected
  BY DEF IInv, Types
<1>1. /\ gc.at = "next" /\ gc.todo = <<>>
      /\ UNCHANGED <<clients, queue, pending, renewed, writer, disk, straggler, stalls>>
      /\ heap' = heap /\ renewed' = renewed /\ rmFails' = rmFails /\ index' = index
      /\ latest' = latest
  BY DEF SweepNext, store, slot
<1>2. gc.path = Nowhere /\ gc.dir = Nowhere /\ sweeps \in Nat
  BY <1>0, <1>1 DEF Collected, Deleting
<1>3. Indexed' = Indexed /\ Slots' /\ LatestIsIndexed' /\ (Indexed' = {} => latest' = 0)
  BY <1>0, <1>1 DEF Indexed, Slots, LatestIsIndexed, Writing
<1>4. ASSUME gc'.todo = gc.todo
      PROVE  Collecting' = Collecting /\ Ordered'
  <2>1. Collecting' = Collecting
    BY <1>1, <1>4 DEF Collecting
  <2> QED BY <1>0, <1>1, <1>4, <2>1 DEF Ordered
<1>5. CASE \E q \in {"tmp", "old"}, a \in Attempt :
             sweeps' = sweeps + 1 /\ gc' = [gc EXCEPT !.at = "enter", !.path = <<q, a>>]
  <2>1. PICK q \in {"tmp", "old"}, a \in Attempt :
          sweeps' = sweeps + 1 /\ gc' = [gc EXCEPT !.at = "enter", !.path = <<q, a>>]
    BY <1>5
  <2> DEFINE p == <<q, a>>
  <2>2. p \in Handle /\ p # Nowhere /\ p[1] # "final" /\ p[2] = a
    BY Markers DEF Handle, Place
  <2>3. gc' = [gc EXCEPT !.at = "enter", !.path = p] /\ sweeps' = sweeps + 1
    BY <2>1
  <2> HIDE DEF p
  <2>4. /\ gc' \in [at : At0, todo : Seq(Attempt), dir : Handle, path : Handle, ok : BOOLEAN]
        /\ gc'.at = "enter" /\ gc'.todo = gc.todo /\ gc'.path = p /\ gc'.dir = gc.dir
    BY <1>0, <2>2, <2>3 DEF Collected, At0
  <2>5. sweeps' \in Nat /\ sweeps <= sweeps' /\ sweeps' > 0
    BY <1>2, <2>3
  <2>6. Collected'
    BY <1>0, <1>1, <1>2, <2>2, <2>4, <2>5 DEF Collected, Deleting
  <2>7. Deletion' /\ TmpStays'
    BY <2>2, <2>4 DEF Deletion, TmpStays
  <2> QED BY <1>1, <1>3, <1>4, <2>4, <2>5, <2>6, <2>7, CollectorStep
<1>6. CASE gc' = Asleep /\ sweeps' = sweeps
  <2>1. /\ gc' \in [at : At0, todo : Seq(Attempt), dir : Handle, path : Handle, ok : BOOLEAN]
        /\ gc'.at = "sleep" /\ gc'.todo = gc.todo /\ gc'.path = Nowhere /\ gc'.dir = Nowhere
    BY <1>1, <1>6 DEF Asleep, At0, Handle
  <2>2. Collected'
    BY <1>0, <1>1, <1>6, <2>1 DEF Collected, Deleting
  <2>3. Deletion' /\ TmpStays' /\ sweeps' \in Nat /\ sweeps <= sweeps'
    BY <1>2, <1>6, <2>1 DEF Deletion, TmpStays
  <2> QED BY <1>1, <1>3, <1>4, <2>1, <2>2, <2>3, CollectorStep
<1> QED BY <1>5, <1>6 DEF SweepNext

\* A step of the collector's thread that finds nothing to remove: the list, the
\* path and the slot stay.
LEMMA ThreadStep ==
  ASSUME IInv, UNCHANGED <<clients, store, disk, straggler, stalls, sweeps>>,
         rmFails' \in Nat, rmFails <= rmFails',
         gc' \in [at : At0, todo : Seq(Attempt), dir : Handle, path : Handle, ok : BOOLEAN],
         gc.at \in Deleting, gc'.at \in Deleting, gc'.todo = gc.todo, gc'.path = gc.path,
         gc'.dir # Nowhere => /\ gc'.at \in {"files", "rmdir"} /\ gc'.dir[2] = gc.path[2]
                              /\ gc.path[1] = "final" => gc'.dir[1] \in {"final", "old"},
         Deletion'
  PROVE  IInv'
PROOF
<1>0. /\ Types /\ LatestIsIndexed /\ Ordered /\ Writing /\ Slots /\ Collected /\ TmpStays
  BY DEF IInv, Types
<1>1. /\ UNCHANGED <<clients, queue, pending, renewed, writer, disk, straggler, stalls>>
      /\ heap' = heap /\ renewed' = renewed /\ index' = index
      /\ latest' = latest /\ sweeps' = sweeps /\ writer' = writer /\ disk' = disk
      /\ attempt' = attempt /\ stalls' = stalls
  BY DEF store, slot, clients
<1>2. rmFails' = 0 => rmFails = 0
  BY <1>0 DEF Collected
<1>3. Indexed' = Indexed /\ Collecting' = Collecting
  BY <1>1 DEF Indexed, Collecting
<1>4. Slots' /\ LatestIsIndexed' /\ Ordered' /\ (Indexed' = {} => latest' = 0)
  BY <1>0, <1>1, <1>2, <1>3 DEF Slots, LatestIsIndexed, Ordered, Writing
<1>5. TmpStays'
  BY <1>0, <1>1 DEF TmpStays, AttemptOf
<1>6. sweeps \in Nat /\ sweeps <= sweeps
  BY <1>0 DEF Collected
<1>7. Collected'
  BY <1>0, <1>1 DEF Collected
<1> QED BY <1>1, <1>3, <1>4, <1>5, <1>6, <1>7, CollectorStep

LEMMA EnterStep ==
  ASSUME IInv, RmEnter
  PROVE  IInv'
PROOF
<1>0. Collected
  BY DEF IInv, Types
<1>1. /\ gc.at = "enter" /\ UNCHANGED <<clients, store, disk, straggler, stalls, sweeps>>
      /\ rmFails' = rmFails
      /\ \/ gc' = [gc EXCEPT !.at = "done", !.ok = TRUE]
         \/ gc' = [gc EXCEPT !.at = "files", !.dir = gc.path]
  BY DEF RmEnter
<1>2. /\ gc.path # Nowhere /\ gc.dir = Nowhere /\ rmFails \in Nat
      /\ gc \in [at : At0, todo : Seq(Attempt), dir : Handle, path : Handle, ok : BOOLEAN]
  BY <1>0, <1>1 DEF Collected, Deleting
<1>3. CASE gc' = [gc EXCEPT !.at = "done", !.ok = TRUE]
  <2>1. /\ gc' \in [at : At0, todo : Seq(Attempt), dir : Handle, path : Handle, ok : BOOLEAN]
        /\ gc'.at = "done" /\ gc'.ok = TRUE /\ gc'.todo = gc.todo /\ gc'.path = gc.path
        /\ gc'.dir = Nowhere
    BY <1>2, <1>3 DEF At0
  <2>2. Deletion'
    BY <2>1 DEF Deletion
  <2>3. gc.at \in Deleting /\ gc'.at \in Deleting /\ rmFails <= rmFails' /\ rmFails' \in Nat
    BY <1>1, <1>2, <2>1 DEF Deleting
  <2> QED BY <1>1, <2>1, <2>2, <2>3, ThreadStep
<1>4. CASE gc' = [gc EXCEPT !.at = "files", !.dir = gc.path]
  <2>1. /\ gc' \in [at : At0, todo : Seq(Attempt), dir : Handle, path : Handle, ok : BOOLEAN]
        /\ gc'.at = "files" /\ gc'.todo = gc.todo /\ gc'.path = gc.path
        /\ gc'.dir = gc.path
    BY <1>2, <1>4 DEF At0
  <2>2. Deletion'
    BY <2>1 DEF Deletion
  <2>3. gc.at \in Deleting /\ gc'.at \in Deleting /\ rmFails <= rmFails' /\ rmFails' \in Nat
    BY <1>1, <1>2, <2>1 DEF Deleting
  <2>4. gc'.dir # Nowhere => /\ gc'.at \in {"files", "rmdir"} /\ gc'.dir[2] = gc.path[2]
                             /\ gc.path[1] = "final" => gc'.dir[1] \in {"final", "old"}
    BY <2>1
  <2> QED BY <1>1, <2>1, <2>2, <2>3, <2>4, ThreadStep
<1> QED BY <1>1, <1>3, <1>4

LEMMA DoneStep ==
  ASSUME IInv, RmDone
  PROVE  IInv'
PROOF
<1>0. /\ Types /\ LatestIsIndexed /\ Ordered /\ Writing /\ Slots /\ Collected /\ Deletion
  BY DEF IInv, Types
<1> DEFINE a == gc.path[2]
           final == gc.path[1] = "final"
           rest == IF final THEN Tail(gc.todo) ELSE gc.todo
<1>1. /\ gc.at = "done" /\ (final => LoopFree)
      /\ UNCHANGED <<clients, queue, pending, renewed, writer, disk, straggler, stalls>>
      /\ renewed' = renewed /\ rmFails' = rmFails /\ sweeps' = sweeps
      /\ \/ ~final /\ index' = index /\ latest' = latest /\ heap' = heap
         \/ final /\ Pop(a) /\ heap' = heap
         \/ /\ final /\ ~gc.ok /\ index' = index /\ latest' = latest
            /\ heap' = Append(heap, [attempt |-> a, again |-> TRUE])
  BY DEF RmDone
<1>2. gc' = [gc EXCEPT !.at = "next", !.path = Nowhere, !.ok = TRUE, !.todo = rest]
  BY DEF RmDone
<1>3. /\ gc.path # Nowhere /\ gc.dir = Nowhere /\ gc.todo \in Seq(Attempt)
      /\ final => gc.todo # <<>> /\ a = Head(gc.todo)
      /\ sweeps \in Nat
  BY <1>0, <1>1 DEF Collected, Deleting
<1>4. rest \in Seq(Attempt)
  BY <1>3
<1>5. rest = IF final THEN Tail(gc.todo) ELSE gc.todo
  OBVIOUS
<1> HIDE DEF rest
<1>6. /\ gc' \in [at : At0, todo : Seq(Attempt), dir : Handle, path : Handle, ok : BOOLEAN]
      /\ gc'.at = "next" /\ gc'.todo = rest /\ gc'.path = Nowhere /\ gc'.dir = Nowhere
  BY <1>0, <1>2, <1>3, <1>4 DEF Collected, At0, Handle
<1>7. Collected'
  BY <1>0, <1>1, <1>6 DEF Collected, Deleting
<1>8. Deletion' /\ TmpStays'
  BY <1>6 DEF Deletion, TmpStays
<1>9. sweeps' \in Nat /\ sweeps <= sweeps'
  BY <1>1, <1>3
<1>10. final => client # "reading" /\ writer.step \notin {"swap", "place", "clean"}
  BY <1>1 DEF LoopFree
<1>11. CASE ~final /\ index' = index /\ latest' = latest /\ heap' = heap
  <2>1. gc'.todo = gc.todo
    BY <1>5, <1>6, <1>11
  <2>2. Collecting' = Collecting /\ Indexed' = Indexed
    BY <1>11, <2>1 DEF Collecting, Indexed
  <2>3. Slots' /\ LatestIsIndexed' /\ Ordered' /\ (Indexed' = {} => latest' = 0)
    BY <1>0, <1>1, <1>11, <2>1, <2>2 DEF Slots, LatestIsIndexed, Ordered, Writing
  <2> QED BY <1>1, <1>7, <1>8, <1>9, <1>11, <2>2, <2>3, CollectorStep
<1>12. CASE final /\ Pop(a) /\ heap' = heap
  <2>1. gc'.todo = Tail(gc.todo) /\ gc.todo # <<>> /\ Pop(Head(gc.todo))
    BY <1>3, <1>5, <1>6, <1>12
  <2>2. /\ Slots' /\ Ordered' /\ LatestIsIndexed'
        /\ latest' = latest \/ latest' = 0
        /\ Indexed' = {} => latest' = 0
        /\ \A b \in Attempt : index'[b] = "live" /\ b \notin Collecting' =>
                                index[b] = "live" /\ b \notin Collecting
    BY <1>1, <1>12, <2>1, PopFacts
  <2>3. client # "reading" /\ writer.step # "clean"
    BY <1>10, <1>12
  <2> QED BY <1>1, <1>7, <1>8, <1>9, <2>2, <2>3, CollectorStep
<1>13. CASE /\ final /\ ~gc.ok /\ index' = index /\ latest' = latest
            /\ heap' = Append(heap, [attempt |-> a, again |-> TRUE])
  <2>1. gc'.todo = Tail(gc.todo) /\ gc.todo # <<>> /\ a = Head(gc.todo) /\ a \in Attempt
        /\ Tail(gc.todo) \in Seq(Attempt) /\ heap \in Seq(Record)
    BY <1>0, <1>3, <1>5, <1>6, <1>13 DEF Slots
  <2>2. RecordsOf(heap, gc.todo) = RecordsOf(heap, Tail(gc.todo)) \cup {a}
    BY <1>3, <2>1, DropHead
  <2> HIDE DEF a
  <2>3. heap' \in Seq(Record) /\ RecordsOf(heap', Tail(gc.todo)) = RecordsOf(heap, Tail(gc.todo)) \cup {a}
    BY <1>13, <2>1, AppendRecord
  <2>4. Collecting' = Collecting /\ Indexed' = Indexed
    BY <1>13, <2>1, <2>2, <2>3, CollectingIs DEF Indexed
  <2>5. ~ (rmFails = 0 /\ renewed = {})
    BY <1>0, <1>1, <1>3, <1>10, <1>13 DEF Deletion, Busy
  <2>6. Ordered'
    BY <1>1, <2>5 DEF Ordered
  <2>7. Slots' /\ LatestIsIndexed' /\ (Indexed' = {} => latest' = 0)
    BY <1>0, <1>1, <1>13, <2>3, <2>4 DEF Slots, LatestIsIndexed, Writing
  <2> QED BY <1>1, <1>7, <1>8, <1>9, <1>13, <2>4, <2>6, <2>7, CollectorStep
<1> QED BY <1>1, <1>11, <1>12, <1>13

\* One directory is emptied or removed: it is of the attempt whose deletion is
\* in progress, and not a .tmp then; or it is a leftover that is swept.
Put(a, p, e) == [disk EXCEPT ![a][p] = e]
LEMMA RemoveStep ==
  ASSUME IInv, UNCHANGED <<clients, store, straggler, stalls, sweeps, rmFails>>,
         NEW a \in Attempt, NEW p \in Place, NEW e \in {Empty, Absent}, disk' = Put(a, p, e),
         gc' \in [at : At0, todo : Seq(Attempt), dir : Handle, path : Handle, ok : BOOLEAN],
         gc.at \in Deleting, gc'.at \in Deleting, gc'.todo = gc.todo, gc'.path = gc.path,
         gc'.dir # Nowhere => /\ gc'.at \in {"files", "rmdir"} /\ gc'.dir[2] = gc.path[2]
                              /\ gc.path[1] = "final" => gc'.dir[1] \in {"final", "old"},
         a = gc.path[2], gc.path[1] = "final" => p # "tmp",
         Deletion'
  PROVE  IInv'
PROOF
<1>0. /\ Types /\ LiveFiles /\ Written /\ Snapshots
      /\ LatestIsIndexed /\ TmpStays /\ Ordered
      /\ Streams /\ Reading /\ Writing /\ Slots /\ Collected /\ OnDisk
  BY DEF IInv, Types
<1>1. /\ attempt' = attempt /\ tokens' = tokens /\ flushed' = flushed /\ wire' = wire
      /\ created' = created /\ client' = client /\ found' = found /\ queue' = queue
      /\ pending' = pending /\ writer' = writer /\ straggler' = straggler
      /\ stalls' = stalls /\ renewed' = renewed /\ heap' = heap /\ index' = index
      /\ latest' = latest /\ sweeps' = sweeps /\ rmFails' = rmFails
  BY DEF clients, store, slot
<1>2. /\ disk' \in [Attempt -> [Place -> Folder]]
      /\ \A b \in Attempt, q \in Place :
           disk'[b][q] = IF b = a /\ q = p THEN e ELSE disk[b][q]
  <2>1. disk \in [Attempt -> [Place -> Folder]] /\ e \in Folder
    BY <1>0, Folders DEF OnDisk
  <2> DEFINE h == [disk[a] EXCEPT ![p] = e]
  <2>2. h \in [Place -> Folder] /\ \A q \in Place : h[q] = IF q = p THEN e ELSE disk[a][q]
    BY <2>1
  <2>3. disk' = [disk EXCEPT ![a] = h]
    BY DEF Put
  <2> HIDE DEF h
  <2> QED BY <2>1, <2>2, <2>3
<1>3. e.tokens = Missing /\ e.manifest = Missing /\ OfOne(e)
  BY Folders DEF OfOne
<1>4. Streams' /\ Sent' = Sent /\ Content' = Content /\ Folder' = Folder
      /\ AttemptOf(writer.save)' = AttemptOf(writer.save)
  BY <1>0, <1>1, NoStream DEF Folder, AttemptOf
<1>5. Indexed' = Indexed /\ Collecting' = Collecting
  BY <1>1 DEF Indexed, Collecting
<1>6. Reading' /\ Slots' /\ LatestIsIndexed' /\ Ordered'
  BY <1>0, <1>1, <1>4, <1>5 DEF Reading, Slots, LatestIsIndexed, Ordered
<1>7. Writing'
  BY <1>0, <1>1, <1>4, <1>5 DEF Writing, PendingCounts
<1>8. Collected'
  BY <1>0, <1>1 DEF Collected
<1>9. OnDisk'
  BY <1>0, <1>1, <1>2, <1>4 DEF OnDisk
<1>10. sweeps = 0 => gc.path[1] = "final" /\ p # "tmp" /\ a \in Collecting
  <2>1. gc.path # Nowhere /\ gc.path \in Handle
    BY <1>0 DEF Collected
  <2>2. sweeps = 0 => gc.path[1] = "final"
    BY <1>0, <2>1 DEF Collected
  <2>3. gc.path[1] = "final" => gc.path = <<"final", a>>
    BY <2>1 DEF Handle
  <2> QED BY <1>0, <2>2, <2>3, DeletedHasRecord
<1>11. writer # Idle => AttemptOf(writer.save) \in Attempt
  BY <1>0, WriterFacts
<1>12. writer.step # "idle" => writer # Idle
  BY DEF Idle
<1>13. LiveFiles'
  <2>1. SUFFICES ASSUME NEW b \in Attempt, index[b] = "live", b \notin Collecting, sweeps = 0
                 PROVE  \/ Full(disk'[b]["final"])
                        \/ writer.step = "place" /\ AttemptOf(writer.save) = b /\ Full(disk'[b]["old"])
    BY <1>1, <1>4, <1>5 DEF LiveFiles
  <2>2. b # a
    BY <1>10, <2>1
  <2>3. disk'[b]["final"] = disk[b]["final"] /\ disk'[b]["old"] = disk[b]["old"]
    BY <1>2, <2>2, Folders
  <2> QED BY <1>0, <2>1, <2>3 DEF LiveFiles
<1>14. Written'
  <2>1. SUFFICES ASSUME sweeps = 0, writer # Idle
                 PROVE  LET d == disk'[AttemptOf(writer.save)] IN
                        /\ writer.step = "manifest" => d["tmp"].tokens # Missing
                        /\ writer.step \in {"swap", "place"} => Full(d["tmp"])
                        /\ writer.step = "clean" /\ AttemptOf(writer.save) \notin Collecting
                             => Full(d["final"])
    BY <1>1, <1>4, <1>5 DEF Written
  <2>2. disk'[AttemptOf(writer.save)]["tmp"] = disk[AttemptOf(writer.save)]["tmp"]
    BY <1>2, <1>10, <1>11, <2>1, Folders
  <2>3. AttemptOf(writer.save) \notin Collecting =>
          disk'[AttemptOf(writer.save)]["final"] = disk[AttemptOf(writer.save)]["final"]
    BY <1>2, <1>10, <1>11, <2>1, Folders
  <2> QED BY <1>0, <2>1, <2>2, <2>3 DEF Written
<1>15. Snapshots'
  <2>1. SUFFICES ASSUME stalls = 0
                 PROVE  /\ \A b \in Attempt : OfOne(disk'[b]["final"]) /\ OfOne(disk'[b]["old"])
                        /\ writer.step \in {"tokens", "manifest", "swap", "place"} =>
                             \A f \in File :
                               disk'[AttemptOf(writer.save)]["tmp"][f] \in {Missing, writer.save}
                        /\ client = "reading" =>
                             disk'[latest]["final"].tokens \in {Missing, found.manifest}
                        /\ client = "marking" => found.tokens = found.manifest
    BY <1>1, <1>4 DEF Snapshots
  <2>2. \A b \in Attempt : OfOne(disk'[b]["final"]) /\ OfOne(disk'[b]["old"])
    BY <1>0, <1>2, <1>3, <2>1, Folders DEF Snapshots
  <2>3. writer.step \in {"tokens", "manifest", "swap", "place"} =>
          \A f \in File : disk'[AttemptOf(writer.save)]["tmp"][f] \in {Missing, writer.save}
    BY <1>0, <1>2, <1>3, <1>11, <1>12, <2>1, Folders DEF Snapshots, File
  <2>4. client = "reading" => disk'[latest]["final"].tokens \in {Missing, found.manifest}
    <3>1. client = "reading" => latest \in Attempt
      BY <1>0 DEF Reading
    <3> QED BY <1>0, <1>2, <1>3, <2>1, <3>1, Folders DEF Snapshots
  <2> QED BY <1>0, <2>1, <2>2, <2>3, <2>4 DEF Snapshots
<1>16. TmpStays'
  <2>1. SUFFICES ASSUME gc.path # Nowhere, gc.path[1] = "final", writer.step \in {"swap", "place"}
                 PROVE  disk'[AttemptOf(writer.save)]["tmp"] # Absent
    BY <1>1, <1>4 DEF TmpStays
  <2>2. disk'[AttemptOf(writer.save)]["tmp"] = disk[AttemptOf(writer.save)]["tmp"]
    BY <1>2, <1>11, <1>12, <2>1, Folders
  <2> QED BY <1>0, <2>1, <2>2 DEF TmpStays
<1> QED BY <1>4, <1>6, <1>7, <1>8, <1>9, <1>13, <1>14, <1>15, <1>16 DEF IInv, Types

LEMMA FilesStep ==
  ASSUME IInv, RmFiles
  PROVE  IInv'
PROOF
<1>0. Collected /\ Deletion /\ OnDisk
  BY DEF IInv, Types
<1>1. /\ gc.at = "files" /\ gc' = [gc EXCEPT !.at = "rmdir"]
      /\ UNCHANGED <<clients, store, straggler, stalls, rmFails, sweeps>>
      /\ disk' = IF gc.dir = Nowhere THEN disk ELSE Put(gc.dir[2], gc.dir[1], Empty)
  BY DEF RmFiles, Put
<1>2. /\ gc' \in [at : At0, todo : Seq(Attempt), dir : Handle, path : Handle, ok : BOOLEAN]
      /\ gc'.at = "rmdir" /\ gc'.todo = gc.todo /\ gc'.path = gc.path /\ gc'.dir = gc.dir
  BY <1>0, <1>1 DEF Collected, At0
<1>3. gc.at \in Deleting /\ gc'.at \in Deleting /\ rmFails' \in Nat /\ rmFails <= rmFails'
      /\ rmFails' = rmFails
  BY <1>0, <1>1, <1>2 DEF Deleting, Collected
<1>4. gc'.dir # Nowhere => /\ gc'.at \in {"files", "rmdir"} /\ gc'.dir[2] = gc.path[2]
                           /\ gc.path[1] = "final" => gc'.dir[1] \in {"final", "old"}
  BY <1>0, <1>2 DEF Collected
<1>5. gc.path # Nowhere /\ gc.path \in Place \X Attempt
  BY <1>0, <1>3 DEF Collected, Handle
<1>6. /\ renewed' = renewed /\ writer' = writer
      /\ \A b : Busy(b)' <=> writer.step \in {"place", "clean"} /\ AttemptOf(writer.save) = b
  BY <1>1 DEF store, slot, clients, Busy, AttemptOf
<1>7. rmFails = 0 /\ renewed = {} /\ gc.path[1] = "final" => gc.dir = gc.path \/ Busy(gc.path[2])
  BY <1>0, <1>1, <1>5 DEF Deletion
<1>8. CASE gc.dir = Nowhere
  <2>1. disk' = disk
    BY <1>1, <1>8
  <2>2. Deletion'
    <3>1. rmFails = 0 /\ renewed = {} /\ gc.path[1] = "final" => Busy(gc.path[2])
      BY <1>5, <1>7, <1>8
    <3>2. Busy(gc.path[2]) => Busy(gc.path[2])'
      BY <1>1, <1>2 DEF store, clients, Busy, AttemptOf
    <3> QED BY <1>2, <1>3, <1>6, <3>1, <3>2 DEF Deletion
  <2> QED BY <1>1, <1>2, <1>3, <1>4, <2>1, <2>2, ThreadStep
<1>9. CASE gc.dir # Nowhere
  <2>1. /\ gc.dir[2] \in Attempt /\ gc.dir[1] \in Place /\ gc.dir[2] = gc.path[2]
        /\ gc.path[1] = "final" => gc.dir[1] # "tmp"
    BY <1>0, <1>9 DEF Collected, Handle
  <2>2. PICK a \in Attempt, p \in Place : a = gc.dir[2] /\ p = gc.dir[1]
    BY <2>1
  <2>3. disk' = Put(a, p, Empty)
    BY <1>1, <1>9, <2>2
  <2>4. disk'[a][p] = Empty
    BY <1>0, <2>3 DEF Put, OnDisk
  <2>5. Deletion'
    <3>1. rmFails = 0 /\ renewed = {} /\ gc.path[1] = "final" =>
            disk'[gc.path[2]][gc.path[1]] = Empty \/ Busy(gc.path[2])
      BY <1>7, <2>2, <2>4
    <3>2. Busy(gc.path[2]) => Busy(gc.path[2])'
      BY <1>1, <1>2 DEF store, clients, Busy, AttemptOf
    <3> QED BY <1>2, <1>3, <1>6, <3>1, <3>2 DEF Deletion, At
  <2> QED BY <1>1, <1>2, <1>3, <1>4, <2>1, <2>2, <2>3, <2>5, RemoveStep
<1> QED BY <1>8, <1>9

LEMMA RmDirStep ==
  ASSUME IInv, RmDir
  PROVE  IInv'
PROOF
<1>0. Collected /\ Deletion /\ OnDisk
  BY DEF IInv, Types
<1>1. /\ gc.at = "rmdir" /\ UNCHANGED <<clients, store, straggler, stalls, sweeps>>
      /\ \/ /\ disk' = Put(gc.path[2], gc.path[1], Absent)
            /\ gc' = [gc EXCEPT !.at = "done", !.ok = TRUE, !.dir = Nowhere]
            /\ rmFails' = rmFails
         \/ /\ At(gc.path) # Empty
            /\ gc' = [gc EXCEPT !.at = "done", !.ok = FALSE, !.dir = Nowhere]
            /\ disk' = disk /\ rmFails' = rmFails
         \/ /\ rmFails' = rmFails + 1
            /\ gc' = [gc EXCEPT !.at = "done", !.ok = FALSE, !.dir = Nowhere]
            /\ disk' = disk
  BY DEF RmDir, Put
<1>2. /\ gc' \in [at : At0, todo : Seq(Attempt), dir : Handle, path : Handle, ok : BOOLEAN]
      /\ gc'.at = "done" /\ gc'.todo = gc.todo /\ gc'.path = gc.path /\ gc'.dir = Nowhere
  BY <1>0, <1>1 DEF Collected, At0, Handle
<1>3. /\ gc.at \in Deleting /\ gc'.at \in Deleting /\ rmFails' \in Nat /\ rmFails <= rmFails'
      /\ gc.path # Nowhere /\ gc.path \in Place \X Attempt /\ rmFails \in Nat
  BY <1>0, <1>1, <1>2 DEF Deleting, Collected, Handle
<1>4. /\ renewed' = renewed /\ (Busy(gc.path[2]) => Busy(gc.path[2])')
  BY <1>1, <1>2 DEF store, slot, clients, Busy, AttemptOf
<1>5. CASE /\ disk' = Put(gc.path[2], gc.path[1], Absent)
           /\ gc' = [gc EXCEPT !.at = "done", !.ok = TRUE, !.dir = Nowhere]
           /\ rmFails' = rmFails
  <2>1. PICK a \in Attempt, p \in Place : a = gc.path[2] /\ p = gc.path[1]
    BY <1>3
  <2>2. disk' = Put(a, p, Absent) /\ rmFails' = rmFails
    BY <1>5, <2>1
  <2>3. gc'.ok = TRUE
    BY <1>0, <1>5 DEF Collected
  <2>4. Deletion'
    BY <1>2, <2>3 DEF Deletion
  <2>5. gc.path[1] = "final" => p # "tmp"
    BY <2>1
  <2> QED BY <1>1, <1>2, <1>3, <2>1, <2>2, <2>4, <2>5, RemoveStep
<1>6. CASE At(gc.path) # Empty /\ disk' = disk /\ rmFails' = rmFails
  <2>1. rmFails = 0 /\ renewed = {} /\ gc.path[1] = "final" => Busy(gc.path[2])
    BY <1>0, <1>1, <1>3, <1>6 DEF Deletion
  <2>2. Deletion'
    BY <1>2, <1>4, <1>6, <2>1 DEF Deletion
  <2> QED BY <1>1, <1>2, <1>3, <1>6, <2>2, ThreadStep
<1>7. CASE rmFails' = rmFails + 1 /\ disk' = disk
  <2>1. rmFails' # 0
    BY <1>3, <1>7
  <2>2. Deletion'
    BY <2>1 DEF Deletion
  <2> QED BY <1>1, <1>2, <1>3, <1>7, <2>2, ThreadStep
<1> QED BY <1>1, <1>5, <1>6, <1>7

-----------------------------------------------------------------------------
(***************************************************************************)
(* The theorems.                                                            *)
(***************************************************************************)

LEMMA InitInv == Init => IInv
PROOF
<1> SUFFICES ASSUME Init PROVE IInv
  OBVIOUS
<1>1. /\ attempt = [s \in Stream |-> 0] /\ tokens = [s \in Stream |-> 0]
      /\ flushed = [s \in Stream |-> 0]
      /\ wire = [s \in Stream |-> <<>>] /\ created = 0
      /\ client = "ready" /\ found = Unread
      /\ queue = <<>> /\ pending = 0 /\ index = [a \in Attempt |-> "none"]
      /\ latest = 0 /\ heap = <<>> /\ writer = Idle
      /\ disk = [a \in Attempt |-> [p \in Place |-> Absent]]
      /\ straggler = {} /\ gc = Asleep /\ stalls = 0 /\ rmFails = 0 /\ sweeps = 0
      /\ renewed = {}
  BY DEF Init
<1>2. MaxStreams \in Nat /\ MaxFlushes \in Nat /\ Cap \in Nat /\ \A s \in Stream : s \in Nat /\ s > 0
  BY Room DEF Stream
<1>3. Streams
  <2>1. \A s \in Stream : wire[s] = <<>> /\ DOMAIN wire[s] = {}
    BY <1>1
  <2>2. wire \in [Stream -> Seq(Save)]
    BY <1>1
  <2>3. /\ attempt \in [Stream -> Nat] /\ tokens \in [Stream -> Nat]
        /\ flushed \in [Stream -> 0 .. MaxFlushes] /\ created \in 0 .. MaxStreams
    BY <1>1, <1>2
  <2>4. \A s \in Stream : ~ (s <= created) /\ attempt[s] = 0 /\ tokens[s] = 0 /\ flushed[s] = 0
    BY <1>1, <1>2
  <2> QED BY <2>1, <2>2, <2>3, <2>4 DEF Streams
<1>4. Reading
  BY <1>1 DEF Reading, Unread, Content
<1>5. Writing
  <2>1. writer \in [step : {"idle", "tokens", "manifest", "swap", "place", "clean"},
                    save : Content] /\ writer.step = "idle"
    BY <1>1 DEF Idle, Content
  <2>2. queue \in Seq(Save) /\ DOMAIN queue = {} /\ Len(queue) = 0
    BY <1>1
  <2>3. PendingCounts
    BY <1>1, <2>2 DEF PendingCounts
  <2> QED BY <1>1, <1>2, <2>1, <2>2, <2>3 DEF Writing
<1>6. Slots
  BY <1>1 DEF Slots, Standing
<1>7. gc.at = "sleep" /\ gc.todo = <<>> /\ gc.dir = Nowhere /\ gc.path = Nowhere
  BY <1>1 DEF Asleep
<1>8. Collected
  <2>1. gc \in [at : At0, todo : Seq(Attempt), dir : Handle, path : Handle, ok : BOOLEAN]
    BY <1>1 DEF Asleep, At0, Handle
  <2> QED BY <1>1, <1>7, <2>1 DEF Collected, Deleting
<1>9. OnDisk
  BY <1>1, Folders DEF OnDisk
<1>10. LiveFiles /\ LatestIsIndexed
  BY <1>1 DEF LiveFiles, LatestIsIndexed, Indexed
<1>11. Written /\ Deletion /\ TmpStays
  BY <1>1, <1>7 DEF Written, Deletion, TmpStays, Idle
<1>12. Snapshots
  BY <1>1, Folders DEF Snapshots, OfOne, Idle
<1>13. Ordered
  <2>1. Collecting = {}
    BY <1>1, <1>7, CollectingIs DEF RecordsOf
  <2>2. InOrder(heap, gc.todo)
    BY <1>1, <1>7 DEF InOrder
  <2> QED BY <1>1, <2>1, <2>2 DEF Ordered
<1> QED BY <1>3, <1>4, <1>5, <1>6, <1>8, <1>9, <1>10, <1>11, <1>12, <1>13 DEF IInv, Types

LEMMA NextInv == IInv /\ [Next]_vars => IInv'
PROOF
<1> SUFFICES ASSUME IInv, [Next]_vars PROVE IInv'
  OBVIOUS
<1>1. CASE UNCHANGED vars
  <2>1. UNCHANGED <<clients, store, threads>>
    BY <1>1 DEF vars
  <2>2. /\ attempt' = attempt /\ tokens' = tokens /\ flushed' = flushed /\ wire' = wire
        /\ created' = created /\ client' = client /\ found' = found
    BY <2>1 DEF clients
  <2>3. Streams /\ Reading /\ Snapshots
    BY DEF IInv, Types
  <2>4. Streams' /\ Content' = Content
    BY <2>2, <2>3, NoStream
  <2>5. latest' = latest /\ disk' = disk /\ stalls' = stalls
    BY <2>1 DEF store, slot, threads
  <2>6. Reading'
    BY <2>2, <2>3, <2>4, <2>5 DEF Reading
  <2>7. created <= created'
    BY <2>2, <2>3, Room DEF Streams
  <2> QED BY <2>1, <2>2, <2>3, <2>4, <2>6, <2>7, ClientStep DEF Snapshots
<1>2. CASE \E s \in Stream : Flush(s)
  BY <1>2, FlushStep
<1>3. CASE \E s \in Stream : Arrive(s)
  BY <1>3, ArriveStep
<1>4. CASE AbandonStream \/ Load \/ ReadTokens \/ MarkSuperseded
  BY <1>4, AbandonStep, LoadStep, ReadStep, MarkStep
<1>5. CASE TakeSave \/ WriteShard \/ StragglerWrites
  BY <1>5, TakeStep, ShardStep, StragglerStep
<1>6. CASE Swap \/ Replace \/ CleanOld
  BY <1>6, SwapStep, ReplaceStep, CleanStep
<1>7. CASE Collect \/ CollectNext \/ SweepNext
  BY <1>7, CollectStep, CollectNextStep, SweepStep
<1>8. CASE RmEnter \/ RmFiles \/ RmDir \/ RmDone
  BY <1>8, EnterStep, FilesStep, RmDirStep, DoneStep
<1> QED BY <1>1, <1>2, <1>3, <1>4, <1>5, <1>6, <1>7, <1>8 DEF Next, Writer, Collector

\* What the invariant says to the reader of the store.
LEMMA InvDurable == IInv => Durable
PROOF
<1> SUFFICES ASSUME IInv PROVE Durable
  OBVIOUS
<1>0. /\ Types /\ LiveFiles /\ Snapshots /\ LatestIsIndexed
      /\ Streams /\ Reading /\ Writing /\ Slots /\ Collected /\ OnDisk
  BY DEF IInv, Types
<1>1. TypeOK
  <2>1. \A s \in Stream : attempt[s] \in 0 .. MaxStreams /\ tokens[s] \in 0 .. MaxLen
    <3>1. TAKE s \in Stream
    <3>2. /\ s \in Nat /\ s <= MaxStreams /\ attempt[s] \in Nat /\ tokens[s] \in Nat
          /\ flushed[s] \in 0 .. MaxFlushes /\ MaxStreams \in Nat /\ MaxFlushes \in Nat
          /\ MaxLen \in Nat
      BY <1>0, Room DEF Streams, Stream
    <3>3. /\ (s - 1) * MaxFlushes + MaxFlushes = s * MaxFlushes
          /\ s * MaxFlushes \in Nat /\ s * MaxFlushes <= MaxLen /\ (s - 1) * MaxFlushes \in Nat
      BY Room
    <3>4. \/ attempt[s] \in 1 .. s /\ tokens[s] <= (s - 1) * MaxFlushes + flushed[s]
          \/ attempt[s] = 0 /\ tokens[s] = 0
      BY <1>0 DEF Streams
    <3> QED BY <3>2, <3>3, <3>4
  <2>2. attempt \in [Stream -> 0 .. MaxStreams] /\ tokens \in [Stream -> 0 .. MaxLen]
    BY <1>0, <2>1 DEF Streams
  <2>3. disk \in [Attempt -> [Place -> Dir]]
    <3>1. Folder \subseteq Dir
      BY DEF Folder, Dir, Content, Sent
    <3>2. disk \in [Attempt -> [Place -> Folder]]
      BY <1>0 DEF OnDisk
    <3> QED BY <3>1, <3>2
  <2> QED BY <1>0, <2>2, <2>3 DEF TypeOK, Streams, Reading, Writing, Slots, Standing
<1>2. PendingCounts
  BY <1>0 DEF Writing
<1>3. LiveOnDisk
  <2>1. SUFFICES ASSUME NEW a \in Attempt, index[a] = "live", a \notin Collecting, sweeps = 0
                 PROVE  \E p \in {"final"} \cup (IF writer.step = "place" THEN {"old"} ELSE {}) :
                          \A f \in File : disk[a][p][f] # Missing
    BY DEF LiveOnDisk
  <2>2. Full(disk[a]["final"]) \/ (writer.step = "place" /\ Full(disk[a]["old"]))
    BY <1>0, <2>1 DEF LiveFiles
  <2>3. Full(disk[a]["final"]) => \A f \in File : disk[a]["final"][f] # Missing
    BY DEF Full, File
  <2>4. Full(disk[a]["old"]) => \A f \in File : disk[a]["old"][f] # Missing
    BY DEF Full, File
  <2> QED BY <2>2, <2>3, <2>4
<1>4. OneSnapshot
  <2>1. found.tokens # Missing => client = "marking"
    BY <1>0 DEF Reading, Unread
  <2> QED BY <1>0, <2>1 DEF OneSnapshot, Snapshots
<1> QED BY <1>0, <1>1, <1>2, <1>3, <1>4 DEF Durable, Bookkeeping

LEMMA Invariant == Spec => []IInv
PROOF
<1>1. Init => IInv
  BY InitInv
<1>2. IInv /\ [Next]_vars => IInv'
  BY NextInv
<1> QED BY <1>1, <1>2, PTL DEF Spec

\* Whatever saves are late, rejected, stalled or lost, what the store says can be
\* resumed from is on disk, complete and one snapshot, its latest attempt is in
\* its index, and the count of pending saves is exact.
THEOREM Resumable == Spec => []Durable
PROOF
<1>1. IInv => Durable
  BY InvDurable
<1> QED BY <1>1, Invariant, PTL

\* A slot moves to a later attempt or stays, until it is collected whole: a save
\* of an abandoned stream never takes it back.
THEOREM SlotGoesForward == Spec => NeverGoesBack
PROOF
<1>1. IInv /\ [Next]_vars => [latest' >= latest \/ latest' = 0]_latest
  <2> SUFFICES ASSUME IInv, [Next]_vars, latest' # latest
               PROVE  latest' >= latest \/ latest' = 0
    OBVIOUS
  <2>0. Streams /\ Writing
    BY DEF IInv, Types
  <2>1. CASE Swap \/ CleanOld
    <3>1. writer # Idle
      BY <2>1 DEF Swap, CleanOld, Idle
    <3>2. latest' = AttemptOf(writer.save)
      BY <2>1 DEF Swap, CleanOld, Commit, slot
    <3>3. latest <= AttemptOf(writer.save) /\ latest \in Nat /\ AttemptOf(writer.save) \in Attempt
      BY <2>0, <3>1, WriterFacts
    <3> QED BY <3>2, <3>3 DEF Attempt
  <2>2. CASE CollectNext \/ RmDone
    BY <2>2 DEF CollectNext, RmDone, Pop
  <2>3. CASE UNCHANGED vars
    BY <2>3 DEF vars, store, slot
  <2>4. CASE \E s \in Stream : Flush(s) \/ Arrive(s)
    BY <2>4 DEF Flush, Arrive, store, slot
  <2>5. CASE AbandonStream \/ Load \/ ReadTokens \/ MarkSuperseded
    BY <2>5 DEF AbandonStream, Load, ReadTokens, MarkSuperseded, store, slot
  <2>6. CASE TakeSave \/ WriteShard \/ StragglerWrites \/ Replace
    BY <2>6 DEF TakeSave, WriteShard, StragglerWrites, Replace, store, slot
  <2>7. CASE Collect \/ SweepNext \/ RmEnter \/ RmFiles \/ RmDir
    BY <2>7 DEF Collect, SweepNext, RmEnter, RmFiles, RmDir, store, slot
  <2> QED BY <2>1, <2>2, <2>3, <2>4, <2>5, <2>6, <2>7 DEF Next, Writer, Collector
<1> QED BY <1>1, Invariant, PTL DEF Spec, NeverGoesBack
=============================================================================
