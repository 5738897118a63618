----------------------------- MODULE ProgressStore -----------------------------
(***************************************************************************)
(* Token progress of one request (one recovery id) on disk: the store       *)
(* actor, whose event loop takes saves from a queue, writes each into a     *)
(* temporary directory and renames it into place; the thread of the         *)
(* collector that deletes superseded attempts and sweeps leftover           *)
(* directories; the streams (generations on servers, abandoned ones         *)
(* included) that send saves without waiting for them; and the client that  *)
(* loads the latest attempt before it starts the next one.                  *)
(*                                                                         *)
(* A save is the pair of its stream and its number of tokens; the token     *)
(* file and the manifest of a directory each hold the save they come from.  *)
(***************************************************************************)
EXTENDS Integers, Sequences, FiniteSets, SequencesExt

CONSTANTS
  MaxStreams,   \* bound: attempts the client starts
  MaxFlushes,   \* bound: saves one stream sends
  Cap,          \* max_pending_writes_per_recovery
  MaxStalls,    \* bound: shard writes that time out and may still end later
  MaxRmFails,   \* bound: deletions that end with an OSError
  MaxSweeps     \* bound: leftover directories the collector sweeps

ASSUME ProgressAssumption ==
  /\ MaxStreams \in Nat \ {0} /\ MaxFlushes \in Nat \ {0} /\ Cap \in Nat \ {0}
  /\ MaxStalls \in Nat /\ MaxRmFails \in Nat /\ MaxSweeps \in Nat

Stream  == 1 .. MaxStreams
Attempt == 1 .. MaxStreams
MaxLen  == MaxStreams * MaxFlushes
Save    == Stream \X (1 .. MaxLen)

Missing == <<0, 0>>      \* no save: a file that is not there
Nowhere == <<"none", 0>> \* no directory
Place   == {"final", "tmp", "old"}
File    == {"tokens", "manifest"}
Dir     == [there : BOOLEAN, tokens : Save \cup {Missing}, manifest : Save \cup {Missing}]
Absent  == [there |-> FALSE, tokens |-> Missing, manifest |-> Missing]
Empty   == [there |-> TRUE, tokens |-> Missing, manifest |-> Missing]
Unread  == [tokens |-> Missing, manifest |-> Missing]

VARIABLES
  \* --- streams and client ---
  attempt,    \* attempt_id of a stream, 0 before it is created
  tokens,     \* cumulative tokens of a stream
  flushed,    \* how many saves a stream has sent
  wire,       \* saves of a stream on their way to the actor, in order
  created,    \* streams created so far
  client,     \* where the client is
  found,      \* what load_latest has read
  \* --- RolloutProgressStore, on the event loop ---
  queue,      \* _write_queue
  pending,    \* _pending of the recovery id
  index,      \* attempts of the slot: none, live, or eligible for collection
  latest,     \* latest_attempt_id, 0 when there is no slot
  heap,       \* _gc_heap: attempts in the order they fall due, with failed ones
  writer,     \* the save _do_save is at, and its step
  \* --- disk and executor threads ---
  disk,       \* the attempt directories, their .tmp and their .old
  straggler,  \* shard writes that timed out and still run
  gc,         \* periodic_collect and the thread it waits for
  stalls, rmFails, sweeps,
  \* --- history ---
  renewed     \* attempts committed while a record of an earlier commit was due

clients == <<attempt, tokens, flushed, wire, created, client, found>>
slot    == <<index, latest, heap, renewed>>
store   == <<queue, pending, slot, writer>>
threads == <<disk, straggler, gc, stalls, rmFails, sweeps>>
vars    == <<clients, store, threads>>

AttemptOf(p) == attempt[p[1]]
Indexed      == {a \in Attempt : index[a] # "none"}
Idle         == [step |-> "idle", save |-> Missing]
Asleep       == [at |-> "sleep", todo |-> <<>>, dir |-> Nowhere, path |-> Nowhere, ok |-> TRUE]

\* Between two awaits of _do_save nothing else runs on the event loop.
LoopFree == writer.step \notin {"swap", "place", "clean"} /\ client # "reading"

Init ==
  /\ attempt = [s \in Stream |-> 0] /\ tokens = [s \in Stream |-> 0]
  /\ flushed = [s \in Stream |-> 0]
  /\ wire = [s \in Stream |-> <<>>] /\ created = 0
  /\ client = "ready" /\ found = Unread
  /\ queue = <<>> /\ pending = 0 /\ index = [a \in Attempt |-> "none"]
  /\ latest = 0 /\ heap = <<>> /\ writer = Idle
  /\ disk = [a \in Attempt |-> [p \in Place |-> Absent]]
  /\ straggler = {} /\ gc = Asleep /\ stalls = 0 /\ rmFails = 0 /\ sweeps = 0
  /\ renewed = {}

-----------------------------------------------------------------------------
(* Streams: a generation ingests tokens and flushes, fire and forget.       *)

Flush(s) ==
  /\ s \in 1 .. created /\ flushed[s] < MaxFlushes
  /\ ~ (s = created /\ client = "marking")
  /\ tokens' = [tokens EXCEPT ![s] = @ + 1]
  /\ flushed' = [flushed EXCEPT ![s] = @ + 1]
  /\ wire' = [wire EXCEPT ![s] = Append(@, <<s, tokens'[s]>>)]
  /\ UNCHANGED <<attempt, created, client, found, store, threads>>

\* The client's call returns, fails or times out; the generation may run on.
AbandonStream ==
  /\ client = "waiting"
  /\ client' = "ready"
  /\ UNCHANGED <<attempt, tokens, flushed, wire, created, found, store, threads>>

-----------------------------------------------------------------------------
(* create_or_resume: load_latest, the next attempt, mark_superseded.        *)

\* A stream starts as attempt a with the n tokens it inherits.
Create(a, n) ==
  /\ created' = created + 1
  /\ attempt' = [attempt EXCEPT ![created'] = a]
  /\ tokens' = [tokens EXCEPT ![created'] = n]

\* A miss: DEGRADED_FRESH, with the previous attempt's number when known.
StartFresh(a) ==
  /\ Create(a, 0)
  /\ client' = "waiting" /\ found' = Unread

\* The slot is looked up and the manifest is read.
Load ==
  LET dir == disk[latest]["final"] IN
  /\ client = "ready" /\ created < MaxStreams /\ LoopFree
  /\ \/ Indexed = {} /\ StartFresh(1)
     \/ /\ Indexed # {} /\ latest \notin Indexed    \* slot.attempts[aid]: KeyError
        /\ client' = "failed"
        /\ UNCHANGED <<attempt, tokens, created, found>>
     \/ /\ latest \in Indexed /\ dir.manifest = Missing
        /\ StartFresh(latest + 1)
     \/ /\ latest \in Indexed /\ dir.manifest # Missing
        /\ client' = "reading"
        /\ found' = [manifest |-> dir.manifest, tokens |-> Missing]
        /\ UNCHANGED <<attempt, tokens, created>>
  /\ UNCHANGED <<flushed, wire, store, threads>>

\* The shards are read; _validate_alignment compares lengths only.
ReadTokens ==
  LET dir  == disk[latest]["final"]
      read == dir.tokens
  IN
  /\ client = "reading"
  /\ \/ /\ read # Missing /\ read[2] = found.manifest[2]
        /\ Create(latest + 1, read[2])
        /\ client' = "marking" /\ found' = [found EXCEPT !.tokens = read]
     \/ /\ ~ (read # Missing /\ read[2] = found.manifest[2])
        /\ StartFresh(latest + 1)
  /\ UNCHANGED <<flushed, wire, store, threads>>

Collecting == {heap[i].attempt : i \in DOMAIN heap} \cup Range(gc.todo)

\* An attempt becomes eligible once; its record enters the heap.
Eligible(a, ix, hp) ==
  IF ix[a] = "live" THEN /\ index' = [ix EXCEPT ![a] = "eligible"]
                         /\ heap' = Append(hp, [attempt |-> a, again |-> FALSE])
                    ELSE index' = ix /\ heap' = hp

MarkSuperseded ==
  /\ client = "marking" /\ LoopFree
  /\ Eligible(attempt[created] - 1, index, heap)
  /\ client' = "waiting" /\ found' = Unread
  /\ UNCHANGED <<attempt, tokens, flushed, wire, created>>
  /\ UNCHANGED <<queue, pending, latest, renewed, writer, threads>>

-----------------------------------------------------------------------------
(* Directories.  A thread inside a directory stays in it when it is renamed *)
(* and has nothing left when it is replaced or removed.                     *)

Followed(a, moves) ==
  IF gc.dir \in Place \X {a} THEN moves[gc.dir[1]] ELSE gc.dir
Rearrange(a, content, moves) ==
  /\ disk' = [disk EXCEPT ![a] = content]
  /\ gc' = [gc EXCEPT !.dir = Followed(a, moves)]
Moved(a, from, to) ==      \* where a handle on place p is after the moves
  [p \in Place |-> IF p \in DOMAIN from THEN <<from[p], a>>
                   ELSE IF p \in to THEN Nowhere ELSE <<p, a>>]

-----------------------------------------------------------------------------
(* save and the write loop.                                                 *)

\* Definitions whose names end in an underscore and a word are slips the code
\* could contain; each breaks a property of the definition that follows it.
\* save: dropped at the cap, else queued.
Arrive(s) ==
  /\ wire[s] # <<>> /\ LoopFree
  /\ wire' = [wire EXCEPT ![s] = Tail(@)]
  /\ IF pending >= Cap THEN UNCHANGED <<queue, pending>>
     ELSE queue' = Append(queue, Head(wire[s])) /\ pending' = pending + 1
  /\ UNCHANGED <<attempt, tokens, flushed, created, client, found>>
  /\ UNCHANGED <<slot, writer, threads>>

TakeSave_any ==           \* older attempts are not dropped
  LET p == Head(queue) a == AttemptOf(p) IN
  /\ writer = Idle /\ queue # <<>> /\ LoopFree
  /\ queue' = Tail(queue)
  /\ writer' = [step |-> "tokens", save |-> p]
  /\ Rearrange(a, [disk[a] EXCEPT !["tmp"] = Empty], Moved(a, <<>>, {"tmp"}))
  /\ UNCHANGED <<clients, pending, slot, straggler, stalls, rmFails, sweeps>>

TakeSave_counted ==       \* a dropped save keeps its place in the count
  LET p == Head(queue) a == AttemptOf(p) IN
  /\ writer = Idle /\ queue # <<>> /\ LoopFree
  /\ queue' = Tail(queue)
  /\ IF Indexed # {} /\ a < latest
     THEN UNCHANGED <<writer, disk, gc>>
     ELSE /\ writer' = [step |-> "tokens", save |-> p]
          /\ Rearrange(a, [disk[a] EXCEPT !["tmp"] = Empty], Moved(a, <<>>, {"tmp"}))
  /\ UNCHANGED <<clients, pending, slot, straggler, stalls, rmFails, sweeps>>

\* A stale attempt is dropped; else the save starts from an empty .tmp.
TakeSave ==
  LET p == Head(queue) a == AttemptOf(p) IN
  /\ writer = Idle /\ queue # <<>> /\ LoopFree
  /\ queue' = Tail(queue)
  /\ IF Indexed # {} /\ a < latest
     THEN /\ pending' = pending - 1
          /\ UNCHANGED <<writer, disk, gc>>
     ELSE /\ writer' = [step |-> "tokens", save |-> p]
          /\ Rearrange(a, [disk[a] EXCEPT !["tmp"] = Empty], Moved(a, <<>>, {"tmp"}))
          /\ UNCHANGED pending
  /\ UNCHANGED <<clients, slot, straggler, stalls, rmFails, sweeps>>

\* WriteRejectedError: the .tmp is removed and the save is given up.
Reject(content, moves) ==
  /\ Rearrange(AttemptOf(writer.save), [content EXCEPT !["tmp"] = Absent], moves)
  /\ writer' = Idle /\ pending' = pending - 1

WriteShard ==
  LET a == AttemptOf(writer.save) f == writer.step IN
  /\ f \in File /\ LoopFree
  /\ \/ /\ disk[a]["tmp"] # Absent
        /\ disk' = [disk EXCEPT ![a]["tmp"][f] = writer.save]
        /\ writer' = [writer EXCEPT !.step = IF f = "tokens" THEN "manifest" ELSE "swap"]
        /\ UNCHANGED <<straggler, gc, stalls, pending>>
     \/ /\ disk[a]["tmp"] = Absent          \* the sweep took the directory
        /\ Reject(disk[a], Moved(a, <<>>, {}))
        /\ UNCHANGED <<straggler, stalls>>
     \/ /\ stalls < MaxStalls               \* wait_for gives up, the thread does not
        /\ stalls' = stalls + 1
        /\ straggler' = straggler \cup {<<f, writer.save>>}
        /\ Reject(disk[a], Moved(a, <<>>, {"tmp"}))
  /\ UNCHANGED <<clients, queue, slot, rmFails, sweeps>>

\* A write that timed out opens its file now, in whatever .tmp is there.
StragglerWrites ==
  \E w \in straggler :
    LET a == AttemptOf(w[2]) IN
    /\ straggler' = straggler \ {w}
    /\ disk' = IF disk[a]["tmp"] = Absent THEN disk
               ELSE [disk EXCEPT ![a]["tmp"][w[1]] = w[2]]
    /\ UNCHANGED <<clients, store, gc, stalls, rmFails, sweeps>>

\* _commit_revision: the latest attempt so far is superseded, the record of
\* the new one replaces any it had.
Commit(a) ==
  /\ IF latest # a /\ latest \in Indexed
     THEN Eligible(latest, [index EXCEPT ![a] = "live"], heap)
     ELSE index' = [index EXCEPT ![a] = "live"] /\ UNCHANGED heap
  /\ latest' = a /\ writer' = Idle /\ pending' = pending - 1
  /\ renewed' = renewed \cup ({a} \cap Collecting)

Swap_remove ==            \* the old directory is removed before the new one is there
  LET a == AttemptOf(writer.save) d == disk[a] IN
  /\ writer.step = "swap" /\ client # "reading"
  /\ Rearrange(a, [d EXCEPT !["final"] = Absent], Moved(a, <<>>, {"final"}))
  /\ writer' = [writer EXCEPT !.step = "place"]
  /\ UNCHANGED <<slot, pending>>
  /\ UNCHANGED <<clients, queue, straggler, stalls, rmFails, sweeps>>

\* os.replace, one at a time: the loop is busy, the threads are not.
Swap ==
  LET a == AttemptOf(writer.save) d == disk[a] IN
  /\ writer.step = "swap" /\ client # "reading"
  /\ \/ /\ d["final"] # Absent
        /\ Rearrange(a, [d EXCEPT !["old"] = d["final"], !["final"] = Absent],
                     Moved(a, [final |-> "old"], {"old"}))
        /\ writer' = [writer EXCEPT !.step = "place"]
        /\ UNCHANGED <<slot, pending>>
     \/ /\ d["final"] = Absent /\ d["tmp"] # Absent
        /\ Rearrange(a, [d EXCEPT !["final"] = d["tmp"], !["tmp"] = Absent],
                     Moved(a, [tmp |-> "final"], {}))
        /\ Commit(a)
     \/ /\ d["final"] = Absent /\ d["tmp"] = Absent
        /\ Reject(d, Moved(a, <<>>, {}))
        /\ UNCHANGED slot
  /\ UNCHANGED <<clients, queue, straggler, stalls, rmFails, sweeps>>

\* The .tmp takes the place, or what was there comes back if it still is.
Replace ==
  LET a == AttemptOf(writer.save) d == disk[a] IN
  /\ writer.step = "place" /\ client # "reading"
  /\ \/ /\ d["tmp"] # Absent
        /\ Rearrange(a, [d EXCEPT !["final"] = d["tmp"], !["tmp"] = Absent],
                     Moved(a, [tmp |-> "final"], {}))
        /\ writer' = [writer EXCEPT !.step = "clean"]
        /\ UNCHANGED pending
     \/ /\ d["tmp"] = Absent
        /\ Reject([d EXCEPT !["final"] = d["old"], !["old"] = Absent],
                  Moved(a, [old |-> "final"], {}))
  /\ UNCHANGED <<clients, queue, slot, straggler, stalls, rmFails, sweeps>>

CleanOld ==
  LET a == AttemptOf(writer.save) IN
  /\ writer.step = "clean" /\ client # "reading"
  /\ Rearrange(a, [disk[a] EXCEPT !["old"] = Absent], Moved(a, <<>>, {"old"}))
  /\ Commit(a)
  /\ UNCHANGED <<clients, queue, straggler, stalls, rmFails, sweeps>>

-----------------------------------------------------------------------------
(* periodic_collect: the attempts that are due, then the leftovers.         *)

\* Records fall due in the order they were marked; failed ones at any time.
Due(I) == \A i \in I, j \in DOMAIN heap :
            ~ heap[i].again /\ ~ heap[j].again /\ j < i => j \in I

\* The elements of s at the positions I, in their order.
Nth(I, n) == CHOOSE i \in I : Cardinality({j \in I : j <= i}) = n
Picked(s, I) == [n \in 1 .. Cardinality(I) |-> s[Nth(I, n)]]

Collect ==
  /\ gc = Asleep /\ LoopFree
  /\ \E I \in SUBSET DOMAIN heap :
       /\ Due(I)
       /\ gc' = [gc EXCEPT !.at = "next", !.todo = Picked([i \in I |-> heap[i].attempt], I)]
       /\ heap' = Picked(heap, DOMAIN heap \ I)
  /\ UNCHANGED <<clients, queue, pending, index, latest, renewed, writer>>
  /\ UNCHANGED <<disk, straggler, stalls, rmFails, sweeps>>

\* The attempt leaves the index, whatever its record is by now.
Pop(a) ==
  /\ index' = [index EXCEPT ![a] = "none"]
  /\ latest' = IF Indexed \subseteq {a} THEN 0 ELSE latest

CollectNext ==
  LET a == Head(gc.todo) IN
  /\ gc.at = "next" /\ gc.todo # <<>> /\ LoopFree
  /\ IF disk[a]["final"] = Absent
     THEN Pop(a) /\ gc' = [gc EXCEPT !.todo = Tail(@)]
     ELSE gc' = [gc EXCEPT !.at = "enter", !.path = <<"final", a>>]
          /\ UNCHANGED <<index, latest>>
  /\ UNCHANGED <<clients, queue, pending, heap, renewed, writer>>
  /\ UNCHANGED <<disk, straggler, stalls, rmFails, sweeps>>

\* _clean_orphan_tmp: any .tmp or .old that is there now, then the next one.
SweepNext ==
  /\ gc.at = "next" /\ gc.todo = <<>>
  /\ \/ \E p \in {"tmp", "old"}, a \in Attempt :
          /\ disk[a][p] # Absent /\ sweeps < MaxSweeps
          /\ sweeps' = sweeps + 1
          /\ gc' = [gc EXCEPT !.at = "enter", !.path = <<p, a>>]
     \/ gc' = Asleep /\ UNCHANGED sweeps
  /\ UNCHANGED <<clients, store, disk, straggler, stalls, rmFails>>

At(path) == disk[path[2]][path[1]]

\* shutil.rmtree in the thread: open the directory, remove what is in it,
\* remove it by its path.
RmEnter ==
  /\ gc.at = "enter"
  /\ gc' = IF At(gc.path) = Absent THEN [gc EXCEPT !.at = "done", !.ok = TRUE]
                                   ELSE [gc EXCEPT !.at = "files", !.dir = gc.path]
  /\ UNCHANGED <<clients, store, disk, straggler, stalls, rmFails, sweeps>>

RmFiles ==
  /\ gc.at = "files"
  /\ disk' = IF gc.dir = Nowhere THEN disk ELSE [disk EXCEPT ![gc.dir[2]][gc.dir[1]] = Empty]
  /\ gc' = [gc EXCEPT !.at = "rmdir"]
  /\ UNCHANGED <<clients, store, straggler, stalls, rmFails, sweeps>>

RmDir ==
  /\ gc.at = "rmdir"
  /\ \/ /\ At(gc.path) = Empty
        /\ disk' = [disk EXCEPT ![gc.path[2]][gc.path[1]] = Absent]
        /\ gc' = [gc EXCEPT !.at = "done", !.ok = TRUE, !.dir = Nowhere]
        /\ UNCHANGED rmFails
     \/ /\ At(gc.path) # Empty
        /\ gc' = [gc EXCEPT !.at = "done", !.ok = FALSE, !.dir = Nowhere]
        /\ UNCHANGED <<disk, rmFails>>
     \/ /\ rmFails < MaxRmFails
        /\ rmFails' = rmFails + 1
        /\ gc' = [gc EXCEPT !.at = "done", !.ok = FALSE, !.dir = Nowhere]
        /\ UNCHANGED disk
  /\ UNCHANGED <<clients, store, straggler, stalls, sweeps>>

RmDone_forget ==          \* a failed deletion is not tried again
  LET a == gc.path[2] IN
  /\ gc.at = "done" /\ (gc.path[1] = "final" => LoopFree)
  /\ gc' = [gc EXCEPT !.at = "next", !.path = Nowhere, !.ok = TRUE,
                      !.todo = IF gc.path[1] = "final" THEN Tail(@) ELSE @]
  /\ IF gc.path[1] = "final" /\ gc.ok THEN Pop(a) ELSE UNCHANGED <<index, latest>>
  /\ UNCHANGED <<clients, queue, pending, heap, renewed, writer>>
  /\ UNCHANGED <<disk, straggler, stalls, rmFails, sweeps>>

\* The loop resumes: collected, or back in the heap after the backoff.
RmDone ==
  LET a == gc.path[2] IN
  /\ gc.at = "done" /\ (gc.path[1] = "final" => LoopFree)
  /\ gc' = [gc EXCEPT !.at = "next", !.path = Nowhere, !.ok = TRUE,
                      !.todo = IF gc.path[1] = "final" THEN Tail(@) ELSE @]
  /\ \/ gc.path[1] # "final" /\ UNCHANGED <<index, latest, heap>>
     \/ gc.path[1] = "final" /\ gc.ok /\ Pop(a) /\ UNCHANGED heap
     \/ /\ gc.path[1] = "final" /\ ~ gc.ok
        /\ heap' = Append(heap, [attempt |-> a, again |-> TRUE])
        /\ UNCHANGED <<index, latest>>
  /\ UNCHANGED <<clients, queue, pending, renewed, writer>>
  /\ UNCHANGED <<disk, straggler, stalls, rmFails, sweeps>>

-----------------------------------------------------------------------------
Collector == Collect \/ CollectNext \/ SweepNext \/ RmEnter \/ RmFiles \/ RmDir \/ RmDone
Writer    == TakeSave \/ WriteShard \/ Swap \/ Replace \/ CleanOld

Next ==
  \/ \E s \in Stream : Flush(s) \/ Arrive(s)
  \/ AbandonStream \/ Load \/ ReadTokens \/ MarkSuperseded
  \/ Writer \/ StragglerWrites \/ Collector

Spec == Init /\ [][Next]_vars

\* The event loop serves its tasks in turn, executor threads run, and a record
\* in the heap falls due.
FairSpec ==
  /\ Spec /\ WF_vars(Writer) /\ WF_vars(Collector)
  /\ WF_vars(ReadTokens) /\ WF_vars(MarkSuperseded)
  /\ \A a \in Attempt : SF_vars(Collect /\ a \in Range(gc'.todo))

-----------------------------------------------------------------------------
(* Properties.                                                              *)

TypeOK ==
  /\ attempt \in [Stream -> 0 .. MaxStreams] /\ tokens \in [Stream -> 0 .. MaxLen]
  /\ created \in 0 .. MaxStreams
  /\ client \in {"ready", "reading", "marking", "waiting", "failed"}
  /\ pending \in 0 .. Cap /\ latest \in 0 .. MaxStreams
  /\ index \in [Attempt -> {"none", "live", "eligible"}]
  /\ disk \in [Attempt -> [Place -> Dir]] /\ renewed \subseteq Attempt

\* The pending count a save is dropped by is the saves queued or being
\* written, whichever way each of them ended (stale, rejected, committed): a
\* request whose count stayed up would never be saved again.
PendingCounts == pending = Len(queue) + (IF writer = Idle THEN 0 ELSE 1)

\* Saves of attempts given up arrive late and in any order among streams; the
\* slot never goes back to an older attempt, unless it was collected whole.
NeverGoesBack == [][latest' >= latest \/ latest' = 0]_latest

\* What the index calls live is on disk, both files: no save, rejected halfway
\* or not, costs the save committed before it, as long as the collector has
\* swept nothing.
LiveOnDisk ==
  \A a \in Attempt :
    index[a] = "live" /\ a \notin Collecting /\ sweeps = 0 =>
      \E p \in {"final"} \cup (IF writer.step = "place" THEN {"old"} ELSE {}) :
        \A f \in File : disk[a][p][f] # Missing

\* A resumed request continues one snapshot: its tokens and its manifest (the
\* versions they were sampled with) come from the same save, except after a
\* shard write that outlived its timeout.
OneSnapshot ==
  found.tokens # Missing /\ stalls = 0 => found.tokens = found.manifest

\* load_latest answers: the latest attempt of a slot is among its attempts.
\* That needs the records to fall due in the order of the attempts, so not after
\* a deletion that failed, nor after a late save has renewed an attempt whose
\* record was due: the stale record deletes it before its predecessors.
LatestIsIndexed ==
  rmFails = 0 /\ renewed = {} /\ Indexed # {} => latest \in Indexed

\* The bookkeeping of the store: its types, the pending count and the index.
Bookkeeping == TypeOK /\ PendingCounts /\ LatestIsIndexed

\* What is on disk can be resumed from: it is known to the store, complete, and
\* one snapshot.
Durable == Bookkeeping /\ LiveOnDisk /\ OneSnapshot

\* Superseded attempts are collected in the end, failed deletions retried.
SupersededCollected ==
  \A a \in Attempt : (index[a] = "eligible") ~> (index[a] # "eligible")
=============================================================================
