--------------------------- MODULE ShardedSearcher ---------------------------
(***************************************************************************)
(* shards/shards.go: Search and List fan out over the loaded shards under  *)
(* the read side of ShardLock, while the loader opens index files and      *)
(* replaces or drops shards under its write side.  Every call happens once *)
(* and has an identity; a shard is named by the load call that opened it,  *)
(* so its rank and its memory mapping belong to that call.                 *)
(***************************************************************************)
EXTENDS ShardLock

CONSTANTS
  Searches,       \* the Search calls among Readers; the others are List calls
  Loads,          \* the throttledLoader.load calls among Writers
  Drops,          \* the throttledLoader.drop calls; other Writers are Close calls
  Keys,           \* file names of index shards
  NoShard,        \* absence of a shard
  Rank,           \* Repository.Rank of the file a load call opens
  NumCPU,         \* runtime.NumCPU()
  ShardOutcomes,  \* how a search of one shard may end: "ok", "err", "crash"
  MaxMatches,     \* bound: matches one shard reports
  TotalMax        \* SearchOptions.TotalMaxMatchCount

Closes == Writers \ (Loads \cup Drops)

ASSUME ShardedSearcherAssumption ==
  /\ Searches \subseteq Readers
  /\ Loads \subseteq Writers
  /\ Drops \subseteq Writers
  /\ Loads \cap Drops = {}
  /\ NoShard \notin Loads
  /\ Rank \in [Loads -> Nat]
  /\ NumCPU \in Nat \ {0}
  /\ ShardOutcomes \subseteq {"ok", "err", "crash"}
  /\ MaxMatches \in Nat
  /\ TotalMax \in Nat

VARIABLES
  shards,    \* shardedSearcher.shards; NoShard for a missing key
  mapping,   \* the mmap of the shard a load call opened: "none", "open", "closed"
  wpc,       \* progress of each load, drop and Close call
  target,    \* the key of a load or drop call
  pc,        \* progress of each Search and List call
  ctx,       \* childCtx: "live", "limit" (enough matches) or "ended"
  task,      \* per call and shard: where the search of that shard is
  matches,   \* aggregate.Stats.MatchCount
  skipped    \* aggregate.Stats.ShardsSkipped > 0

callVars == <<pc, ctx, task, matches, skipped>>
shardVars == <<shards, mapping, wpc, target>>
vars == <<lockVars, shardVars, callVars>>

Loaded == {shards[k] : k \in Keys} \ {NoShard}

(* A shard's search sits in feeder, in a worker, in the channel all, or has *)
(* been received; a shard outside the call's snapshot has none.             *)
Sent == {"ok", "err", "crash", "skip"}
TaskState == {"none", "queued", "running", "received"} \cup Sent

Snapshot(r) == {s \in Loads : task[r][s] # "none"}
In(r, st) == {s \in Loads : task[r][s] \in st}

-----------------------------------------------------------------------------

Init ==
  /\ LockInit
  /\ shards = [k \in Keys |-> NoShard]
  /\ mapping = [l \in Loads |-> "none"]
  /\ wpc = [w \in Writers |-> "idle"]
  /\ target \in [Loads \cup Drops -> Keys]
  /\ pc = [r \in Readers |-> "idle"]
  /\ ctx = [r \in Readers |-> "live"]
  /\ task = [r \in Readers |-> [s \in Loads |-> "none"]]
  /\ matches = [r \in Readers |-> 0]
  /\ skipped = [r \in Readers |-> FALSE]

-----------------------------------------------------------------------------
(* Search and List *)

(* Search or List up to rlock. Nothing keeps a caller from it after Close. *)
Call(r) ==
  /\ pc[r] = "idle"
  /\ pc' = [pc EXCEPT ![r] = "locking"]
  /\ Acquire(r)
  /\ UNCHANGED <<shardVars, ctx, task, matches, skipped>>

(* The caller's context ends, or MaxWallTime has passed. *)
EndContext(r) ==
  /\ pc[r] \in {"locking", "searching"}
  /\ ctx[r] # "ended"
  /\ ctx' = [ctx EXCEPT ![r] = "ended"]
  /\ UNCHANGED <<lockVars, shardVars, pc, task, matches, skipped>>

(* rlock returns the context's error and so does the call. *)
RlockFails(r) ==
  /\ pc[r] = "locking"
  /\ ctx[r] = "ended"
  /\ CancelAcquire(r)
  /\ pc' = [pc EXCEPT ![r] = "cancelled"]
  /\ UNCHANGED <<shardVars, ctx, task, matches, skipped>>

(* getShards, and the goroutines: Search queues the shards in feeder for its *)
(* workers, List starts one goroutine per shard.                            *)
StartCall(r) ==
  /\ pc[r] = "locking"
  /\ r \in holders
  /\ pc' = [pc EXCEPT ![r] = "searching"]
  /\ task' = [task EXCEPT ![r] = [s \in Loads |->
                IF s \notin Loaded THEN "none"
                ELSE IF r \in Searches THEN "queued" ELSE "running"]]
  /\ UNCHANGED <<lockVars, shardVars, ctx, matches, skipped>>

(* feeder holds the shards by decreasing rank, in no fixed order among equals. *)
NextInFeeder(r, s) ==
  /\ task[r][s] = "queued"
  /\ \A t \in In(r, {"queued"}) : Rank[t] <= Rank[s]

(* An idle worker takes the next shard. indexData.Search looks at its        *)
(* context first and skips the shard when it is done.                       *)
WorkerTakes(r, s) ==
  /\ Cardinality(In(r, {"running"})) < NumCPU
  /\ NextInFeeder(r, s)
  /\ task' = [task EXCEPT ![r][s] = IF ctx[r] = "live" THEN "running" ELSE "skip"]
  /\ UNCHANGED <<lockVars, shardVars, pc, ctx, matches, skipped>>

(* An unbuffered channel all (a mutation of SinkFree). *)
SinkFreeUnbuffered(r) == pc[r] = "searching" /\ In(r, Sent) = {}

(* The channel all has room for a result of every shard. *)
SinkFree(r) == Cardinality(In(r, Sent)) < Cardinality(Snapshot(r))

(* searchOneShard, or the goroutine of List, ends and sends its result; a    *)
(* panic is recovered and sent as a crash. The call may be gone by then.    *)
WorkerSends(r, s) ==
  /\ task[r][s] = "running"
  /\ SinkFree(r)
  /\ \E res \in ShardOutcomes : task' = [task EXCEPT ![r][s] = res]
  /\ UNCHANGED <<lockVars, shardVars, pc, ctx, matches, skipped>>

(* The collecting loop receives a result: a skipped shard, a crash or a      *)
(* number of matches. Past TotalMaxMatchCount a Search cancels childCtx.    *)
Collect(r, s) ==
  /\ pc[r] = "searching"
  /\ task[r][s] \in {"ok", "crash", "skip"}
  /\ task' = [task EXCEPT ![r][s] = "received"]
  /\ skipped' = [skipped EXCEPT ![r] = @ \/ task[r][s] = "skip"]
  /\ \E m \in 0..MaxMatches :
       /\ m > 0 => task[r][s] = "ok" /\ r \in Searches
       /\ matches' = [matches EXCEPT ![r] = @ + m]
  /\ ctx' = [ctx EXCEPT ![r] =
               IF r \in Searches /\ @ = "live" /\ matches'[r] > TotalMax
               THEN "limit" ELSE @]
  /\ UNCHANGED <<lockVars, shardVars, pc>>

(* The error return forgets runlock (a mutation of CollectError). *)
CollectErrorKeepsLock(r, s) ==
  /\ pc[r] = "searching"
  /\ task[r][s] = "err"
  /\ task' = [task EXCEPT ![r][s] = "received"]
  /\ ctx' = [ctx EXCEPT ![r] = "ended"]
  /\ pc' = [pc EXCEPT ![r] = "failed"]
  /\ UNCHANGED <<lockVars, shardVars, matches, skipped>>

(* The collecting loop receives an error: the call returns it at once. The   *)
(* deferred functions cancel childCtx and release the lock, while workers   *)
(* may still be busy.                                                       *)
CollectError(r, s) ==
  /\ pc[r] = "searching"
  /\ task[r][s] = "err"
  /\ task' = [task EXCEPT ![r][s] = "received"]
  /\ ctx' = [ctx EXCEPT ![r] = "ended"]
  /\ pc' = [pc EXCEPT ![r] = "failed"]
  /\ Release(r)
  /\ UNCHANGED <<shardVars, matches, skipped>>

(* Return once every shard of the snapshot has answered, mistaking a queued  *)
(* one for answered (a mutation of Return).                                 *)
ReturnEarly(r) ==
  /\ pc[r] = "searching"
  /\ In(r, {"running"} \cup Sent) = {}
  /\ pc' = [pc EXCEPT ![r] = "returned"]
  /\ Release(r)
  /\ UNCHANGED <<shardVars, ctx, task, matches, skipped>>

(* The loop has received a result of every shard: results are sorted, cut    *)
(* and copied out of the shards' memory; then the lock is released. The     *)
(* deferred cancel has no worker left to reach.                             *)
Return(r) ==
  /\ pc[r] = "searching"
  /\ Snapshot(r) = In(r, {"received"})
  /\ pc' = [pc EXCEPT ![r] = "returned"]
  /\ Release(r)
  /\ UNCHANGED <<shardVars, ctx, task, matches, skipped>>

-----------------------------------------------------------------------------
(* load, drop and Close *)

(* load takes a slot of the loader's throttle and opens the file. *)
LoadBegins(w) ==
  /\ wpc[w] = "idle"
  /\ Cardinality({v \in Loads : wpc[v] = "loading"}) < NumCPU
  /\ wpc' = [wpc EXCEPT ![w] = "loading"]
  /\ UNCHANGED <<lockVars, callVars, shards, mapping, target>>

(* loadShard fails and load gives up: whatever was served for the key stays. *)
LoadFails(w) ==
  /\ wpc[w] = "loading"
  /\ wpc' = [wpc EXCEPT ![w] = "done"]
  /\ UNCHANGED <<lockVars, callVars, shards, mapping, target>>

LoadOpens(w) ==
  /\ wpc[w] = "loading"
  /\ wpc' = [wpc EXCEPT ![w] = "loaded"]
  /\ mapping' = [mapping EXCEPT ![w] = "open"]
  /\ UNCHANGED <<lockVars, callVars, shards, target>>

(* lock(context.Background()) of replace or Close. *)
LockCall(w) ==
  /\ wpc[w] = IF w \in Loads THEN "loaded" ELSE "idle"
  /\ wpc' = [wpc EXCEPT ![w] = "locking"]
  /\ Acquire(w)
  /\ UNCHANGED <<callVars, shards, mapping, target>>

(* replace forgets to close the old shard (a mutation of Replace). *)
ReplaceLeaks(w) ==
  /\ wpc[w] = "locking"
  /\ w \in holders
  /\ shards' = [shards EXCEPT ![target[w]] = IF w \in Loads THEN w ELSE NoShard]
  /\ wpc' = [wpc EXCEPT ![w] = "done"]
  /\ Release(w)
  /\ UNCHANGED <<callVars, mapping, target>>

(* replace that does not wait for the lock (a mutation of Replace). *)
ReplaceUnlocked(w) ==
  /\ wpc[w] = "locking"
  /\ LET old == shards[target[w]]
     IN  mapping' = [l \in Loads |-> IF l = old THEN "closed" ELSE mapping[l]]
  /\ shards' = [shards EXCEPT ![target[w]] = IF w \in Loads THEN w ELSE NoShard]
  /\ wpc' = [wpc EXCEPT ![w] = "done"]
  /\ UNCHANGED <<lockVars, callVars, target>>

(* replace that returns its tokens with runlock (a mutation of Replace). *)
ReplaceRunlocks(w) ==
  /\ wpc[w] = "locking"
  /\ w \in holders
  /\ LET old == shards[target[w]]
     IN  mapping' = [l \in Loads |-> IF l = old THEN "closed" ELSE mapping[l]]
  /\ shards' = [shards EXCEPT ![target[w]] = IF w \in Loads THEN w ELSE NoShard]
  /\ wpc' = [wpc EXCEPT ![w] = "done"]
  /\ cur' = cur - 1
  /\ holders' = holders \ {w}
  /\ UNCHANGED <<waiters, callVars, target>>

(* replace under the lock: the old shard is closed, the map updated, and the *)
(* deferred unlock runs.                                                    *)
Replace(w) ==
  /\ wpc[w] = "locking"
  /\ w \in holders
  /\ LET old == shards[target[w]]
     IN  mapping' = [l \in Loads |-> IF l = old THEN "closed" ELSE mapping[l]]
  /\ shards' = [shards EXCEPT ![target[w]] = IF w \in Loads THEN w ELSE NoShard]
  /\ wpc' = [wpc EXCEPT ![w] = "done"]
  /\ Release(w)
  /\ UNCHANGED <<callVars, target>>

(* Close that does not wait for the lock (a mutation of CloseAll). *)
CloseAllUnlocked(w) ==
  /\ wpc[w] = "locking"
  /\ mapping' = [l \in Loads |-> IF l \in Loaded THEN "closed" ELSE mapping[l]]
  /\ wpc' = [wpc EXCEPT ![w] = "done"]
  /\ UNCHANGED <<lockVars, callVars, shards, target>>

(* Close under the lock: every shard is closed and stays in the map. *)
CloseAll(w) ==
  /\ wpc[w] = "locking"
  /\ w \in holders
  /\ mapping' = [l \in Loads |-> IF l \in Loaded THEN "closed" ELSE mapping[l]]
  /\ wpc' = [wpc EXCEPT ![w] = "done"]
  /\ Release(w)
  /\ UNCHANGED <<callVars, shards, target>>

-----------------------------------------------------------------------------

CallSteps(r) ==
  \/ StartCall(r)
  \/ \E s \in Loads : WorkerTakes(r, s)
  \/ \E s \in Loads : WorkerSends(r, s)
  \/ \E s \in Loads : Collect(r, s)
  \/ \E s \in Loads : CollectError(r, s)
  \/ Return(r)

Next ==
  \/ \E r \in Readers : Call(r) \/ EndContext(r) \/ RlockFails(r) \/ CallSteps(r)
  \/ \E w \in Loads : LoadBegins(w) \/ LoadFails(w) \/ LoadOpens(w)
  \/ \E w \in Writers : LockCall(w)
  \/ \E w \in Loads \cup Drops : Replace(w)
  \/ \E w \in Closes : CloseAll(w)

Spec == Init /\ [][Next]_vars

(* Goroutines run: a search of a shard ends, a file is opened or refused, and *)
(* a call that was started takes its next step. Callers need not call, nor  *)
(* need a context end.                                                      *)
Fairness ==
  /\ \A r \in Readers :
       /\ WF_vars(StartCall(r))
       /\ WF_vars(\E s \in Loads : Collect(r, s) \/ CollectError(r, s))
       /\ WF_vars(Return(r))
       /\ WF_vars(\E s \in Loads : WorkerTakes(r, s))
       /\ \A s \in Loads : WF_vars(WorkerSends(r, s))
  /\ \A w \in Loads : WF_vars(LoadFails(w) \/ LoadOpens(w))
  /\ \A w \in Loads : WF_vars(LockCall(w))
  /\ \A w \in Loads \cup Drops : WF_vars(Replace(w))
  /\ \A w \in Closes : WF_vars(CloseAll(w))

FairSpec == Spec /\ Fairness

-----------------------------------------------------------------------------
(* Properties *)

(* Every variable has its type: the tokens of the lock stay within its       *)
(* capacity whatever calls, loads and drops do with it.                     *)
TypeOK ==
  /\ LockTypeOK
  /\ shards \in [Keys -> Loads \cup {NoShard}]
  /\ mapping \in [Loads -> {"none", "open", "closed"}]
  /\ wpc \in [Writers -> {"idle", "loading", "loaded", "locking", "done"}]
  /\ target \in [Loads \cup Drops -> Keys]
  /\ pc \in [Readers -> {"idle", "locking", "searching", "returned", "failed", "cancelled"}]
  /\ ctx \in [Readers -> {"live", "limit", "ended"}]
  /\ task \in [Readers -> [Loads -> TaskState]]
  /\ matches \in [Readers -> Nat]
  /\ skipped \in [Readers -> BOOLEAN]

CloseEnded == \E w \in Closes : wpc[w] = "done"

(* While Search or List is between getShards and its return, the shards it   *)
(* works on are the ones that are loaded, none replaced or dropped under it.*)
(* They are open, unless Close has been there: it closes what is in the map *)
(* and leaves it in the map for the calls that come after.                  *)
SnapshotStable ==
  \A r \in Readers : pc[r] = "searching" =>
    /\ Snapshot(r) = Loaded
    /\ \A s \in Snapshot(r) : mapping[s] = "open" \/ CloseEnded

KeepsShardsOfCalls ==
  \A r \in Readers : pc[r] = "searching" =>
    /\ Loaded' = Loaded
    /\ \A s \in Snapshot(r) : mapping'[s] = mapping[s]

(* No step of replace, drop or Close takes a shard away from a Search or     *)
(* List that is on its way, or closes one under it: what was open when      *)
(* getShards returned it is open when the results are copied out of it.     *)
NothingClosedUnderCall == [][KeepsShardsOfCalls]_vars

(* What the comment on the critical section of Search says it is for: no     *)
(* worker searches a shard that has been closed.                            *)
NoSearchOnClosedShard ==
  \A r \in Searches, s \in Loads : task[r][s] = "running" => mapping[s] = "open"

(* An open mapping is reachable: it is in the map, or its load call is about *)
(* to put it there. replace closes what it displaces, so none leaks.        *)
NoMappingLeak ==
  \A l \in Loads : mapping[l] = "open" => l \in Loaded \/ wpc[l] \in {"loaded", "locking"}

(* A Search that returned a result has an answer of every shard it started   *)
(* with; if its own context did not end, shards were skipped only because   *)
(* there were more matches than TotalMaxMatchCount.                         *)
ResultAccounted ==
  \A r \in Searches : pc[r] = "returned" =>
    /\ \A s \in Snapshot(r) : task[r][s] = "received"
    /\ skipped[r] /\ ctx[r] # "ended" => matches[r] > TotalMax

(* Every Search and List ends, also with replace calls in the queue. *)
CallsEnd ==
  \A r \in Readers : pc[r] = "locking" ~> pc[r] \in {"returned", "failed", "cancelled"}

(* No worker goroutine is left behind, also when its call has returned early *)
(* on another shard's error: all has room for its result.                   *)
WorkersEnd ==
  \A r \in Readers, s \in Loads :
    task[r][s] \in {"queued", "running"} ~> task[r][s] \notin {"queued", "running"}

(* Every replace, drop and Close gets the lock and finishes. *)
WritersEnd ==
  \A w \in Writers : wpc[w] = "locking" ~> wpc[w] = "done"
=============================================================================
