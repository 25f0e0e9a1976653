------------------------ MODULE ShardedSearcher_proofs ------------------------
(***************************************************************************)
(* Search and List work on a stable set of open shards, for any number of  *)
(* calls, shards and tokens.                                               *)
(***************************************************************************)
EXTENDS ShardedSearcher, ShardLock_proofs

InFlight(r) == pc[r] \in {"locking", "searching"}

(* The calls between their Acquire and their Release are the lock's. *)
LockMatchesCalls ==
  /\ \A r \in Readers : r \in InLock <=> InFlight(r)
  /\ \A r \in Readers : pc[r] = "searching" => r \in holders
  /\ \A w \in Writers : w \in InLock <=> wpc[w] = "locking"

(* A shard is in the map at most once, under the key it was loaded for. *)
MapByTarget ==
  \A k \in Keys : shards[k] # NoShard =>
    /\ target[shards[k]] = k
    /\ wpc[shards[k]] = "done"

(* Where the mapping of a load call can be, by its progress. *)
MappingByProgress ==
  \A l \in Loads :
    /\ wpc[l] \in {"idle", "loading"} => mapping[l] = "none"
    /\ wpc[l] \in {"loaded", "locking"} => mapping[l] = "open"
    /\ mapping[l] = "open" /\ wpc[l] = "done" => l \in Loaded
    /\ l \in Loaded => mapping[l] = "open" \/ CloseEnded

(* Skipping follows a context that is done, and "limit" enough matches. *)
SkipsFollowContext ==
  \A r \in Readers :
    /\ ctx[r] = "limit" => matches[r] > TotalMax
    /\ skipped[r] => ctx[r] # "live"
    /\ \A s \in Loads : task[r][s] = "skip" => ctx[r] # "live"
    /\ pc[r] = "returned" => \A s \in Loads : task[r][s] \in {"none", "received"}
    /\ pc[r] \in {"idle", "locking", "cancelled"} => \A s \in Loads : task[r][s] = "none"

SearcherInv ==
  /\ TypeOK
  /\ LockInv
  /\ LockMatchesCalls
  /\ MapByTarget
  /\ MappingByProgress
  /\ SkipsFollowContext
  /\ SnapshotStable

-----------------------------------------------------------------------------
(* Steps inside one Search or List that leave the lock and the shards alone. *)
LEMMA QuietCallInv ==
  ASSUME SearcherInv, NEW r \in Readers,
         \/ EndContext(r)
         \/ \E s \in Loads : WorkerTakes(r, s) \/ WorkerSends(r, s) \/ Collect(r, s)
  PROVE  SearcherInv'
<1> USE DEF SearcherInv
<1>1. /\ cur' = cur /\ waiters' = waiters /\ holders' = holders
      /\ shards' = shards /\ mapping' = mapping /\ wpc' = wpc /\ target' = target
      /\ pc' = pc
  BY Zenon DEF EndContext, WorkerTakes, WorkerSends, Collect, lockVars, shardVars
<1>2. LockInv'
  <2>1. [LockNext]_lockVars
    BY <1>1, Zenon DEF lockVars
  <2> QED  BY <2>1, LockStepInv, Zenon
<1>3. LockMatchesCalls'
  BY <1>1 DEF LockMatchesCalls, InLock, Waiting, InFlight
<1>5. MapByTarget'
  BY <1>1, Zenon DEF MapByTarget
<1>6. MappingByProgress'
  BY <1>1, Zenon DEF MappingByProgress, Loaded, CloseEnded
<1>7. LockTypeOK'
  BY <1>2, Zenon DEF LockInv
<1>8. CASE EndContext(r)
  <2>1. /\ ctx' = [ctx EXCEPT ![r] = "ended"]
        /\ task' = task /\ matches' = matches /\ skipped' = skipped
    BY <1>8, Zenon DEF EndContext
  <2>2. TypeOK'
    BY <1>1, <1>7, <2>1, Zenon DEF TypeOK
  <2>3. SkipsFollowContext'
    BY <1>1, <2>1 DEF SkipsFollowContext, TypeOK
  <2>4. SnapshotStable'
    BY <1>1, <2>1 DEF SnapshotStable, Snapshot, Loaded, CloseEnded
  <2> QED  BY <1>2, <1>3, <1>5, <1>6, <2>2, <2>3, <2>4, Zenon
<1>9. ASSUME NEW s \in Loads, WorkerTakes(r, s)
      PROVE  SearcherInv'
  <2>1. /\ task[r][s] = "queued"
        /\ ctx' = ctx /\ matches' = matches /\ skipped' = skipped
    BY <1>9, Zenon DEF WorkerTakes, NextInFeeder
  <2>2. PICK st \in {"running", "skip"} :
          /\ task' = [task EXCEPT ![r][s] = st]
          /\ st = "skip" => ctx[r] # "live"
    BY <1>9, Zenon DEF WorkerTakes
  <2>3. TypeOK'
    BY <1>1, <1>7, <2>1, <2>2, Zenon DEF TypeOK, TaskState, Sent
  <2>4. \A q \in Readers, t \in Loads :
          task'[q][t] = IF q = r /\ t = s THEN st ELSE task[q][t]
    BY <2>2, Zenon DEF TypeOK
  <2>5. SkipsFollowContext'
    BY <1>1, <2>1, <2>2, <2>4 DEF SkipsFollowContext, TypeOK
  <2>6. \A q \in Readers : Snapshot(q)' = Snapshot(q)
    BY <2>1, <2>2, <2>4 DEF Snapshot
  <2>7. SnapshotStable'
    BY <1>1, <2>6, Zenon DEF SnapshotStable, Loaded, CloseEnded
  <2> QED  BY <1>2, <1>3, <1>5, <1>6, <2>3, <2>5, <2>7, Zenon
<1>10. ASSUME NEW s \in Loads, WorkerSends(r, s) \/ Collect(r, s)
       PROVE  SearcherInv'
  <2>1. /\ task[r][s] \in {"running", "ok", "crash", "skip"}
        /\ \E st \in {"ok", "err", "crash", "received"} : task' = [task EXCEPT ![r][s] = st]
    BY <1>10, ShardedSearcherAssumption, Zenon DEF WorkerSends, Collect
  <2>2. PICK st \in {"ok", "err", "crash", "received"} : task' = [task EXCEPT ![r][s] = st]
    BY <2>1, Zenon
  <2>3. \A q \in Readers, t \in Loads :
          task'[q][t] = IF q = r /\ t = s THEN st ELSE task[q][t]
    BY <2>2, Zenon DEF TypeOK
  <2>4. pc[r] \notin {"returned", "idle", "locking", "cancelled"}
    BY <2>1, Zenon DEF SkipsFollowContext, TypeOK
  <2>5. TypeOK' /\ SkipsFollowContext'
    <3>1. task' \in [Readers -> [Loads -> TaskState]]
      BY <2>2, Zenon DEF TypeOK, TaskState, Sent
    <3>2. CASE WorkerSends(r, s)
      <4>1. ctx' = ctx /\ matches' = matches /\ skipped' = skipped
        BY <3>2, Zenon DEF WorkerSends
      <4>2. TypeOK'
        BY <1>1, <1>7, <3>1, <4>1, Zenon DEF TypeOK
      <4>3. SkipsFollowContext'
        BY <1>1, <2>3, <2>4, <4>1 DEF SkipsFollowContext, TypeOK
      <4> QED  BY <4>2, <4>3, Zenon
    <3>3. CASE Collect(r, s)
      <4>1. PICK m \in 0..MaxMatches : matches' = [matches EXCEPT ![r] = @ + m]
        BY <3>3, Zenon DEF Collect
      <4>2. /\ skipped' = [skipped EXCEPT ![r] = @ \/ task[r][s] = "skip"]
            /\ ctx' = [ctx EXCEPT ![r] =
                         IF r \in Searches /\ @ = "live" /\ matches'[r] > TotalMax
                         THEN "limit" ELSE @]
        BY <3>3, Zenon DEF Collect
      <4>3. m \in Nat /\ TotalMax \in Nat
        BY ShardedSearcherAssumption
      <4>4. matches' \in [Readers -> Nat] /\ \A q \in Readers : matches'[q] >= matches[q]
        BY <4>1, <4>3 DEF TypeOK
      <4>5. ctx' \in [Readers -> {"live", "limit", "ended"}] /\ skipped' \in [Readers -> BOOLEAN]
        BY <4>2, Zenon DEF TypeOK
      <4>6. TypeOK'
        BY <1>1, <1>7, <3>1, <4>4, <4>5, Zenon DEF TypeOK
      <4>7. \A q \in Readers : /\ ctx[q] # "live" => ctx'[q] # "live"
                               /\ ctx'[q] = "limit" => ctx[q] = "limit" \/ matches'[q] > TotalMax
        BY <4>2, Zenon DEF TypeOK
      <4>8. \A q \in Readers : skipped'[q] => skipped[q] \/ (q = r /\ task[r][s] = "skip")
        BY <4>2, Zenon DEF TypeOK
      <4>9. \A q \in Readers : ctx'[q] = "limit" => matches'[q] > TotalMax
        BY <4>3, <4>4, <4>7 DEF SkipsFollowContext, TypeOK
      <4>10. \A q \in Readers : skipped'[q] => ctx'[q] # "live"
        BY <4>7, <4>8, Zenon DEF SkipsFollowContext
      <4>11. \A q \in Readers, t \in Loads : task'[q][t] = "skip" => ctx'[q] # "live"
        BY <2>3, <4>7 DEF SkipsFollowContext
      <4>12. \A q \in Readers :
               /\ pc'[q] = "returned" => \A t \in Loads : task'[q][t] \in {"none", "received"}
               /\ pc'[q] \in {"idle", "locking", "cancelled"} =>
                    \A t \in Loads : task'[q][t] = "none"
        BY <1>1, <2>3, <2>4 DEF SkipsFollowContext
      <4> QED  BY <4>6, <4>9, <4>10, <4>11, <4>12, Zenon DEF SkipsFollowContext
    <3> QED  BY <1>10, <3>2, <3>3, Zenon
  <2>6. \A q \in Readers : Snapshot(q)' = Snapshot(q)
    BY <2>1, <2>3, Zenon DEF Snapshot
  <2>7. SnapshotStable'
    BY <1>1, <2>6, Zenon DEF SnapshotStable, Loaded, CloseEnded
  <2> QED  BY <1>2, <1>3, <1>5, <1>6, <2>5, <2>7, Zenon
<1> QED  BY <1>8, <1>9, <1>10, Zenon

(* StartCall takes its snapshot under the lock, when every shard in the map  *)
(* is open or was closed by a Close that is over.                           *)
LEMMA StartCallInv ==
  ASSUME SearcherInv, NEW r \in Readers, StartCall(r)
  PROVE  SearcherInv'
<1> USE DEF SearcherInv
<1>1. /\ cur' = cur /\ waiters' = waiters /\ holders' = holders
      /\ shards' = shards /\ mapping' = mapping /\ wpc' = wpc /\ target' = target
      /\ ctx' = ctx /\ matches' = matches /\ skipped' = skipped
      /\ pc[r] = "locking" /\ r \in holders
      /\ pc' = [pc EXCEPT ![r] = "searching"]
  BY Zenon DEF StartCall, lockVars, shardVars
<1>2. LockInv'
  <2>1. [LockNext]_lockVars
    BY <1>1, Zenon DEF lockVars
  <2> QED  BY <2>1, LockStepInv, Zenon
<1>3. \A q \in Readers : /\ pc'[q] = IF q = r THEN "searching" ELSE pc[q]
                         /\ InFlight(q)' <=> InFlight(q)
  BY <1>1, Zenon DEF TypeOK, InFlight
<1>4. LockMatchesCalls'
  BY <1>1, <1>3 DEF LockMatchesCalls, InLock, Waiting
<1>6. MapByTarget' /\ MappingByProgress'
  BY <1>1 DEF MapByTarget, MappingByProgress, Loaded, CloseEnded
<1>7. \A q \in Readers, t \in Loads :
        task'[q][t] = IF q # r THEN task[q][t]
                      ELSE IF t \notin Loaded THEN "none"
                      ELSE IF r \in Searches THEN "queued" ELSE "running"
  BY Zenon DEF StartCall, TypeOK
<1>8. task' \in [Readers -> [Loads -> TaskState]]
  BY Zenon DEF StartCall, TypeOK, TaskState
<1>9. TypeOK'
  <2>1. LockTypeOK'
    BY <1>2, Zenon DEF LockInv
  <2> QED  BY <1>1, <1>8, <2>1, Zenon DEF TypeOK
<1>10. SkipsFollowContext'
  <2>1. SUFFICES ASSUME NEW q \in Readers
                 PROVE  /\ ctx'[q] = "limit" => matches'[q] > TotalMax
                        /\ skipped'[q] => ctx'[q] # "live"
                        /\ \A s \in Loads : task'[q][s] = "skip" => ctx'[q] # "live"
                        /\ pc'[q] = "returned" => \A s \in Loads : task'[q][s] \in {"none", "received"}
                        /\ pc'[q] \in {"idle", "locking", "cancelled"} => \A s \in Loads : task'[q][s] = "none"
    BY Zenon DEF SkipsFollowContext
  <2>2. CASE q # r
    <3>1. pc'[q] = pc[q] /\ \A s \in Loads : task'[q][s] = task[q][s]
      BY <1>3, <1>7, <2>2, Zenon
    <3> QED  BY <1>1, <3>1 DEF SkipsFollowContext
  <2>3. CASE q = r
    <3>1. pc'[q] = "searching" /\ \A s \in Loads : task'[q][s] \in {"none", "queued", "running"}
      BY <1>3, <1>7, <2>3, Zenon
    <3> QED  BY <1>1, <3>1, Zenon DEF SkipsFollowContext
  <2> QED  BY <2>2, <2>3, Zenon
<1>11. Loaded \subseteq Loads
  BY DEF TypeOK, Loaded
<1>12. Snapshot(r)' = Loaded /\ \A q \in Readers \ {r} : Snapshot(q)' = Snapshot(q)
  BY <1>7, <1>11, Zenon DEF Snapshot
<1>13. \A l \in Loaded : mapping[l] = "open" \/ CloseEnded
  BY <1>11, Zenon DEF MappingByProgress
<1>14. SnapshotStable'
  <2>1. Loaded' = Loaded /\ (CloseEnded' <=> CloseEnded)
    BY <1>1, Zenon DEF Loaded, CloseEnded
  <2>0. \A s \in Loads : mapping'[s] = mapping[s]
    BY <1>1, Zenon
  <2> SUFFICES ASSUME NEW q \in Readers, pc'[q] = "searching"
               PROVE  /\ Snapshot(q)' = Loaded'
                      /\ \A s \in Snapshot(q)' : mapping'[s] = "open" \/ CloseEnded'
    BY Zenon DEF SnapshotStable
  <2>2. CASE q = r
    BY <1>11, <1>12, <1>13, <2>0, <2>1, <2>2
  <2>3. CASE q # r
    <3>1. pc[q] = "searching" /\ Snapshot(q)' = Snapshot(q)
      BY <1>3, <1>12, <2>3, Zenon
    <3>2. /\ Snapshot(q) = Loaded
          /\ \A s \in Snapshot(q) : mapping[s] = "open" \/ CloseEnded
      BY <3>1, Zenon DEF SnapshotStable
    <3> QED  BY <1>11, <2>0, <2>1, <3>1, <3>2
  <2> QED  BY <2>2, <2>3, Zenon
<1> QED  BY <1>2, <1>4, <1>6, <1>9, <1>10, <1>14, Zenon

-----------------------------------------------------------------------------
(* Steps by which a Search or List enters or leaves the lock. *)
LEMMA CallLockInv ==
  ASSUME SearcherInv, NEW r \in Readers,
         Call(r) \/ RlockFails(r) \/ Return(r) \/ \E s \in Loads : CollectError(r, s)
  PROVE  SearcherInv'
<1> USE DEF SearcherInv
<1>1. /\ shards' = shards /\ mapping' = mapping /\ wpc' = wpc /\ target' = target
      /\ matches' = matches /\ skipped' = skipped
  BY Zenon DEF Call, RlockFails, Return, CollectError, shardVars
<1>2. r \in Callers
  BY Zenon DEF Callers
<1>3. LockNext
  BY <1>2, Zenon DEF Call, RlockFails, Return, CollectError, LockNext
<1>4. LockInv'
  BY <1>3, LockStepInv, Zenon
<1>5. MapByTarget' /\ MappingByProgress'
  BY <1>1 DEF MapByTarget, MappingByProgress, Loaded, CloseEnded
<1>6. PICK to \in {"locking", "cancelled", "returned", "failed"} :
        /\ pc' = [pc EXCEPT ![r] = to]
        /\ to = "locking" => InLock' = InLock \cup {r} /\ pc[r] = "idle"
        /\ to # "locking" => InLock' = InLock \ {r}
        /\ to = "cancelled" => pc[r] = "locking"
        /\ to = "returned" => \A s \in Loads : task[r][s] \in {"none", "received"}
        /\ to \in {"returned", "failed"} => pc[r] = "searching"
        /\ holders \ {r} \subseteq holders'
  <2>1. CASE Call(r)
    BY <1>2, <2>1, AcquireMembers, Zenon DEF Call
  <2>2. CASE RlockFails(r)
    BY <2>2, CancelMembers, Zenon DEF RlockFails
  <2>3. CASE Return(r)
    <3>1. \A s \in Loads : task[r][s] \in {"none", "received"}
      BY <2>3, Zenon DEF Return, Snapshot, In
    <3> QED  BY <1>2, <2>3, <3>1, ReleaseMembers, Zenon DEF Return
  <2>4. ASSUME NEW s \in Loads, CollectError(r, s)
        PROVE  /\ pc' = [pc EXCEPT ![r] = "failed"] /\ InLock' = InLock \ {r}
               /\ pc[r] = "searching" /\ holders \ {r} \subseteq holders'
    BY <1>2, <2>4, ReleaseMembers, Zenon DEF CollectError
  <2> QED  BY <2>1, <2>2, <2>3, <2>4, Zenon
<1>7. \A q \in Readers : pc'[q] = IF q = r THEN to ELSE pc[q]
  BY <1>6, Zenon DEF TypeOK
<1>8. LockMatchesCalls'
  <2>1. ASSUME NEW q \in Readers
        PROVE  /\ q \in InLock' <=> InFlight(q)'
               /\ pc'[q] = "searching" => q \in holders'
    <3>1. CASE q = r
      BY <1>6, <1>7, <3>1, Zenon DEF InFlight
    <3>2. CASE q # r
      BY <1>6, <1>7, <3>2, Zenon DEF InFlight, LockMatchesCalls
    <3> QED  BY <3>1, <3>2, Zenon
  <2>2. ASSUME NEW w \in Writers
        PROVE  w \in InLock' <=> wpc'[w] = "locking"
    <3>1. w # r
      BY ShardLockAssumption, Zenon
    <3> QED  BY <1>1, <1>6, <3>1, Zenon DEF LockMatchesCalls
  <2> QED  BY <2>1, <2>2, Zenon DEF LockMatchesCalls
<1>10. /\ \A q \in Readers, t \in Loads :
             \/ task'[q][t] = task[q][t]
             \/ q = r /\ to = "failed" /\ task'[q][t] = "received" /\ task[q][t] = "err"
       /\ \A q \in Readers : ctx'[q] \in {ctx[q], "ended"}
       /\ ctx' \in [Readers -> {"live", "limit", "ended"}]
       /\ task' \in [Readers -> [Loads -> TaskState]]
  <2>1. CASE Call(r) \/ RlockFails(r) \/ Return(r)
    <3>1. task' = task /\ ctx' = ctx
      BY <2>1, Zenon DEF Call, RlockFails, Return
    <3> QED  BY <3>1, Zenon DEF TypeOK
  <2>2. ASSUME NEW s \in Loads, CollectError(r, s)
        PROVE  <1>10!1 /\ <1>10!2 /\ <1>10!3 /\ <1>10!4
    <3>1. /\ task' = [task EXCEPT ![r][s] = "received"] /\ task[r][s] = "err"
          /\ ctx' = [ctx EXCEPT ![r] = "ended"]
          /\ pc' = [pc EXCEPT ![r] = "failed"]
      BY <2>2, Zenon DEF CollectError
    <3>2. to = "failed"
      BY <1>7, <3>1, Zenon DEF TypeOK
    <3>3. <1>10!1
      BY <3>1, <3>2, Zenon DEF TypeOK
    <3>4. <1>10!2 /\ <1>10!3
      BY <3>1, Zenon DEF TypeOK
    <3>5. <1>10!4
      BY <3>1, Zenon DEF TypeOK, TaskState
    <3> QED  BY <3>3, <3>4, <3>5, Zenon
  <2> QED  BY <2>1, <2>2, Zenon
<1>11. TypeOK'
  <2>1. LockTypeOK'
    BY <1>4, Zenon DEF LockInv
  <2> QED  BY <1>1, <1>6, <1>10, <2>1, Zenon DEF TypeOK
<1>12. SkipsFollowContext'
  <2> SUFFICES ASSUME NEW q \in Readers
               PROVE  /\ ctx'[q] = "limit" => matches'[q] > TotalMax
                      /\ skipped'[q] => ctx'[q] # "live"
                      /\ \A t \in Loads : task'[q][t] = "skip" => ctx'[q] # "live"
                      /\ pc'[q] = "returned" =>
                           \A t \in Loads : task'[q][t] \in {"none", "received"}
                      /\ pc'[q] \in {"idle", "locking", "cancelled"} =>
                           \A t \in Loads : task'[q][t] = "none"
    BY Zenon DEF SkipsFollowContext
  <2>1. /\ ctx'[q] = "limit" => matches'[q] > TotalMax
        /\ skipped'[q] => ctx'[q] # "live"
        /\ \A t \in Loads : task'[q][t] = "skip" => ctx'[q] # "live"
    BY <1>1, <1>10 DEF SkipsFollowContext
  <2>2. CASE q = r
    <3>1. pc'[q] = to
      BY <1>7, <2>2, Zenon
    <3>2. to = "returned" => \A t \in Loads : task'[q][t] \in {"none", "received"}
      BY <1>6, <1>10, <2>2, Zenon
    <3>3. to \in {"locking", "cancelled"} => pc[q] \in {"idle", "locking"}
      BY <1>6, <2>2, Zenon
    <3>4. to \in {"locking", "cancelled"} => \A t \in Loads : task'[q][t] = "none"
      <4>1. to \in {"locking", "cancelled"} => to # "failed" /\ \A t \in Loads : task[q][t] = "none"
        BY <3>3, Zenon DEF SkipsFollowContext
      <4> QED  BY <1>10, <4>1, Zenon
    <3>5. to # "idle"
      BY <1>6, Zenon
    <3> QED  BY <2>1, <3>1, <3>2, <3>4, <3>5, Zenon
  <2>3. CASE q # r
    <3>1. pc'[q] = pc[q]
      BY <1>7, <2>3, Zenon
    <3>2. \A t \in Loads : task'[q][t] = task[q][t]
      BY <1>10, <2>3, Zenon
    <3>3. /\ pc[q] = "returned" => \A t \in Loads : task[q][t] \in {"none", "received"}
          /\ pc[q] \in {"idle", "locking", "cancelled"} =>
               \A t \in Loads : task[q][t] = "none"
      BY Zenon DEF SkipsFollowContext
    <3> QED  BY <2>1, <3>1, <3>2, <3>3, Zenon
  <2> QED  BY <2>2, <2>3, Zenon
<1>13. \A q \in Readers : Snapshot(q)' = Snapshot(q)
  BY <1>10 DEF Snapshot
<1>14. SnapshotStable'
  BY <1>1, <1>6, <1>7, <1>13 DEF SnapshotStable, Loaded, CloseEnded
<1> QED  BY <1>4, <1>5, <1>8, <1>11, <1>12, <1>14, Zenon

-----------------------------------------------------------------------------
(* The steps of load, drop and Close until they hold the lock. *)

(* Opening a file happens outside the lock and touches no shard in the map. *)
LEMMA LoadFileInv ==
  ASSUME SearcherInv, NEW w \in Loads, LoadBegins(w) \/ LoadFails(w) \/ LoadOpens(w)
  PROVE  SearcherInv'
<1> USE DEF SearcherInv
<1>1. /\ cur' = cur /\ waiters' = waiters /\ holders' = holders
      /\ shards' = shards /\ target' = target
      /\ pc' = pc /\ ctx' = ctx /\ task' = task /\ matches' = matches /\ skipped' = skipped
  BY Zenon DEF LoadBegins, LoadFails, LoadOpens, lockVars, callVars
<1>2. w \in Writers /\ w \notin Closes /\ wpc[w] \in {"idle", "loading"}
  BY ShardedSearcherAssumption, Zenon DEF Closes, LoadBegins, LoadFails, LoadOpens
<1>3. PICK to \in {"loading", "done", "loaded"} :
        /\ wpc' = [wpc EXCEPT ![w] = to]
        /\ mapping' = IF to = "loaded" THEN [mapping EXCEPT ![w] = "open"] ELSE mapping
  BY Zenon DEF LoadBegins, LoadFails, LoadOpens
<1>4. \A v \in Writers : wpc'[v] = IF v = w THEN to ELSE wpc[v]
  BY <1>3, Zenon DEF TypeOK
<1>5. \A l \in Loads : mapping'[l] = IF l = w /\ to = "loaded" THEN "open" ELSE mapping[l]
  BY <1>3, Zenon DEF TypeOK
<1>6. LockInv'
  <2>1. [LockNext]_lockVars
    BY <1>1, Zenon DEF lockVars
  <2> QED  BY <2>1, LockStepInv, Zenon
<1>7. TypeOK'
  <2>1. LockTypeOK'
    BY <1>6, Zenon DEF LockInv
  <2> QED  BY <1>1, <1>2, <1>3, <2>1, Zenon DEF TypeOK
<1>8. LockMatchesCalls'
  BY <1>1, <1>2, <1>4 DEF LockMatchesCalls, InLock, Waiting, InFlight
<1>10. w \notin Loaded /\ Loaded \subseteq Loads /\ Loaded' = Loaded
  BY <1>1, <1>2 DEF MapByTarget, Loaded, TypeOK
<1>11. MapByTarget'
  BY <1>1, <1>2, <1>4, ShardedSearcherAssumption DEF MapByTarget, TypeOK
<1>12. CloseEnded' <=> CloseEnded
  BY <1>2, <1>4, Zenon DEF Closes, CloseEnded
<1>13. MappingByProgress'
  <2> SUFFICES ASSUME NEW l \in Loads
               PROVE  /\ wpc'[l] \in {"idle", "loading"} => mapping'[l] = "none"
                      /\ wpc'[l] \in {"loaded", "locking"} => mapping'[l] = "open"
                      /\ mapping'[l] = "open" /\ wpc'[l] = "done" => l \in Loaded'
                      /\ l \in Loaded' => mapping'[l] = "open" \/ CloseEnded'
    BY Zenon DEF MappingByProgress
  <2>1. CASE l = w
    BY <1>2, <1>4, <1>5, <1>10, <2>1, Zenon DEF MappingByProgress
  <2>2. CASE l # w
    <3>1. wpc'[l] = wpc[l] /\ mapping'[l] = mapping[l]
      BY <1>4, <1>5, <2>2, ShardedSearcherAssumption, Zenon
    <3> QED  BY <1>10, <1>12, <3>1, Zenon DEF MappingByProgress
  <2> QED  BY <2>1, <2>2, Zenon
<1>14. SkipsFollowContext'
  BY <1>1, Zenon DEF SkipsFollowContext
<1>15. SnapshotStable'
  <2>1. \A l \in Loads : mapping[l] = "open" => mapping'[l] = "open"
    BY <1>5, Zenon
  <2>2. \A q \in Readers : Snapshot(q)' = Snapshot(q) /\ Snapshot(q) \subseteq Loads
    BY <1>1, Zenon DEF Snapshot
  <2> QED  BY <1>1, <1>10, <1>12, <2>1, <2>2, Zenon DEF SnapshotStable
<1> QED  BY <1>6, <1>7, <1>8, <1>11, <1>13, <1>14, <1>15, Zenon

(* replace and Close enter the lock. *)
LEMMA LockCallInv ==
  ASSUME SearcherInv, NEW w \in Writers, LockCall(w)
  PROVE  SearcherInv'
<1> USE DEF SearcherInv
<1>1. /\ shards' = shards /\ target' = target /\ mapping' = mapping
      /\ pc' = pc /\ ctx' = ctx /\ task' = task /\ matches' = matches /\ skipped' = skipped
      /\ wpc[w] = (IF w \in Loads THEN "loaded" ELSE "idle")
      /\ wpc' = [wpc EXCEPT ![w] = "locking"]
      /\ Acquire(w)
  BY Zenon DEF LockCall, callVars
<1>2. \A v \in Writers : wpc'[v] = IF v = w THEN "locking" ELSE wpc[v]
  BY <1>1, Zenon DEF TypeOK
<1>3. w \in Callers /\ LockNext
  BY <1>1, Zenon DEF Callers, LockNext
<1>4. LockInv'
  BY <1>3, LockStepInv, Zenon
<1>5. InLock' = InLock \cup {w} /\ holders \subseteq holders'
  BY <1>1, <1>3, AcquireMembers, Zenon
<1>6. TypeOK'
  <2>1. LockTypeOK'
    BY <1>4, Zenon DEF LockInv
  <2> QED  BY <1>1, <2>1, Zenon DEF TypeOK
<1>7. LockMatchesCalls'
  <2>1. w \notin Readers
    BY ShardLockAssumption, Zenon
  <2>2. \A r \in Readers : InFlight(r)' <=> InFlight(r)
    BY <1>1, Zenon DEF InFlight
  <2> QED  BY <1>1, <1>2, <1>5, <2>1, <2>2, Zenon DEF LockMatchesCalls
<1>9. Loaded' = Loaded /\ Loaded \subseteq Loads
  BY <1>1 DEF Loaded, TypeOK
<1>10. wpc[w] # "done" /\ w \notin Loaded
  <2>1. wpc[w] # "done"
    BY <1>1, Zenon
  <2> QED  BY <2>1 DEF MapByTarget, Loaded, TypeOK
<1>8. CloseEnded' <=> CloseEnded
  BY <1>2, <1>10, Zenon DEF Closes, CloseEnded
<1>11. MapByTarget'
  <2> SUFFICES ASSUME NEW k \in Keys, shards[k] # NoShard
               PROVE  target[shards[k]] = k /\ wpc'[shards[k]] = "done"
    BY <1>1, Zenon DEF MapByTarget
  <2>1. shards[k] \in Writers /\ shards[k] # w
    BY <1>10, ShardedSearcherAssumption DEF TypeOK, Loaded
  <2> QED  BY <1>2, <2>1, Zenon DEF MapByTarget
<1>12. MappingByProgress'
  <2> SUFFICES ASSUME NEW l \in Loads
               PROVE  /\ wpc'[l] \in {"idle", "loading"} => mapping[l] = "none"
                      /\ wpc'[l] \in {"loaded", "locking"} => mapping[l] = "open"
                      /\ mapping[l] = "open" /\ wpc'[l] = "done" => l \in Loaded
                      /\ l \in Loaded => mapping[l] = "open" \/ CloseEnded'
    BY <1>1, <1>9, Zenon DEF MappingByProgress
  <2>2. l \in Loaded => mapping[l] = "open" \/ CloseEnded'
    BY <1>8, Zenon DEF MappingByProgress
  <2>3. CASE l = w
    BY <1>1, <1>2, <2>2, <2>3 DEF MappingByProgress
  <2>4. CASE l # w
    BY <1>2, <2>2, <2>4, ShardedSearcherAssumption, Zenon DEF MappingByProgress
  <2> QED  BY <2>3, <2>4, Zenon
<1>13. SkipsFollowContext'
  BY <1>1, Zenon DEF SkipsFollowContext
<1>14. SnapshotStable'
  BY <1>1, <1>8, <1>9, Zenon DEF SnapshotStable, Snapshot
<1> QED  BY <1>4, <1>6, <1>7, <1>11, <1>12, <1>13, <1>14, Zenon

-----------------------------------------------------------------------------
(* The steps of load, drop and Close that hold the lock. *)

(* replace and Close run alone: no Search or List is past its getShards. *)
LEMMA UnlockInv ==
  ASSUME SearcherInv, NEW w \in Writers,
         wpc[w] = "locking", w \in holders, Release(w),
         wpc' = [wpc EXCEPT ![w] = "done"],
         UNCHANGED <<callVars, target>>
  PROVE  /\ \A r \in Readers : pc[r] # "searching"
         /\ \A v \in Writers : wpc'[v] = IF v = w THEN "done" ELSE wpc[v]
         /\ LockInv' /\ LockMatchesCalls' /\ SkipsFollowContext'
         /\ SnapshotStable'
<1> USE DEF SearcherInv
<1>1. /\ pc' = pc /\ ctx' = ctx /\ task' = task /\ matches' = matches
      /\ skipped' = skipped /\ target' = target
  BY Zenon DEF callVars
<1>2. \A v \in Writers : wpc'[v] = IF v = w THEN "done" ELSE wpc[v]
  BY Zenon DEF TypeOK
<1>3. \A r \in Readers : pc[r] # "searching"
  BY InvExcludes, ShardLockAssumption DEF WriterExclusive, LockMatchesCalls
<1>4. w \in Callers /\ LockNext
  BY Zenon DEF Callers, LockNext
<1>5. LockInv'
  BY <1>4, LockStepInv, Zenon
<1>6. InLock' = InLock \ {w}
  BY <1>4, ReleaseMembers, Zenon
<1>7. LockMatchesCalls'
  <2>1. w \notin Readers
    BY ShardLockAssumption, Zenon
  <2>2. \A r \in Readers : InFlight(r)' <=> InFlight(r)
    BY <1>1, Zenon DEF InFlight
  <2> QED  BY <1>1, <1>2, <1>3, <1>6, <2>1, <2>2 DEF LockMatchesCalls
<1>9. SkipsFollowContext'
  BY <1>1, Zenon DEF SkipsFollowContext
<1>10. SnapshotStable'
  BY <1>1, <1>3, Zenon DEF SnapshotStable
<1> QED  BY <1>2, <1>3, <1>5, <1>7, <1>9, <1>10, Zenon

(* replace closes the shard it displaces, which no other key serves. *)
LEMMA ReplaceInv ==
  ASSUME SearcherInv, NEW w \in Loads \cup Drops, Replace(w)
  PROVE  SearcherInv'
<1> DEFINE k0 == target[w]
           old == shards[k0]
           new == IF w \in Loads THEN w ELSE NoShard
<1> USE DEF SearcherInv
<1>1. w \in Writers /\ w \notin Closes /\ k0 \in Keys /\ old \in Loads \cup {NoShard}
  BY ShardedSearcherAssumption, Zenon DEF Closes, TypeOK
<1>2. /\ wpc[w] = "locking" /\ w \in holders /\ Release(w)
      /\ wpc' = [wpc EXCEPT ![w] = "done"]
      /\ UNCHANGED <<callVars, target>>
      /\ mapping' = [l \in Loads |-> IF l = old THEN "closed" ELSE mapping[l]]
      /\ shards' = [shards EXCEPT ![k0] = new]
  BY Zenon DEF Replace
<1> HIDE DEF k0, old, new
<1>4. /\ \A v \in Writers : wpc'[v] = IF v = w THEN "done" ELSE wpc[v]
      /\ LockInv' /\ LockMatchesCalls' /\ SkipsFollowContext'
      /\ SnapshotStable'
  BY <1>1, <1>2, UnlockInv, Zenon
<1>3. CloseEnded' <=> CloseEnded
  BY <1>1, <1>4, Zenon DEF CloseEnded, Closes
<1>5. target' = target /\ pc' = pc /\ ctx' = ctx /\ task' = task /\ matches' = matches
      /\ skipped' = skipped
  BY <1>2, Zenon DEF callVars
<1>6. new \in Loads \cup {NoShard}
  BY Zenon DEF new
<1>7. TypeOK'
  <2>1. LockTypeOK'
    BY <1>4, Zenon DEF LockInv
  <2>2. shards' \in [Keys -> Loads \cup {NoShard}]
    BY <1>2, <1>6, Zenon DEF TypeOK
  <2>3. mapping' \in [Loads -> {"none", "open", "closed"}]
    BY <1>2, Zenon DEF TypeOK
  <2> QED  BY <1>2, <1>5, <2>1, <2>2, <2>3, Zenon DEF TypeOK
<1>8. \A k \in Keys : shards'[k] = IF k = k0 THEN new ELSE shards[k]
  BY <1>2, Zenon DEF TypeOK
<1>9. \A l \in Loads : mapping'[l] = IF l = old THEN "closed" ELSE mapping[l]
  BY <1>2, Zenon
<1>10. \A k \in Keys : shards[k] \in Loads \cup {NoShard}
  BY Zenon DEF TypeOK
<1>11. MapByTarget'
  <2> SUFFICES ASSUME NEW k \in Keys, shards'[k] # NoShard
               PROVE  target[shards'[k]] = k /\ wpc'[shards'[k]] = "done"
    BY <1>5, Zenon DEF MapByTarget
  <2>1. CASE k = k0
    <3>1. shards'[k] = w
      BY <1>8, <2>1, Zenon DEF new
    <3> QED  BY <1>1, <1>4, <2>1, <3>1, Zenon DEF k0
  <2>2. CASE k # k0
    <3>1. shards'[k] = shards[k] /\ shards[k] \in Writers
      BY <1>8, <1>10, <2>2, ShardedSearcherAssumption, Zenon
    <3> QED  BY <1>4, <3>1, Zenon DEF MapByTarget
  <2> QED  BY <2>1, <2>2, Zenon
<1>12. MappingByProgress'
  <2> SUFFICES ASSUME NEW l \in Loads
               PROVE  /\ wpc'[l] \in {"idle", "loading"} => mapping'[l] = "none"
                      /\ wpc'[l] \in {"loaded", "locking"} => mapping'[l] = "open"
                      /\ mapping'[l] = "open" /\ wpc'[l] = "done" => l \in Loaded'
                      /\ l \in Loaded' => mapping'[l] = "open" \/ CloseEnded'
    BY Zenon DEF MappingByProgress
  <2>0. l \in Writers /\ l # NoShard
    BY ShardedSearcherAssumption, Zenon
  <2>1. l = old => wpc[l] = "done"
    BY <1>1, <2>0 DEF MapByTarget, old
  <2>2. CASE l = w
    <3>1. l # old /\ mapping'[l] = "open" /\ wpc'[l] = "done"
      BY <1>2, <1>4, <1>9, <2>0, <2>1, <2>2, Zenon DEF MappingByProgress
    <3>2. shards'[k0] = l
      BY <1>1, <1>8, <2>2, Zenon DEF new
    <3>3. l \in Loaded'
      BY <1>1, <2>0, <3>2, Zenon DEF Loaded
    <3> QED  BY <3>1, <3>3, Zenon
  <2>3. CASE l # w /\ l = old
    <3>1. mapping'[l] = "closed" /\ wpc'[l] = "done"
      BY <1>4, <1>9, <2>0, <2>1, <2>3, Zenon
    <3>2. l \notin Loaded'
      <4> SUFFICES ASSUME NEW k \in Keys, shards'[k] = l PROVE FALSE
        BY Zenon DEF Loaded
      <4>1. k # k0
        BY <1>8, <2>0, <2>3, Zenon DEF new
      <4>2. shards[k] = l
        BY <1>8, <4>1, Zenon
      <4>3. target[l] = k /\ target[l] = k0
        BY <1>1, <2>0, <2>3, <4>2, Zenon DEF MapByTarget, old
      <4> QED  BY <4>1, <4>3, Zenon
    <3> QED  BY <3>1, <3>2, Zenon
  <2>4. CASE l # w /\ l # old
    <3>1. wpc'[l] = wpc[l] /\ mapping'[l] = mapping[l]
      BY <1>4, <1>9, <2>0, <2>4, Zenon
    <3>2. l \in Loaded' <=> l \in Loaded
      <4>1. \A k \in Keys : shards'[k] = l <=> shards[k] = l
        BY <1>8, <2>0, <2>4, Zenon DEF new, old
      <4> QED  BY <2>0, <4>1, Zenon DEF Loaded
    <3> QED  BY <1>3, <3>1, <3>2, Zenon DEF MappingByProgress
  <2> QED  BY <2>2, <2>3, <2>4, Zenon
<1> QED  BY <1>4, <1>7, <1>11, <1>12, Zenon

(* Close closes what is in the map; the calls that could see it are over. *)
LEMMA CloseInv ==
  ASSUME SearcherInv, NEW w \in Closes, CloseAll(w)
  PROVE  SearcherInv'
<1> USE DEF SearcherInv
<1>1. w \in Writers /\ w \notin Loads
  BY Zenon DEF Closes
<1>2. /\ wpc[w] = "locking" /\ w \in holders /\ Release(w)
      /\ wpc' = [wpc EXCEPT ![w] = "done"]
      /\ UNCHANGED <<callVars, target>>
      /\ mapping' = [l \in Loads |-> IF l \in Loaded THEN "closed" ELSE mapping[l]]
      /\ shards' = shards
  BY Zenon DEF CloseAll
<1>3. /\ \A v \in Writers : wpc'[v] = IF v = w THEN "done" ELSE wpc[v]
      /\ LockInv' /\ LockMatchesCalls' /\ SkipsFollowContext'
      /\ SnapshotStable'
  BY <1>1, <1>2, UnlockInv, Zenon
<1>4. target' = target /\ pc' = pc /\ ctx' = ctx /\ task' = task /\ matches' = matches
      /\ skipped' = skipped /\ Loaded' = Loaded
  BY <1>2, Zenon DEF callVars, Loaded
<1>5. TypeOK'
  <2>1. LockTypeOK'
    BY <1>3, Zenon DEF LockInv
  <2>2. mapping' \in [Loads -> {"none", "open", "closed"}]
    BY <1>2, Zenon DEF TypeOK
  <2> QED  BY <1>2, <1>4, <2>1, <2>2, Zenon DEF TypeOK
<1>6. MapByTarget'
  <2> SUFFICES ASSUME NEW k \in Keys, shards[k] # NoShard
               PROVE  target[shards[k]] = k /\ wpc'[shards[k]] = "done"
    BY <1>2, <1>4, Zenon DEF MapByTarget
  <2>1. shards[k] \in Writers
    BY ShardedSearcherAssumption, Zenon DEF TypeOK
  <2> QED  BY <1>3, <2>1, Zenon DEF MapByTarget
<1>7. MappingByProgress'
  <2>1. \A l \in Loads : wpc'[l] = wpc[l] /\ mapping'[l] = IF l \in Loaded THEN "closed" ELSE mapping[l]
    BY <1>1, <1>2, <1>3, ShardedSearcherAssumption, Zenon
  <2>2. \A l \in Loaded : wpc[l] = "done"
    BY DEF MapByTarget, Loaded
  <2>3. CloseEnded'
    BY <1>1, <1>3, Zenon DEF CloseEnded
  <2> QED  BY <1>4, <2>1, <2>2, <2>3, Zenon DEF MappingByProgress
<1> QED  BY <1>3, <1>5, <1>6, <1>7, Zenon

-----------------------------------------------------------------------------

LEMMA SearcherInitInv == Init => SearcherInv
<1> SUFFICES ASSUME Init PROVE SearcherInv
  BY Zenon
<1> USE DEF Init
<1>1. LockInv
  BY LockInitInv, Zenon
<1>2. TypeOK
  BY <1>1, Zenon DEF TypeOK, LockInv, TaskState
<1>3. InLock = {} /\ waiters = <<>> /\ holders = {}
  BY DEF LockInit, InLock, Waiting
<1>4. LockMatchesCalls
  BY <1>3, Zenon DEF LockMatchesCalls, InFlight
<1>5. Loaded = {}
  BY Zenon DEF Loaded
<1>6. MapByTarget /\ MappingByProgress
  BY <1>5, ShardedSearcherAssumption, Zenon DEF MapByTarget, MappingByProgress
<1>7. SkipsFollowContext /\ SnapshotStable
  BY Zenon DEF SkipsFollowContext, SnapshotStable
<1> QED  BY <1>1, <1>2, <1>4, <1>6, <1>7, Zenon DEF SearcherInv

LEMMA SearcherStepInv == SearcherInv /\ [Next]_vars => SearcherInv'
<1> SUFFICES ASSUME SearcherInv, [Next]_vars PROVE SearcherInv'
  BY Zenon
<1>1. CASE UNCHANGED vars
  <2>1. /\ cur' = cur /\ waiters' = waiters /\ holders' = holders
        /\ shards' = shards /\ mapping' = mapping /\ wpc' = wpc /\ target' = target
        /\ pc' = pc /\ ctx' = ctx /\ task' = task /\ matches' = matches /\ skipped' = skipped
    BY <1>1, Zenon DEF vars, lockVars, shardVars, callVars
  <2>2. LockInv'
    BY <1>1, LockStepInv, Zenon DEF SearcherInv, vars
  <2>3. TypeOK'
    BY <2>1, <2>2, Zenon DEF SearcherInv, TypeOK, LockInv
  <2>4. LockMatchesCalls'
    BY <2>1 DEF SearcherInv, LockMatchesCalls, InLock, Waiting, InFlight
  <2>5. MapByTarget' /\ MappingByProgress'
    <3>1. MapByTarget /\ MappingByProgress
      BY Zenon DEF SearcherInv
    <3> QED  BY <2>1, <3>1 DEF MapByTarget, MappingByProgress, Loaded, CloseEnded
  <2>6. SkipsFollowContext'
    BY <2>1, Zenon DEF SearcherInv, SkipsFollowContext
  <2>7. SnapshotStable'
    <3>1. SnapshotStable
      BY Zenon DEF SearcherInv
    <3> QED  BY <2>1, <3>1 DEF SnapshotStable, Snapshot, Loaded, CloseEnded
  <2> QED  BY <2>2, <2>3, <2>4, <2>5, <2>6, <2>7, Zenon DEF SearcherInv
<1>2. ASSUME NEW r \in Readers, Call(r) \/ EndContext(r) \/ RlockFails(r) \/ CallSteps(r)
      PROVE  SearcherInv'
  BY <1>2, QuietCallInv, StartCallInv, CallLockInv, Zenon DEF CallSteps
<1>3. ASSUME NEW w \in Loads, LoadBegins(w) \/ LoadFails(w) \/ LoadOpens(w)
      PROVE  SearcherInv'
  BY <1>3, LoadFileInv, Zenon
<1>4. ASSUME NEW w \in Writers, LockCall(w)
      PROVE  SearcherInv'
  BY <1>4, LockCallInv, Zenon
<1>5. ASSUME NEW w \in Loads \cup Drops, Replace(w)
      PROVE  SearcherInv'
  BY <1>5, ReplaceInv, Zenon
<1>6. ASSUME NEW w \in Closes, CloseAll(w)
      PROVE  SearcherInv'
  BY <1>6, CloseInv, Zenon
<1> QED  BY <1>1, <1>2, <1>3, <1>4, <1>5, <1>6, Zenon DEF Next

(* The inductive invariant holds however many searches, loads, drops and     *)
(* keys there are.                                                          *)
LEMMA SearcherAlwaysInv == Spec => []SearcherInv
BY SearcherInitInv, SearcherStepInv, PTL DEF Spec

(* Every variable of the searcher keeps its type, the lock's among them. *)
THEOREM SearcherTypes == Spec => []TypeOK
<1>1. SearcherInv => TypeOK
  BY Zenon DEF SearcherInv
<1> QED  BY <1>1, SearcherAlwaysInv, PTL

(* A Search or List works on the loaded shards; those of them that are not   *)
(* open were closed by a Close that is over.                                *)
THEOREM SearchKeepsShards == Spec => []SnapshotStable
<1>1. SearcherInv => SnapshotStable
  BY Zenon DEF SearcherInv
<1> QED  BY <1>1, SearcherAlwaysInv, PTL

(* Until a Search or List returns, no step of any other call unloads or      *)
(* closes a shard it works on: replace, drop and Close have the lock to     *)
(* themselves, and load opens files nobody has seen yet.                    *)
THEOREM CallsKeepShards == Spec => NothingClosedUnderCall
<1>1. SearcherInv /\ [Next]_vars => [KeepsShardsOfCalls]_vars
  <2> SUFFICES ASSUME SearcherInv, Next,
                      NEW r \in Readers, pc[r] = "searching"
               PROVE  /\ Loaded' = Loaded
                      /\ \A s \in Snapshot(r) : mapping'[s] = mapping[s]
    BY Zenon DEF KeepsShardsOfCalls
  <2>1. CASE shards' = shards /\ mapping' = mapping
    BY <2>1, Zenon DEF Loaded
  <2>2. ASSUME NEW w \in Loads, LoadOpens(w)
        PROVE  /\ Loaded' = Loaded
               /\ \A s \in Snapshot(r) : mapping'[s] = mapping[s]
    <3>1. /\ wpc[w] = "loading" /\ shards' = shards
          /\ mapping' = [mapping EXCEPT ![w] = "open"]
      BY <2>2, Zenon DEF LoadOpens
    <3>2. w \notin Loaded
      BY <3>1 DEF SearcherInv, MapByTarget, Loaded
    <3>3. Snapshot(r) = Loaded /\ Snapshot(r) \subseteq Loads
      BY Zenon DEF SearcherInv, SnapshotStable, Snapshot
    <3>4. \A s \in Loads : s # w => mapping'[s] = mapping[s]
      BY <3>1, Zenon DEF SearcherInv, TypeOK
    <3> QED  BY <3>1, <3>2, <3>3, <3>4, Zenon DEF Loaded
  <2>3. ASSUME NEW w \in Writers, w \in holders
        PROVE  FALSE
    BY <2>3, InvExcludes, ShardLockAssumption
       DEF WriterExclusive, SearcherInv, LockMatchesCalls
  <2>4. ASSUME NEW q \in Readers, Call(q) \/ EndContext(q) \/ RlockFails(q) \/ CallSteps(q)
        PROVE  shards' = shards /\ mapping' = mapping
    BY <2>4, Zenon DEF Call, EndContext, RlockFails, CallSteps, StartCall, WorkerTakes,
                       WorkerSends, Collect, CollectError, Return, shardVars
  <2>5. ASSUME NEW w \in Writers, LoadBegins(w) \/ LoadFails(w) \/ LockCall(w)
        PROVE  shards' = shards /\ mapping' = mapping
    BY <2>5, Zenon DEF LoadBegins, LoadFails, LockCall
  <2>6. ASSUME NEW w \in Loads \cup Drops, Replace(w)
        PROVE  FALSE
    BY <2>3, <2>6, ShardedSearcherAssumption, Zenon DEF Replace
  <2>7. ASSUME NEW w \in Closes, CloseAll(w)
        PROVE  FALSE
    BY <2>3, <2>7, Zenon DEF CloseAll, Closes
  <2> QED  BY <2>1, <2>2, <2>4, <2>5, <2>6, <2>7, ShardedSearcherAssumption, Zenon DEF Next
<1> QED  BY <1>1, SearcherAlwaysInv, PTL DEF Spec, NothingClosedUnderCall

(* replace and drop close every mapping they take out of the map, and a load *)
(* that opened one puts it there.                                           *)
THEOREM ReplaceLeaksNothing == Spec => []NoMappingLeak
<1>1. SearcherInv => NoMappingLeak
  <2> SUFFICES ASSUME SearcherInv, NEW l \in Loads, mapping[l] = "open"
               PROVE  l \in Loaded \/ wpc[l] \in {"loaded", "locking"}
    BY Zenon DEF NoMappingLeak
  <2>1. wpc[l] \in {"idle", "loading", "loaded", "locking", "done"}
    BY ShardedSearcherAssumption, Zenon DEF SearcherInv, TypeOK
  <2> QED  BY <2>1, Zenon DEF SearcherInv, MappingByProgress
<1> QED  BY <1>1, SearcherAlwaysInv, PTL

(* A Search that returns has heard of every shard, and says so when it       *)
(* skipped some.                                                            *)
THEOREM SearchAccounts == Spec => []ResultAccounted
<1>1. SearcherInv => ResultAccounted
  <2> SUFFICES ASSUME SearcherInv, NEW r \in Searches, pc[r] = "returned"
               PROVE  /\ \A s \in Snapshot(r) : task[r][s] = "received"
                      /\ skipped[r] /\ ctx[r] # "ended" => matches[r] > TotalMax
    BY Zenon DEF ResultAccounted
  <2>1. r \in Readers /\ ctx[r] \in {"live", "limit", "ended"}
    BY ShardedSearcherAssumption, Zenon DEF SearcherInv, TypeOK
  <2> QED  BY <2>1, Zenon DEF SearcherInv, SkipsFollowContext, Snapshot
<1> QED  BY <1>1, SearcherAlwaysInv, PTL

(* What replace and drop do to the workers of a search. *)
OpenUntilClose ==
  \A r \in Searches, s \in Loads :
    task[r][s] = "running" => mapping[s] = "open" \/ CloseEnded

(* Where no shard's search ends in an error, replace and drop never close a  *)
(* shard that a worker of Search is busy with: a worker finds its shard     *)
(* closed only if a Close is over, which the comment on the critical        *)
(* section of Search does not mention either.                               *)
THEOREM NoUseAfterReplace ==
  ASSUME "err" \notin ShardOutcomes
  PROVE  Spec => []OpenUntilClose
<1>0. Init => /\ pc = [r \in Readers |-> "idle"]
              /\ task = [r \in Readers |-> [s \in Loads |-> "none"]]
  BY Zenon DEF Init
<1> DEFINE NoErr == \A r \in Readers : pc[r] # "failed" /\ \A s \in Loads : task[r][s] # "err"
           Both == SearcherInv /\ NoErr
<1>1. Init => Both
  <2> SUFFICES ASSUME Init PROVE NoErr
    BY SearcherInitInv, Zenon
  <2> QED  BY <1>0, Zenon
<1>2. Both /\ [Next]_vars => Both'
  <2> SUFFICES ASSUME Both, [Next]_vars PROVE NoErr'
    BY SearcherStepInv, Zenon
  <2>0. TypeOK
    BY Zenon DEF SearcherInv
  <2>1. CASE UNCHANGED vars
    BY <2>1, Zenon DEF vars, callVars
  <2>2. ASSUME NEW r \in Readers, Call(r) \/ EndContext(r) \/ RlockFails(r) \/ Return(r)
        PROVE  NoErr'
    BY <2>0, <2>2 DEF Call, EndContext, RlockFails, Return, TypeOK
  <2>3. ASSUME NEW r \in Readers, StartCall(r)
        PROVE  NoErr'
    BY <2>0, <2>3, Zenon DEF StartCall, TypeOK
  <2>4. ASSUME NEW r \in Readers, NEW s \in Loads, WorkerTakes(r, s)
        PROVE  NoErr'
    BY <2>0, <2>4, Zenon DEF WorkerTakes, TypeOK
  <2>5. ASSUME NEW r \in Readers, NEW s \in Loads, WorkerSends(r, s)
        PROVE  NoErr'
    <3>1. PICK res \in ShardOutcomes : task' = [task EXCEPT ![r][s] = res]
      BY <2>5, Zenon DEF WorkerSends
    <3>2. pc' = pc /\ res # "err"
      BY <2>5, Zenon DEF WorkerSends
    <3> QED  BY <2>0, <3>1, <3>2, Zenon DEF TypeOK
  <2>6. ASSUME NEW r \in Readers, NEW s \in Loads, Collect(r, s) \/ CollectError(r, s)
        PROVE  NoErr'
    <3>1. task' = [task EXCEPT ![r][s] = "received"] /\ pc' = pc
      BY <2>6, Zenon DEF Collect, CollectError
    <3> QED  BY <2>0, <3>1, Zenon DEF TypeOK
  <2>7. ASSUME UNCHANGED callVars
        PROVE  NoErr'
    BY <2>7, Zenon DEF callVars
  <2>8. CASE \/ \E w \in Loads : LoadBegins(w) \/ LoadFails(w) \/ LoadOpens(w)
             \/ \E w \in Writers : LockCall(w)
             \/ \E w \in Loads \cup Drops : Replace(w)
             \/ \E w \in Closes : CloseAll(w)
    BY <2>7, <2>8, Zenon DEF LoadBegins, LoadFails, LoadOpens, LockCall, Replace, CloseAll
  <2> QED  BY <2>1, <2>2, <2>3, <2>4, <2>5, <2>6, <2>8, Zenon DEF Next, CallSteps
<1>3. Both => OpenUntilClose
  <2> SUFFICES ASSUME Both, NEW r \in Searches, NEW s \in Loads, task[r][s] = "running"
               PROVE  mapping[s] = "open" \/ CloseEnded
    BY Zenon DEF OpenUntilClose
  <2>1. r \in Readers
    BY ShardedSearcherAssumption, Zenon
  <2>2. pc[r] = "searching"
    BY <2>1, Zenon DEF SearcherInv, TypeOK, SkipsFollowContext
  <2>3. s \in Snapshot(r)
    BY Zenon DEF Snapshot
  <2> QED  BY <2>1, <2>2, <2>3, Zenon DEF SearcherInv, SnapshotStable
<1> QED  BY <1>1, <1>2, <1>3, PTL DEF Spec
=============================================================================
