--------------------------- MODULE Serving_proofs ---------------------------
(***************************************************************************)
(* Proofs about three parts of a serving process: the watcher of the index *)
(* directory, the client that calls the process over a connection it may   *)
(* lose, and the loop over the documents of a shard.                       *)
(***************************************************************************)
EXTENDS DirectoryWatcher, RpcClient, SearchLoop, FiniteSetTheorems, SequenceTheorems, TLAPS

-----------------------------------------------------------------------------
(***************************************************************************)
(* DirectoryWatcher: any number of files, changes and clock values.        *)
(***************************************************************************)
mtimeOf(f) == IF f = NoFile THEN -1 ELSE f.mtime

\* Nothing has changed since the last Glob.
Unchanged == ~unseen /\ events = 0

(***************************************************************************)
(* Times never run backwards: what a scan saw, and what was loaded, is no  *)
(* newer than what is on disk.                                             *)
(***************************************************************************)
TimesOrdered(k) ==
  /\ ts[k] <= clock /\ timestamps[k] <= clock
  /\ disk[k] # NoFile => /\ disk[k].mtime <= clock
                         /\ ts[k] <= disk[k].mtime
                         /\ timestamps[k] <= disk[k].mtime
  /\ served[k] # NoFile => /\ served[k].mtime <= clock
                           /\ disk[k] # NoFile => served[k].mtime <= disk[k].mtime

\* A timestamp stands for a load that was made, or failed, or is to be made.
LoadsNoted(k) ==
  /\ k \in toDrop => timestamps[k] = -1 /\ called[k] = "load"
  /\ k \in toLoad => timestamps[k] # -1
  /\ timestamps[k] # -1 /\ k \notin toLoad =>
       /\ called[k] = "load"
       /\ k \in failed \/ (served[k] # NoFile /\ served[k].mtime >= timestamps[k])
  /\ timestamps[k] = -1 /\ k \notin toDrop => served[k] = NoFile

\* What a scan has seen is true until something changes.
SeenTrue(k) ==
  Unchanged =>
    /\ phase = "stat" => IF k \in names THEN disk[k] # NoFile ELSE ts[k] = mtimeOf(disk[k])
    /\ phase \in {"load", "idle"} => timestamps[k] = mtimeOf(disk[k])

WatchInv ==
  /\ WatchTypeOK
  /\ events <= changes
  /\ phase # "load" => toDrop = {} /\ toLoad = {}
  /\ \A k \in Keys : TimesOrdered(k) /\ LoadsNoted(k) /\ SeenTrue(k)

-----------------------------------------------------------------------------

\* A file on disk, or one that is served, has a modification time.
LEMMA FilesHaveTimes ==
  ASSUME WatchTypeOK, NEW k \in Keys
  PROVE  /\ disk[k] = NoFile \/ (disk[k] \in Files /\ disk[k].mtime \in 0..MaxTime)
         /\ served[k] = NoFile \/ (served[k] \in Files /\ served[k].mtime \in 0..MaxTime)
         /\ ts[k] \in -1..MaxTime /\ timestamps[k] \in -1..MaxTime
         /\ clock \in 0..MaxTime /\ mtimeOf(disk[k]) \in -1..MaxTime
  BY DirectoryWatcherAssumption DEF WatchTypeOK, Files, mtimeOf

LEMMA WatchInitInv == WatchInit => WatchInv
<1> SUFFICES ASSUME WatchInit PROVE WatchInv
  OBVIOUS
<1>1. watching \in BOOLEAN /\ quit \in BOOLEAN /\ unseen \in BOOLEAN
  BY Zenon DEF WatchInit
<1>2. /\ changes \in 0..MaxChanges /\ events \in 0..MaxChanges /\ clock \in 0..MaxTime
      /\ ts \in [Keys -> -1..MaxTime] /\ timestamps \in [Keys -> -1..MaxTime]
  BY DirectoryWatcherAssumption DEF WatchInit
<1>3. WatchTypeOK
  BY <1>1, <1>2 DEF WatchInit, WatchTypeOK
<1>4. ASSUME NEW k \in Keys PROVE TimesOrdered(k) /\ LoadsNoted(k) /\ SeenTrue(k)
  BY DEF WatchInit, TimesOrdered, LoadsNoted, SeenTrue
<1> QED  BY <1>2, <1>3, <1>4 DEF WatchInit, WatchInv

LEMMA TickInv ==
  ASSUME WatchInv, Tick
  PROVE  WatchInv'
<1> USE DEF Tick, scanVars, loaderVars
<1>1. WatchTypeOK' /\ events' <= changes' /\ (phase' # "load" => toDrop' = {} /\ toLoad' = {})
  BY DirectoryWatcherAssumption DEF WatchInv, WatchTypeOK
<1>2. ASSUME NEW k \in Keys PROVE TimesOrdered(k)' /\ LoadsNoted(k)' /\ SeenTrue(k)'
  <2>1. TimesOrdered(k)'
    BY FilesHaveTimes, DirectoryWatcherAssumption DEF WatchInv, TimesOrdered
  <2> QED  BY <2>1 DEF WatchInv, LoadsNoted, SeenTrue, Unchanged, mtimeOf
<1> QED  BY <1>1, <1>2 DEF WatchInv

(* A change is an event if the directory is watched, and unseen otherwise;    *)
(* the new file is at least as new as anything seen or served.               *)
LEMMA ChangeInv ==
  ASSUME WatchInv, NEW c \in Keys, Change(c)
  PROVE  WatchInv'
<1> USE DEF Change, scanVars, loaderVars
<1>1. disk' \in [Keys -> Files \cup {NoFile}]
  BY DirectoryWatcherAssumption DEF WatchInv, WatchTypeOK, Files
<1>2. /\ changes' \in 0..MaxChanges /\ events' \in 0..MaxChanges
      /\ events' <= changes' /\ unseen' \in BOOLEAN
  BY DirectoryWatcherAssumption DEF WatchInv, WatchTypeOK
<1>3. WatchTypeOK'
  BY <1>1, <1>2 DEF WatchInv, WatchTypeOK
<1>4. ~Unchanged'
  <2>1. CASE watching
    BY <2>1, DirectoryWatcherAssumption DEF Unchanged, WatchInv, WatchTypeOK
  <2>2. CASE ~watching
    BY <2>2 DEF Unchanged
  <2> QED  BY <2>1, <2>2
<1>5. ASSUME NEW k \in Keys PROVE TimesOrdered(k)' /\ LoadsNoted(k)'
  <2>1. disk'[k] = disk[k] \/ disk'[k] = NoFile \/ disk'[k].mtime = clock
    BY DEF WatchInv, WatchTypeOK
  <2>2. TimesOrdered(k)'
    BY <2>1, FilesHaveTimes, DirectoryWatcherAssumption DEF WatchInv, TimesOrdered
  <2> QED  BY <2>2 DEF WatchInv, LoadsNoted
<1> QED  BY <1>2, <1>3, <1>4, <1>5 DEF WatchInv, SeenTrue

\* A scan begins, with nothing loading or to be dropped.
LEMMA GlobInv ==
  ASSUME WatchInv, FirstScan \/ OnEvent
  PROVE  WatchInv'
<1> USE DEF FirstScan, OnEvent, Glob, dirVars, loaderVars
<1>1. events' \in 0..MaxChanges /\ events' <= changes'
  BY DirectoryWatcherAssumption DEF WatchInv, WatchTypeOK
<1>2. WatchTypeOK'
  <2>1. names' \in SUBSET Keys /\ ts' \in [Keys -> -1..MaxTime]
    BY DirectoryWatcherAssumption DEF Present
  <2>2. unseen' \in BOOLEAN
    BY Zenon
  <2> QED  BY <1>1, <2>1, <2>2 DEF WatchInv, WatchTypeOK
<1>3. ASSUME NEW k \in Keys PROVE TimesOrdered(k)' /\ LoadsNoted(k)' /\ SeenTrue(k)'
  <2>1. TimesOrdered(k)'
    BY FilesHaveTimes, DirectoryWatcherAssumption DEF WatchInv, TimesOrdered
  <2>2. LoadsNoted(k)'
    BY DEF WatchInv, LoadsNoted
  <2>3. SeenTrue(k)'
    BY DEF SeenTrue, Present, mtimeOf
  <2> QED  BY <2>1, <2>2, <2>3
<1> QED  BY <1>1, <1>2, <1>3 DEF WatchInv

LEMMA StatInv ==
  ASSUME WatchInv, NEW c \in Keys, Stat(c)
  PROVE  WatchInv'
<1> USE DEF Stat, dirVars, loaderVars
<1>1. WatchTypeOK'
  BY FilesHaveTimes, DirectoryWatcherAssumption DEF WatchInv, WatchTypeOK
<1>2. ASSUME NEW k \in Keys PROVE TimesOrdered(k)' /\ LoadsNoted(k)' /\ SeenTrue(k)'
  <2>1. ts'[k] = IF k = c THEN mtimeOf(disk[c]) ELSE ts[k]
    BY DEF WatchInv, WatchTypeOK, mtimeOf
  <2>2. TimesOrdered(k)'
    BY <2>1, FilesHaveTimes, DirectoryWatcherAssumption, SMTT(30) DEF WatchInv, TimesOrdered, mtimeOf
  <2>3. LoadsNoted(k)'
    BY DEF WatchInv, LoadsNoted
  <2>4. SeenTrue(k)'
    BY <2>1 DEF WatchInv, SeenTrue, Unchanged, mtimeOf
  <2> QED  BY <2>2, <2>3, <2>4
<1> QED  BY <1>1, <1>2 DEF WatchInv

\* A file that is no longer there had been loaded; one with a new time is to be.
LEMMA DiffInv ==
  ASSUME WatchInv, Diff
  PROVE  WatchInv'
<1> USE DEF Diff, dirVars, loaderVars
<1>1. WatchTypeOK'
  BY DEF WatchInv, WatchTypeOK
<1>2. ASSUME NEW k \in Keys PROVE TimesOrdered(k)' /\ LoadsNoted(k)' /\ SeenTrue(k)'
  <2>1. TimesOrdered(k)'
    BY DEF WatchInv, TimesOrdered
  <2>2. LoadsNoted(k)'
    BY DEF WatchInv, LoadsNoted, Differs
  <2>3. SeenTrue(k)'
    BY DEF WatchInv, SeenTrue, Unchanged, mtimeOf
  <2> QED  BY <2>1, <2>2, <2>3
<1> QED  BY <1>1, <1>2 DEF WatchInv

LEMMA DropInv ==
  ASSUME WatchInv, NEW c \in Keys, Drop(c)
  PROVE  WatchInv'
<1> USE DEF Drop, dirVars
<1>1. WatchTypeOK'
  BY DEF WatchInv, WatchTypeOK
<1>2. ASSUME NEW k \in Keys PROVE TimesOrdered(k)' /\ LoadsNoted(k)' /\ SeenTrue(k)'
  <2>1. /\ served'[k] = IF k = c THEN NoFile ELSE served[k]
        /\ called'[k] = IF k = c THEN "drop" ELSE called[k]
    BY DEF WatchInv, WatchTypeOK
  <2>2. TimesOrdered(k)'
    BY <2>1 DEF WatchInv, TimesOrdered
  <2>3. LoadsNoted(k)'
    BY <2>1 DEF WatchInv, LoadsNoted
  <2>4. SeenTrue(k)'
    BY DEF WatchInv, SeenTrue, Unchanged, mtimeOf
  <2> QED  BY <2>2, <2>3, <2>4
<1> QED  BY <1>1, <1>2 DEF WatchInv

\* What a load finds on disk is no older than what the scan saw.
LEMMA LoadInv ==
  ASSUME WatchInv, NEW c \in Keys, Load(c)
  PROVE  WatchInv'
<1> USE DEF Load, dirVars
<1>1. WatchTypeOK'
  BY DEF WatchInv, WatchTypeOK
<1>2. ASSUME NEW k \in Keys PROVE TimesOrdered(k)' /\ LoadsNoted(k)' /\ SeenTrue(k)'
  <2>1. /\ called'[k] = IF k = c THEN "load" ELSE called[k]
        /\ k # c => served'[k] = served[k] /\ (k \in failed' <=> k \in failed)
    BY DEF WatchInv, WatchTypeOK
  <2>2. \/ c \in failed' /\ served'[c] = served[c]
        \/ disk[c] # NoFile /\ served'[c] = disk[c]
    BY DEF WatchInv, WatchTypeOK
  <2>3. TimesOrdered(k)'
    <3>1. WatchTypeOK /\ TimesOrdered(k) /\ UNCHANGED <<clock, disk, ts, timestamps>>
      BY Zenon DEF WatchInv
    <3>2. CASE k = c
      BY <2>2, <3>1, <3>2, FilesHaveTimes DEF TimesOrdered
    <3>3. CASE k # c
      BY <2>1, <3>1, <3>3 DEF TimesOrdered
    <3> QED  BY <3>2, <3>3
  <2>4. LoadsNoted(k)'
    BY <2>1, <2>2, FilesHaveTimes, DirectoryWatcherAssumption DEF WatchInv, TimesOrdered, LoadsNoted
  <2>5. SeenTrue(k)'
    BY DEF WatchInv, SeenTrue, Unchanged, mtimeOf
  <2> QED  BY <2>3, <2>4, <2>5
<1> QED  BY <1>1, <1>2 DEF WatchInv

\* The scan ends or the watcher stops; the loader is left alone.
LEMMA RestInv ==
  ASSUME WatchInv, ScanEnds \/ WatchFails \/ CloseWatcher \/ OnQuit
  PROVE  WatchInv'
<1> USE DEF ScanEnds, WatchFails, CloseWatcher, OnQuit, dirVars, scanVars, loaderVars
<1>1. /\ events' \in 0..MaxChanges /\ events' <= changes'
      /\ phase' # "load" => toDrop' = {} /\ toLoad' = {}
  BY DirectoryWatcherAssumption DEF WatchInv, WatchTypeOK
<1>2. WatchTypeOK'
  <2>1. watching' \in BOOLEAN /\ quit' \in BOOLEAN /\ unseen' \in BOOLEAN
    BY Zenon DEF WatchInv, WatchTypeOK
  <2> QED  BY <1>1, <2>1 DEF WatchInv, WatchTypeOK
<1>3. ASSUME NEW k \in Keys PROVE TimesOrdered(k)' /\ LoadsNoted(k)' /\ SeenTrue(k)'
  <2>1. TimesOrdered(k)' /\ LoadsNoted(k)'
    BY DEF WatchInv, TimesOrdered, LoadsNoted
  <2>2. SeenTrue(k)'
    <3>1. UNCHANGED <<disk, names, ts, timestamps>> /\ SeenTrue(k)
      BY Zenon DEF WatchInv
    <3>2. phase' # "stopped" => phase' = phase \/ (phase' = "idle" /\ phase = "load")
      BY Zenon
    <3>3. phase' # "stopped" /\ Unchanged' => Unchanged
      BY Zenon DEF Unchanged
    <3> HIDE DEF ScanEnds, WatchFails, CloseWatcher, OnQuit, dirVars, scanVars, loaderVars
    <3> QED  BY <3>1, <3>2, <3>3 DEF SeenTrue, mtimeOf
  <2> QED  BY <2>1, <2>2
<1> QED  BY <1>1, <1>2, <1>3 DEF WatchInv

LEMMA WatchStepInv == WatchInv /\ [WatchNext]_watchVars => WatchInv'
<1> SUFFICES ASSUME WatchInv, [WatchNext]_watchVars PROVE WatchInv'
  OBVIOUS
<1>1. CASE UNCHANGED watchVars
  BY <1>1, SMTT(30) DEF watchVars, dirVars, scanVars, loaderVars, WatchInv, WatchTypeOK, TimesOrdered, LoadsNoted, SeenTrue, Unchanged, mtimeOf
<1>2. CASE Tick
  BY <1>2, TickInv
<1>3. CASE \E k \in Keys : Change(k)
  BY <1>3, ChangeInv
<1>4. CASE ScanSteps
  BY <1>4, GlobInv, StatInv, DiffInv, DropInv, LoadInv, RestInv DEF ScanSteps
<1>5. CASE CloseWatcher
  BY <1>5, RestInv
<1> QED  BY <1>1, <1>2, <1>3, <1>4, <1>5 DEF WatchNext

(* scan keeps every variable in its type: timestamps of files that were      *)
(* there, and sets of keys.                                                 *)
THEOREM WatchTypes == WatchSpec => []WatchTypeOK
<1>1. WatchInv => WatchTypeOK
  BY DEF WatchInv
<1> QED  BY <1>1, WatchInitInv, WatchStepInv, PTL DEF WatchSpec

(* scan keeps its bookkeeping: a key is dropped only after it was loaded and *)
(* once for each time it was.                                               *)
THEOREM DropsAreOfLoads == WatchSpec => []DropsFollowLoads
<1>1. WatchInv => DropsFollowLoads
  BY DEF WatchInv, WatchTypeOK, LoadsNoted, DropsFollowLoads
<1> QED  BY <1>1, WatchInitInv, WatchStepInv, PTL DEF WatchSpec

(* When the watcher of scan and its event loop is at rest, the loader serves *)
(* what is on disk, up to failed loads and equal timestamps.                *)
THEOREM RestIsCurrent == WatchSpec => []QuietMeansCurrent
<1>1. WatchInv => QuietMeansCurrent
  <2> SUFFICES ASSUME WatchInv, Quiet, NEW k \in Keys
               PROVE  \/ served[k] = disk[k]
                      \/ k \in failed /\ disk[k] # NoFile
                      \/ disk[k] # NoFile /\ served[k] # NoFile /\ served[k].mtime = disk[k].mtime
    BY DEF QuietMeansCurrent
  <2>1. timestamps[k] = mtimeOf(disk[k]) /\ toLoad = {} /\ toDrop = {}
    BY DEF Quiet, WatchInv, SeenTrue, Unchanged
  <2>2. CASE disk[k] = NoFile
    BY <2>1, <2>2 DEF WatchInv, LoadsNoted, mtimeOf
  <2>3. CASE disk[k] # NoFile
    BY <2>1, <2>3, FilesHaveTimes, DirectoryWatcherAssumption DEF WatchInv, LoadsNoted, TimesOrdered, mtimeOf
  <2> QED  BY <2>2, <2>3
<1> QED  BY <1>1, WatchInitInv, WatchStepInv, PTL DEF WatchSpec

-----------------------------------------------------------------------------
(***************************************************************************)
(* RpcClient: any number of callers and faults.                            *)
(***************************************************************************)
(***************************************************************************)
(* A step of p that leaves the connections and their generation alone      *)
(* keeps what the other callers rely on, as long as p keeps out of their   *)
(* variables and takes the lock from none of them.                         *)
(***************************************************************************)
OthersKept(p) ==
  /\ UNCHANGED <<cl, gen, conns>>
  /\ \A o \in Callers \ {p} :
       /\ pc'[o] = pc[o] /\ try'[o] = try[o] /\ used'[o] = used[o]
       /\ outcome'[o] = outcome[o] /\ (o \in met' <=> o \in met)
       /\ mu = o => mu' = o

LEMMA OthersKeptInv ==
  ASSUME NEW p \in Callers, IInv, OthersKept(p), NEW o \in Callers \ {p}
  PROVE  CallerInv(o)'
BY DEF IInv, OthersKept, CallerInv, TryingAgain, Calling, Dead

(* Begin, which getRPCClient and Call have not touched yet. *)
LEMMA BeginInv ==
  ASSUME NEW p \in Callers, IInv, Begin(p)
  PROVE  IInv'
<1>1. TypeOK'
  BY DEF IInv, TypeOK, Begin, GoTo
<1>2. OthersKept(p)
  BY DEF IInv, TypeOK, Begin, GoTo, OthersKept
<1>3. CallerInv(p)'
  BY SMTT(30) DEF IInv, TypeOK, CallerInv, Begin, GoTo, TryingAgain, Calling, Dead
<1> QED  BY <1>1, <1>2, <1>3, OthersKeptInv DEF IInv, Begin

(* Lock, which only a caller that waits for the mutex takes. *)
LEMMA LockInv ==
  ASSUME NEW p \in Callers, IInv, Lock(p)
  PROVE  IInv'
<1>1. TypeOK'
  BY DEF IInv, TypeOK, Lock, GoTo
<1>2. OthersKept(p)
  BY CallersAssumption DEF IInv, TypeOK, Lock, GoTo, OthersKept, free
<1>3. CallerInv(p)'
  BY DEF IInv, TypeOK, CallerInv, Lock, GoTo, TryingAgain, Calling, Dead
<1> QED  BY <1>1, <1>2, <1>3, OthersKeptInv DEF IInv, Lock

(* GetCurrent: a connection newer than the one that failed was dialed during the call. *)
LEMMA GetCurrentInv ==
  ASSUME NEW p \in Callers, IInv, GetCurrent(p)
  PROVE  IInv'
<1>1. TypeOK'
  BY DEF IInv, TypeOK, GetCurrent, GoTo, mustDial, staleGen, free
<1>2. OthersKept(p)
  BY CallersAssumption DEF IInv, TypeOK, GetCurrent, GoTo, mustDial, staleGen, OthersKept, free
<1>3. CallerInv(p)'
  BY SMTT(30) DEF IInv, TypeOK, CallerInv, GetCurrent, GoTo, mustDial, staleGen, free, TryingAgain, Calling, Dead
<1> QED  BY <1>1, <1>2, <1>3, OthersKeptInv DEF IInv, GetCurrent

(* DialFails: on the first try there was no connection at all. *)
LEMMA DialFailsInv ==
  ASSUME NEW p \in Callers, IInv, DialFails(p)
  PROVE  IInv'
<1>1. TypeOK'
  <2>1. mu' \in Callers \cup {free} /\ UNCHANGED <<cl, gen, conns, try>>
    BY DEF DialFails
  <2>2. used' \in [Callers -> [cl : Nat, gen : Nat]]
    <3>1. used' = [used EXCEPT ![p] = [cl |-> 0, gen |-> gen]]
      BY DEF DialFails
    <3>2. [cl |-> 0, gen |-> gen] \in [cl : Nat, gen : Nat]
      BY DEF IInv, TypeOK
    <3> QED  BY <3>1, <3>2 DEF IInv, TypeOK
  <2>3. pc' \in [Callers -> {"idle", "lock", "get", "send", "pending", "wait"}]
    <3>1. pc' = [pc EXCEPT ![p] = "wait"] \/ pc' = [pc EXCEPT ![p] = "idle"]
      BY DEF DialFails, GoTo, Return
    <3> QED  BY <3>1, Zenon DEF IInv, TypeOK
  <2>4. outcome' \in [Callers -> {"none", "reply", "failed", "ctx"}]
    <3>1. outcome' = outcome \/ outcome' = [outcome EXCEPT ![p] = "failed"]
      BY DEF DialFails, GoTo, Return
    <3> QED  BY <3>1, Zenon DEF IInv, TypeOK
  <2>5. faults' \in Nat /\ met' \subseteq Callers
    BY DEF IInv, TypeOK, DialFails, Fault, Noticed
  <2> QED  BY <2>1, <2>2, <2>3, <2>4, <2>5, SMTT(30) DEF IInv, TypeOK
<1>2. OthersKept(p)
  BY CallersAssumption DEF IInv, TypeOK, DialFails, GoTo, Return, Fault, Noticed, mustDial, staleGen, OthersKept, free
<1>3. CallerInv(p)'
  <2>1. /\ pc'[p] \in {"wait", "idle"} /\ used'[p] = [cl |-> 0, gen |-> gen]
        /\ p \in met' /\ gen' = gen /\ gen \in Nat /\ conns' = conns
    BY DEF IInv, TypeOK, DialFails, GoTo, Return, Noticed
  <2>2. gen = 0 \/ Dead(gen)
    BY DEF IInv, TypeOK, CallerInv, DialFails, mustDial, staleGen, TryingAgain, Dead
  <2> QED  BY <2>1, <2>2, SMTT(30) DEF CallerInv, TryingAgain, Calling, Dead
<1> QED  BY <1>1, <1>2, <1>3, OthersKeptInv DEF IInv, DialFails

(* Send, which meets a dead connection on the second try only by a new fault. *)
LEMMA SendInv ==
  ASSUME NEW p \in Callers, IInv, Send(p)
  PROVE  IInv'
<1>1. TypeOK'
  BY Zenon DEF IInv, TypeOK, Send, GoTo, Return, Dead
<1>2. OthersKept(p)
  BY CallersAssumption DEF IInv, TypeOK, Send, GoTo, Return, Dead, OthersKept, free
<1>3. CallerInv(p)'
  <2>1. /\ CallerInv(p) /\ pc[p] = "send" /\ gen \in Nat /\ try[p] \in 1..2 /\ used[p] \in [cl : Nat, gen : Nat]
        /\ UNCHANGED <<gen, conns, try, used, met>>
    BY DEF IInv, TypeOK, Send
  <2>2. \/ pc'[p] = "pending" /\ outcome'[p] = outcome[p] /\ ~Dead(used[p].cl)
        \/ pc'[p] = "wait" /\ outcome'[p] = outcome[p] /\ Dead(used[p].cl)
        \/ pc'[p] = "idle" /\ try[p] # 1 /\ Dead(used[p].cl)
    BY DEF IInv, TypeOK, Send, GoTo, Return
  <2>3. used[p].gen <= gen /\ used[p].cl = used[p].gen /\ used[p].gen > 0
    BY <2>1, Zenon DEF CallerInv, Calling
  <2>4. \A i \in 1..gen : i > used[p].gen /\ Dead(i) => p \in met
    BY <2>1, Zenon DEF CallerInv, Calling
  <2>5. (try[p] # 1 /\ Dead(used[p].cl) => p \in met) /\ (outcome[p] = "failed" => p \in met)
    <3>1. try[p] # 1 => try[p] = 2
      BY <2>1
    <3> QED  BY <2>1, <3>1, Zenon DEF CallerInv
  <2>6. CASE pc'[p] = "pending" /\ outcome'[p] = outcome[p] /\ ~Dead(used[p].cl)
    BY <2>1, <2>3, <2>4, <2>5, <2>6, Zenon DEF CallerInv, TryingAgain, Calling, Dead
  <2>7. CASE pc'[p] = "wait" /\ outcome'[p] = outcome[p] /\ Dead(used[p].cl)
    BY <2>1, <2>3, <2>4, <2>5, <2>7, Zenon DEF CallerInv, TryingAgain, Calling, Dead
  <2>8. CASE pc'[p] = "idle" /\ try[p] # 1 /\ Dead(used[p].cl)
    BY <2>1, <2>3, <2>5, <2>8, Zenon DEF CallerInv, TryingAgain, Calling, Dead
  <2> QED  BY <2>2, <2>6, <2>7, <2>8, Zenon
<1> QED  BY <1>1, <1>2, <1>3, OthersKeptInv DEF IInv, Send

(* WriteFails is a fault of the call's own. *)
LEMMA WriteFailsInv ==
  ASSUME NEW p \in Callers, IInv, WriteFails(p)
  PROVE  IInv'
<1>1. TypeOK'
  BY DEF IInv, TypeOK, WriteFails, GoTo, Return, Noticed
<1>2. OthersKept(p)
  BY CallersAssumption DEF IInv, TypeOK, WriteFails, GoTo, Return, Noticed, OthersKept, free
<1>3. CallerInv(p)'
  BY DEF IInv, TypeOK, CallerInv, WriteFails, GoTo, Return, Noticed, TryingAgain, Calling, Dead
<1> QED  BY <1>1, <1>2, <1>3, OthersKeptInv DEF IInv, WriteFails

(* Reply ends the call well. *)
LEMMA ReplyInv ==
  ASSUME NEW p \in Callers, IInv, Reply(p)
  PROVE  IInv'
<1>1. TypeOK'
  BY DEF IInv, TypeOK, Reply, GoTo, Return
<1>2. OthersKept(p)
  BY CallersAssumption DEF IInv, TypeOK, Reply, GoTo, Return, OthersKept, free
<1>3. CallerInv(p)'
  BY DEF IInv, TypeOK, CallerInv, Reply, GoTo, Return, TryingAgain, Calling, Dead
<1> QED  BY <1>1, <1>2, <1>3, OthersKeptInv DEF IInv, Reply

(* Terminated: the connection died while the answer was waited for. *)
LEMMA TerminatedInv ==
  ASSUME NEW p \in Callers, IInv, Terminated(p)
  PROVE  IInv'
<1>1. TypeOK'
  BY DEF IInv, TypeOK, Terminated, GoTo, Return, Dead
<1>2. OthersKept(p)
  BY CallersAssumption DEF IInv, TypeOK, Terminated, GoTo, Return, Dead, OthersKept, free
<1>3. CallerInv(p)'
  BY DEF IInv, TypeOK, CallerInv, Terminated, GoTo, Return, Dead, TryingAgain, Calling, Dead
<1> QED  BY <1>1, <1>2, <1>3, OthersKeptInv DEF IInv, Terminated

(* Retry asks for another generation than the one that failed. *)
LEMMA RetryInv ==
  ASSUME NEW p \in Callers, IInv, Retry(p)
  PROVE  IInv'
<1>1. TypeOK'
  BY DEF IInv, TypeOK, Retry, GoTo
<1>2. OthersKept(p)
  BY CallersAssumption DEF IInv, TypeOK, Retry, GoTo, OthersKept, free
<1>3. CallerInv(p)'
  BY DEF IInv, TypeOK, CallerInv, Retry, GoTo, TryingAgain, Calling, Dead
<1> QED  BY <1>1, <1>2, <1>3, OthersKeptInv DEF IInv, Retry

(* CtxDone ends the call with the context's error. *)
LEMMA CtxDoneInv ==
  ASSUME NEW p \in Callers, IInv, CtxDone(p)
  PROVE  IInv'
<1>1. TypeOK'
  BY DEF IInv, TypeOK, CtxDone, GoTo, Return
<1>2. OthersKept(p)
  BY CallersAssumption DEF IInv, TypeOK, CtxDone, GoTo, Return, OthersKept, free
<1>3. CallerInv(p)'
  BY DEF IInv, TypeOK, CallerInv, CtxDone, GoTo, Return, TryingAgain, Calling, Dead
<1> QED  BY <1>1, <1>2, <1>3, OthersKeptInv DEF IInv, CtxDone

(***************************************************************************)
(* Dial is done by the holder of the lock only, and for want of a live     *)
(* connection; the one it adds is open.                                    *)
(***************************************************************************)
LEMMA DialInv ==
  ASSUME NEW p \in Callers, IInv, Dial(p)
  PROVE  IInv' /\ (cl = 0 \/ Dead(cl))
<1>1. cl = 0 \/ Dead(cl)
  BY DEF IInv, TypeOK, CallerInv, TryingAgain, Dial, mustDial, staleGen
<1>2. TypeOK' /\ (cl = Len(conns) /\ gen = Len(conns))'
  <2>1. conns' \in Seq({"open", "lost", "shutdown", "closed"}) /\ Len(conns') = Len(conns) + 1
    BY SMTT(30) DEF IInv, TypeOK, Dial
  <2>2. cl' = Len(conns') /\ gen' = Len(conns') /\ cl' \in Nat /\ gen' \in Nat
    BY <2>1 DEF IInv, TypeOK, Dial
  <2>3. used' \in [Callers -> [cl : Nat, gen : Nat]]
    BY <2>2 DEF IInv, TypeOK, Dial
  <2>4. pc' \in [Callers -> {"idle", "lock", "get", "send", "pending", "wait"}]
    BY DEF IInv, TypeOK, Dial, GoTo
  <2>5. mu' \in Callers \cup {free} /\ UNCHANGED <<try, outcome, faults, met>>
    BY DEF Dial
  <2> QED  BY <2>1, <2>2, <2>3, <2>4, <2>5 DEF IInv, TypeOK
<1>3. \A i \in 1..gen : Dead(i)' <=> Dead(i)
  BY DEF IInv, TypeOK, Dial, Dead
<1>4. gen' = gen + 1 /\ gen \in Nat /\ conns'[gen'] = "open"
  BY SMTT(30) DEF IInv, TypeOK, Dial
<1>5. ASSUME NEW o \in Callers, o # p
      PROVE  CallerInv(o)'
  <2>1. /\ pc'[o] = pc[o] /\ try'[o] = try[o] /\ used'[o] = used[o]
        /\ outcome'[o] = outcome[o] /\ (o \in met' <=> o \in met) /\ mu # o
    BY <1>5 DEF IInv, TypeOK, Dial, GoTo
  <2>2. CallerInv(o) /\ gen \in Nat /\ used[o] \in [cl : Nat, gen : Nat]
    BY DEF IInv, TypeOK
  <2>3. ~Dead(gen)'
    BY <1>4 DEF Dead
  <2>4. \A i \in 1..gen' : i \in 1..gen \/ i = gen'
    BY <1>4
  <2>5. used[o].gen <= gen' /\ used[o].gen # gen' /\ (Calling(o) => used[o].cl \in 1..gen)
    <3> DEFINE c == used[o].cl
               g == used[o].gen
    <3>1. c \in Nat /\ g \in Nat
      BY <2>2
    <3>2. g <= gen /\ (Calling(o) => c = g /\ g > 0)
      BY <2>2, Zenon DEF CallerInv
    <3> HIDE DEF c, g
    <3>3. g <= gen' /\ g # gen' /\ (Calling(o) => c \in 1..gen)
      BY <1>4, <3>1, <3>2
    <3> QED  BY <3>3, Zenon DEF c, g
  <2>6. TryingAgain(o) \/ Calling(o) => \A i \in 1..gen' : i > used[o].gen /\ Dead(i)' => o \in met
    BY <1>3, <2>2, <2>3, <2>4, Zenon DEF CallerInv, Dead
  <2>7. /\ pc[o] = "send" /\ try[o] = 2 /\ Dead(used[o].cl)' => o \in met
        /\ pc[o] = "pending" /\ Dead(used[o].cl)' => o \in met
    BY <1>3, <2>1, <2>2, <2>5, Zenon DEF CallerInv, Calling, Dead
  <2>8. pc[o] = "get" => mu' = o
    BY <2>1, <2>2, Zenon DEF CallerInv, Dial
  <2> QED  BY <2>1, <2>2, <2>5, <2>6, <2>7, <2>8, Zenon DEF CallerInv, TryingAgain, Calling, Dead
<1>6. CallerInv(p)'
  <2>1. /\ pc'[p] = "send" /\ used'[p] = [cl |-> gen', gen |-> gen']
        /\ outcome'[p] = outcome[p] /\ (p \in met' <=> p \in met)
    BY DEF IInv, TypeOK, Dial, GoTo
  <2>2. outcome[p] = "failed" => p \in met
    BY DEF IInv, CallerInv
  <2>3. ~(conns'[gen'] \in {"shutdown", "closed"})
    BY <1>4
  <2>4. used'[p].cl = gen' /\ used'[p].gen = gen'
    <3>1. \A x : [cl |-> x, gen |-> x].cl = x /\ [cl |-> x, gen |-> x].gen = x
      OBVIOUS
    <3> QED  BY <2>1, <3>1, Zenon
  <2>5. gen' <= gen' /\ gen' > 0 /\ \A i \in 1..gen' : ~(i > gen')
    BY <1>4
  <2> QED  BY <2>1, <2>2, <2>3, <2>4, <2>5, Zenon DEF CallerInv, TryingAgain, Calling, Dead
<1> QED  BY <1>1, <1>2, <1>5, <1>6 DEF IInv

(***************************************************************************)
(* A connection that is lost, noticed or closed: a death is noticed by     *)
(* every caller.                                                           *)
(***************************************************************************)
ConnChanges(i, state) ==
  /\ i \in DOMAIN conns /\ state \in {"lost", "shutdown", "closed"}
  /\ conns' = [conns EXCEPT ![i] = state]
  /\ UNCHANGED <<mu, cl, gen, pc, try, used, outcome>>
  /\ faults' \in Nat
  /\ IF state = "lost" THEN UNCHANGED met /\ ~Dead(i)
                      ELSE met' = Callers

LEMMA ConnChangesInv ==
  ASSUME IInv, NEW i, NEW state, ConnChanges(i, state)
  PROVE  IInv'
<1>1. TypeOK' /\ (cl = Len(conns) /\ gen = Len(conns))'
  BY DEF IInv, TypeOK, ConnChanges
<1>2. ASSUME NEW p \in Callers
      PROVE  CallerInv(p)'
  <2>1. CASE state = "lost"
    <3>1. \A j \in 1..gen : Dead(j)' <=> Dead(j)
      BY <2>1 DEF IInv, TypeOK, ConnChanges, Dead
    <3>2. CallerInv(p) /\ gen \in Nat /\ used[p] \in [cl : Nat, gen : Nat]
      BY DEF IInv, TypeOK
    <3>3. /\ UNCHANGED <<mu, gen, pc, try, used, outcome, met>>
          /\ Calling(p) => used[p].cl \in 1..gen
          /\ gen = 0 \/ gen \in 1..gen
      <4>1. used[p].gen <= gen /\ (Calling(p) => used[p].cl = used[p].gen /\ used[p].gen > 0)
        BY <3>2, Zenon DEF CallerInv
      <4>2. Calling(p) => used[p].cl \in 1..gen
        BY <3>2, <4>1
      <4>3. gen = 0 \/ gen \in 1..gen
        BY <3>2
      <4> QED  BY <2>1, <4>2, <4>3, Zenon DEF ConnChanges
    <3> QED  BY <3>1, <3>2, <3>3, Zenon DEF CallerInv, TryingAgain, Calling, Dead
  <2>2. CASE state # "lost"
    <3>1. \A j \in 1..gen : Dead(j) => Dead(j)'
      BY <2>2 DEF IInv, TypeOK, ConnChanges, Dead
    <3>2. CallerInv(p) /\ gen \in Nat /\ used[p] \in [cl : Nat, gen : Nat]
      BY DEF IInv, TypeOK
    <3>3. p \in met'
      BY <2>2 DEF ConnChanges
    <3>4. UNCHANGED <<mu, gen, pc, try, used, outcome>> /\ (gen = 0 \/ gen \in 1..gen)
      BY <3>2 DEF ConnChanges
    <3> QED  BY <3>1, <3>2, <3>3, <3>4, Zenon DEF CallerInv, TryingAgain, Calling, Dead
  <2> QED  BY <2>1, <2>2
<1> QED  BY <1>1, <1>2 DEF IInv

(***************************************************************************)
(* The invariant of the client's state, and what a step of Next may do to  *)
(* the connection.                                                         *)
(***************************************************************************)
LEMMA StepInv ==
  ASSUME IInv, [Next]_vars
  PROVE  IInv' /\ (cl' # cl => cl = 0 \/ Dead(cl))
<1>1. ASSUME NEW p \in Callers, Dial(p)
      PROVE  IInv' /\ (cl' # cl => cl = 0 \/ Dead(cl))
  BY <1>1, DialInv
<1>2. ASSUME NEW p \in Callers, CallerStep(p), ~Dial(p)
      PROVE  IInv' /\ cl' = cl
  <2>1. IInv'
    BY <1>2, BeginInv, LockInv, GetCurrentInv, DialFailsInv, SendInv, WriteFailsInv,
       ReplyInv, TerminatedInv, RetryInv, CtxDoneInv DEF CallerStep
  <2>2. cl' = cl
    BY <1>2 DEF CallerStep, Begin, Lock, GetCurrent, DialFails, Send, WriteFails, Reply,
       Terminated, Retry, CtxDone
  <2> QED  BY <2>1, <2>2
<1>3. ASSUME NEW i \in DOMAIN conns, Lose(i)
      PROVE  IInv' /\ cl' = cl
  <2>1. ConnChanges(i, "lost")
    BY <1>3, MaxFaultsAssumption DEF IInv, TypeOK, Lose, Fault, ConnChanges, Dead
  <2> QED  BY <1>3, <2>1, ConnChangesInv DEF Lose
<1>4. ASSUME NEW i \in DOMAIN conns, Notice(i)
      PROVE  IInv' /\ cl' = cl
  <2>1. ConnChanges(i, "shutdown")
    BY <1>4 DEF IInv, TypeOK, Notice, Noticed, ConnChanges
  <2> QED  BY <1>4, <2>1, ConnChangesInv DEF Notice
<1>5. ASSUME Close
      PROVE  IInv' /\ cl' = cl
  <2>1. ConnChanges(cl, "closed")
    BY <1>5 DEF IInv, TypeOK, Close, Fault, Noticed, ConnChanges
  <2> QED  BY <1>5, <2>1, ConnChangesInv DEF Close
<1>6. ASSUME UNCHANGED vars
      PROVE  IInv' /\ cl' = cl
  <2>1. TypeOK' /\ (cl = Len(conns) /\ gen = Len(conns))'
    BY <1>6 DEF IInv, TypeOK, vars
  <2>2. ASSUME NEW p \in Callers PROVE CallerInv(p)'
    BY <1>6 DEF IInv, CallerInv, TryingAgain, Calling, Dead, vars
  <2> QED  BY <1>6, <2>1, <2>2 DEF IInv, vars
<1> QED  BY <1>1, <1>2, <1>3, <1>4, <1>5, <1>6 DEF Next

LEMMA InitInv ==
  Init => IInv
<1> SUFFICES ASSUME Init PROVE IInv
  OBVIOUS
<1>1. TypeOK /\ cl = Len(conns) /\ gen = Len(conns)
  BY DEF Init, TypeOK, free
<1>2. ASSUME NEW p \in Callers PROVE CallerInv(p)
  BY DEF Init, CallerInv, TryingAgain, Calling
<1> QED  BY <1>1, <1>2 DEF IInv

(***************************************************************************)
(* call: a call fails only for a fault noticed after it began.             *)
(***************************************************************************)
THEOREM CallsHeal == Spec => []RetryHeals
<1>1. IInv /\ [Next]_vars => IInv'
  BY StepInv
<1>2. IInv => RetryHeals
  BY DEF IInv, CallerInv, RetryHeals
<1> QED  BY InitInv, <1>1, <1>2, PTL DEF Spec

(***************************************************************************)
(* getRPCClient: whoever redials replaces a connection that is dead.       *)
(***************************************************************************)
THEOREM RedialSafe == Spec => RedialsOnlyDead
<1>1. IInv /\ [Next]_vars => IInv' /\ [cl' # cl => cl = 0 \/ Dead(cl)]_vars
  BY StepInv
<1> QED  BY InitInv, <1>1, PTL DEF Spec, RedialsOnlyDead

(***************************************************************************)
(* The types of the client's state.                                        *)
(***************************************************************************)
THEOREM RpcTypes == Spec => []TypeOK
<1>1. IInv /\ [Next]_vars => IInv'
  BY StepInv
<1>2. IInv => TypeOK
  BY DEF IInv
<1> QED  BY InitInv, <1>1, <1>2, PTL DEF Spec

-----------------------------------------------------------------------------
(***************************************************************************)
(* SearchLoop: any number of documents, any limits and whatever the match  *)
(* tree answers.                                                           *)
(***************************************************************************)
Phases == {"idle", "parsed", "search", "done", "listed", "skipped", "rejected", "error", "crashed"}

Stats == [MatchCount : Nat, FileCount : Nat, FilesConsidered : Nat, FilesSkipped : Nat, ShardFilesConsidered : Nat, important : Nat]

LoopTypeOK ==
  /\ course \in Phases
  /\ bounds \in Bounds /\ bounds.Documents = bounds.docCount
  /\ canceled \in BOOLEAN
  /\ lastDoc \in Int /\ lastDoc >= -1
  /\ files \in Seq(FoundFiles)
  /\ stats \in Stats

\* What was found, whatever its order.
FilesOK ==
  /\ IsFiniteSet(FoundFiles) /\ IsFiniteSet(LinesOf(FoundFiles))
  /\ \A f \in FoundFiles : FileMatchOf(f, f.doc) /\ f.doc \in 0..lastDoc
  /\ \A f, g \in FoundFiles : f.doc = g.doc => f = g

(***************************************************************************)
(* The statistics say what was found: as many lines, files and important   *)
(* files as there are, each document counted once, before and after the    *)
(* files are sorted (Search's counters, which the limits are compared      *)
(* with, against res.Files).                                               *)
(***************************************************************************)
CountsExact ==
  /\ stats.MatchCount = Cardinality(LinesOf(FoundFiles))
  /\ stats.FileCount = Cardinality(FoundFiles)
  /\ stats.important = Cardinality({f \in FoundFiles : important(f)})
  /\ \A f, g \in FoundFiles : f.doc = g.doc => f = g

Earlier == {f \in FoundFiles : \E g \in FoundFiles : g.doc > f.doc}

LoopInv ==
  /\ LoopTypeOK
  /\ FilesOK
  /\ CountsExact
  /\ course \in {"idle", "parsed"} => files = <<>> /\ lastDoc = -1
  /\ course # "done" => stats.FilesSkipped = 0
  /\ FoundFiles # {} => ~Full(Earlier)
  /\ stats.FilesSkipped > 0 =>
       /\ canceled \/ Full(FoundFiles)
       /\ lastDoc < bounds.docCount /\ stats.FilesSkipped = bounds.docCount - lastDoc

\* Sorting rearranges files: the result has the same ones (SortFilesByScore).
LEMMA SortKeepsFiles ==
  ASSUME NEW S, NEW fs \in Seq(S), NEW r \in SortFilesByScore(fs)
  PROVE  r \in Seq(S) /\ FilesIn(r) = FilesIn(fs)
<1>1. PICK p \in Orders(fs) : r = [i \in DOMAIN fs |-> fs[p[i]]]
  BY Zenon DEF SortFilesByScore
<1>2. p \in [DOMAIN fs -> DOMAIN fs] /\ \A w \in DOMAIN fs : \E v \in DOMAIN fs : p[v] = w
  BY <1>1, Zenon DEF Orders
<1>3. DOMAIN fs = 1..Len(fs) /\ Len(fs) \in Nat /\ \A i \in DOMAIN fs : fs[i] \in S
  BY SMT
<1>4. DOMAIN r = DOMAIN fs /\ \A i \in DOMAIN fs : r[i] = fs[p[i]] /\ r[i] \in S
  BY <1>1, <1>2, <1>3, Zenon
<1>5. r \in Seq(S)
  <2>1. r \in [1..Len(fs) -> S]
    BY <1>1, <1>3, <1>4, Zenon
  <2>. QED  BY <2>1, <1>3, SMT
<1>6. FilesIn(r) = FilesIn(fs)
  <2>1. ASSUME NEW i \in DOMAIN fs  PROVE fs[i] \in {r[j] : j \in DOMAIN r}
    <3>1. PICK v \in DOMAIN fs : p[v] = i
      BY <1>2, Zenon
    <3>2. r[v] = fs[i] /\ v \in DOMAIN r
      BY <3>1, <1>4, Zenon
    <3>. QED  BY <3>2, Zenon
  <2>2. ASSUME NEW i \in DOMAIN r  PROVE r[i] \in {fs[j] : j \in DOMAIN fs}
    BY <1>2, <1>4, Zenon
  <2>. QED  BY <2>1, <2>2, Zenon DEF FilesIn
<1>. QED  BY <1>5, <1>6, Zenon

\* The elements of a sequence with one more.
LEMMA RangeAppend ==
  ASSUME NEW S, NEW fs \in Seq(S), NEW f
  PROVE  FilesIn(fs \o <<f>>) = FilesIn(fs) \cup {f}
<1>1. /\ DOMAIN (fs \o <<f>>) = 1..(Len(fs) + 1) /\ Len(fs) \in Nat /\ DOMAIN fs = 1..Len(fs)
      /\ \A i \in 1..Len(fs) : (fs \o <<f>>)[i] = fs[i]
      /\ (fs \o <<f>>)[Len(fs) + 1] = f
  BY SMT
<1>2. ASSUME NEW i \in 1..(Len(fs) + 1)  PROVE i = Len(fs) + 1 \/ i \in 1..Len(fs)
  BY <1>1, SMT
<1>3. Len(fs) + 1 \in 1..(Len(fs) + 1) /\ \A i \in 1..Len(fs) : i \in 1..(Len(fs) + 1)
  BY <1>1, SMT
<1>. QED  BY <1>1, <1>2, <1>3, Zenon DEF FilesIn

\* The size of an interval from one on.
LEMMA CountTo ==
  ASSUME NEW n \in Nat
  PROVE  IsFiniteSet(1..n) /\ Cardinality(1..n) = n
<1>1. IsFiniteSet(1..n) /\ Cardinality(1..n) = IF 1 > n THEN 0 ELSE n - 1 + 1
  <2>1. 1 \in Int /\ n \in Int
    BY SMT
  <2>. QED  BY <2>1, FS_Interval, Zenon
<1>2. (IF 1 > n THEN 0 ELSE n - 1 + 1) = n
  BY SMT
<1>. QED  BY <1>1, <1>2

\* The size of two sets that share nothing.
LEMMA DisjointUnion ==
  ASSUME NEW S, NEW T, IsFiniteSet(S), IsFiniteSet(T), S \cap T = {}
  PROVE  IsFiniteSet(S \cup T) /\ Cardinality(S \cup T) = Cardinality(S) + Cardinality(T)
<1>1. IsFiniteSet(S \cup T) /\ Cardinality(S \cup T) = Cardinality(S) + Cardinality(T) - Cardinality(S \cap T)
  BY FS_Union, Zenon
<1>2. Cardinality(S \cap T) = 0 /\ Cardinality(S) \in Nat /\ Cardinality(T) \in Nat
  BY FS_EmptySet, FS_CardinalityType, Zenon
<1>. QED  BY <1>1, <1>2, SMT

\* The lines of files of different documents: those of one more file come on
\* top of those there are (MatchCount += len(fileMatch.LineMatches)).
LEMMA LinesAdded ==
  ASSUME NEW S, IsFiniteSet(S), IsFiniteSet(LinesOf(S)), NEW f, NEW k, FileMatchOf(f, k), \A g \in S : g.doc # k
  PROVE  /\ IsFiniteSet(LinesOf(S \cup {f}))
         /\ Cardinality(LinesOf(S \cup {f})) = Cardinality(LinesOf(S)) + Len(f.LineMatches)
<1> DEFINE L == 1..Len(f.LineMatches)
           new == {f.doc} \X L
<1>1. Len(f.LineMatches) \in Nat /\ f.doc = k
  BY Zenon DEF FileMatchOf
<1>2. IsFiniteSet(L) /\ Cardinality(L) = Len(f.LineMatches)
  BY <1>1, CountTo, Zenon
<1>3. IsFiniteSet({f.doc}) /\ Cardinality({f.doc}) = 1
  BY FS_Singleton, Zenon
<1>4. IsFiniteSet(new) /\ Cardinality(new) = Len(f.LineMatches)
  <2>1. IsFiniteSet(new) /\ Cardinality(new) = Cardinality({f.doc}) * Cardinality(L)
    BY <1>2, <1>3, FS_Product, Zenon
  <2>. QED  BY <2>1, <1>1, <1>2, <1>3, SMT
<1>5. LinesOf(S \cup {f}) = LinesOf(S) \cup new
  BY Zenon DEF LinesOf
<1>6. LinesOf(S) \cap new = {}
  <2>1. ASSUME NEW x \in LinesOf(S), x \in new  PROVE FALSE
    <3>1. PICK g \in S : x \in {g.doc} \X (1..Len(g.LineMatches))
      BY <2>1, Zenon DEF LinesOf
    <3>2. x[1] = g.doc /\ x[1] = f.doc
      BY <3>1, <2>1, Zenon
    <3>. QED  BY <3>2, <1>1, Zenon
  <2>. QED  BY <2>1, Zenon
<1>7. IsFiniteSet(LinesOf(S) \cup new) /\ Cardinality(LinesOf(S) \cup new) = Cardinality(LinesOf(S)) + Cardinality(new)
  BY <1>4, <1>6, DisjointUnion, Zenon
<1>. QED  BY <1>4, <1>5, <1>7, Zenon

\* A file more among the important ones (importantMatchCount++).
LEMMA ImportantAdded ==
  ASSUME NEW S, IsFiniteSet(S), NEW f, f \notin S
  PROVE  Cardinality({g \in S \cup {f} : important(g)}) =
           IF important(f) THEN Cardinality({g \in S : important(g)}) + 1 ELSE Cardinality({g \in S : important(g)})
<1> DEFINE I == {g \in S : important(g)}
<1>1. IsFiniteSet(I)
  BY FS_Subset, I \subseteq S, Zenon
<1>2. CASE important(f)
  <2>1. {g \in S \cup {f} : important(g)} = I \cup {f} /\ f \notin I
    BY <1>2, Zenon
  <2>2. Cardinality(I \cup {f}) = Cardinality(I) + 1
    BY <2>1, <1>1, FS_AddElement, Zenon
  <2>. QED  BY <1>2, <2>1, <2>2, Zenon
<1>3. CASE ~important(f)
  <2>1. {g \in S \cup {f} : important(g)} = I
    BY <1>3, Zenon
  <2>. QED  BY <1>3, <2>1, Zenon
<1>. QED  BY <1>2, <1>3, Zenon

\* Nothing found, nothing counted.
LEMMA NoLines == LinesOf({}) = {} /\ IsFiniteSet({}) /\ Cardinality({}) = 0
  BY FS_EmptySet, Zenon DEF LinesOf

-----------------------------------------------------------------------------
(***************************************************************************)
(* The invariant, action by action.                                        *)
(***************************************************************************)
\* A search begins with nothing found.
LEMMA LoopInitInv == LoopInit => LoopInv
<1> SUFFICES ASSUME LoopInit  PROVE LoopInv
  BY Zenon
<1>1. FoundFiles = {}
  BY DEF LoopInit, FoundFiles, FilesIn
<1>2. LoopTypeOK
  <2>1. <<>> \in Seq(FoundFiles)
    BY EmptySeq, Zenon
  <2>2. bounds \in Bounds /\ bounds.Documents = bounds.docCount
    BY DEF LoopInit, Bounds
  <2>3. stats \in Stats
    BY Zenon DEF LoopInit, Stats
  <2>4. course \in Phases /\ canceled \in BOOLEAN
    BY Zenon DEF LoopInit, Phases
  <2>5. lastDoc \in Int /\ lastDoc >= -1
    BY SMT DEF LoopInit
  <2>6. files = <<>>
    BY Zenon DEF LoopInit
  <2>. QED  BY <2>1, <2>2, <2>3, <2>4, <2>5, <2>6, Zenon DEF LoopTypeOK
<1>3. FilesOK
  BY <1>1, NoLines, Zenon DEF FilesOK
<1>4. CountsExact
  <2>1. {f \in FoundFiles : important(f)} = {}
    BY <1>1, Zenon
  <2>2. stats.MatchCount = 0 /\ stats.FileCount = 0 /\ stats.important = 0
    BY Zenon DEF LoopInit
  <2>. QED  BY <1>1, <2>1, <2>2, NoLines, Zenon DEF CountsExact
<1>5. course = "idle" /\ files = <<>> /\ lastDoc = -1 /\ stats.FilesSkipped = 0
  BY Zenon DEF LoopInit
<1>. QED  BY <1>1, <1>2, <1>3, <1>4, <1>5 DEF LoopInv

\* The part of the invariant about what was found depends only on which files
\* those are.
LEMMA SameFiles ==
  ASSUME LoopInv, FoundFiles' = FoundFiles, UNCHANGED bounds, lastDoc' \in Int, lastDoc' >= lastDoc,
         stats'.MatchCount = stats.MatchCount, stats'.FileCount = stats.FileCount, stats'.important = stats.important
  PROVE  /\ FilesOK' /\ CountsExact'
         /\ (FoundFiles # {} => ~Full(Earlier))'
         /\ Full(FoundFiles)' <=> Full(FoundFiles)
<1>1. FilesOK'
  <2>0. lastDoc \in Int
    BY Zenon DEF LoopInv, LoopTypeOK
  <2>1. \A k \in 0..lastDoc : k \in 0..lastDoc'
    BY <2>0
  <2>. QED  BY <2>1, Zenon DEF FilesOK, LoopInv, FileMatchOf
<1>2. CountsExact'
  BY Zenon DEF LoopInv, CountsExact, important
<1>3. Earlier' = Earlier
  BY Zenon DEF Earlier
<1>4. (FoundFiles # {} => ~Full(Earlier))'
  BY <1>3, Zenon DEF LoopInv, Full, important
<1>5. Full(FoundFiles)' <=> Full(FoundFiles)
  BY Zenon DEF Full, important
<1>. QED  BY <1>1, <1>2, <1>4, <1>5, Zenon

LEMMA InterruptInv == LoopInv /\ Interrupt => LoopInv'
<1> SUFFICES ASSUME LoopInv, Interrupt  PROVE LoopInv'
  BY Zenon
<1>1. FoundFiles' = FoundFiles /\ UNCHANGED <<course, bounds, lastDoc, files, stats>> /\ canceled' = TRUE
  BY Zenon DEF Interrupt, FoundFiles
<1>2. LoopTypeOK'
  BY <1>1, Zenon DEF LoopInv, LoopTypeOK
<1>3. lastDoc' \in Int /\ lastDoc' >= lastDoc
  BY <1>1, SMT DEF LoopInv, LoopTypeOK
<1>4. /\ FilesOK' /\ CountsExact'
      /\ (FoundFiles # {} => ~Full(Earlier))'
      /\ Full(FoundFiles)' <=> Full(FoundFiles)
  BY <1>1, <1>3, SameFiles, Zenon
<1>. QED  BY <1>1, <1>2, <1>4, Zenon DEF LoopInv

LEMMA ReceiveInv == ASSUME NEW p, LoopInv, Receive(p)  PROVE LoopInv'
<1>1. FoundFiles' = FoundFiles /\ UNCHANGED <<bounds, canceled, lastDoc, files, stats>> /\ course = "idle"
  BY Zenon DEF Receive, FoundFiles
<1>2. LoopTypeOK' /\ course' # "done"
  BY <1>1, Zenon DEF LoopInv, LoopTypeOK, Receive, Phases
<1>3. lastDoc' \in Int /\ lastDoc' >= lastDoc
  BY <1>1, SMT DEF LoopInv, LoopTypeOK
<1>4. /\ FilesOK' /\ CountsExact'
      /\ (FoundFiles # {} => ~Full(Earlier))'
      /\ Full(FoundFiles)' <=> Full(FoundFiles)
  BY <1>1, <1>3, SameFiles, Zenon
<1>5. files = <<>> /\ lastDoc = -1 /\ stats.FilesSkipped = 0
  BY <1>1, Zenon DEF LoopInv
<1>. QED  BY <1>1, <1>2, <1>4, <1>5, Zenon DEF LoopInv

LEMMA LeaveInv == ASSUME NEW p, NEW n \in Nat, LoopInv, Leave(p, n)  PROVE LoopInv'
<1>1. FoundFiles' = FoundFiles /\ UNCHANGED <<bounds, canceled, lastDoc, files>> /\ course = "parsed"
  BY Zenon DEF Leave, FoundFiles
<1>2. /\ stats' \in Stats /\ stats'.MatchCount = stats.MatchCount /\ stats'.FileCount = stats.FileCount
      /\ stats'.important = stats.important /\ stats'.FilesSkipped = stats.FilesSkipped
  BY Zenon DEF Leave, LoopInv, LoopTypeOK, Stats
<1>3. LoopTypeOK' /\ course' \notin {"idle", "parsed"}
  BY <1>1, <1>2, Zenon DEF LoopInv, LoopTypeOK, Leave, Phases
<1>4. lastDoc' \in Int /\ lastDoc' >= lastDoc
  BY <1>1, SMT DEF LoopInv, LoopTypeOK
<1>5. /\ FilesOK' /\ CountsExact'
      /\ (FoundFiles # {} => ~Full(Earlier))'
      /\ Full(FoundFiles)' <=> Full(FoundFiles)
  BY <1>1, <1>2, <1>4, SameFiles, Zenon
<1>6. stats'.FilesSkipped = 0
  BY <1>1, <1>2, Zenon DEF LoopInv
<1>. QED  BY <1>3, <1>5, <1>6 DEF LoopInv

\* Entering the loop sets its bounds while nothing is found yet.
LEMMA EnterInv == ASSUME NEW b \in Bounds, b.Documents = b.docCount, LoopInv, Enter(b)  PROVE LoopInv'
<1>1. UNCHANGED <<canceled, lastDoc, files, stats>> /\ course = "parsed" /\ course' = "search" /\ bounds' = b
  BY Zenon DEF Enter
<1>2. files = <<>> /\ lastDoc = -1 /\ stats.FilesSkipped = 0
  BY <1>1, Zenon DEF LoopInv
<1>3. FoundFiles = {} /\ FoundFiles' = {}
  BY <1>1, <1>2 DEF FoundFiles, FilesIn
<1>4. LoopTypeOK'
  BY <1>1, <1>3, Zenon DEF LoopInv, LoopTypeOK, Phases
<1>5. FilesOK'
  BY <1>3, NoLines, Zenon DEF FilesOK
<1>6. CountsExact'
  <2>1. {f \in FoundFiles : important(f)} = {} /\ {f \in FoundFiles : important(f)}' = {}
    BY <1>3, Zenon
  <2>2. stats.MatchCount = 0 /\ stats.FileCount = 0 /\ stats.important = 0
    BY <1>3, <2>1, NoLines, Zenon DEF LoopInv, CountsExact
  <2>. QED  BY <1>1, <1>3, <2>1, <2>2, NoLines, Zenon DEF CountsExact
<1>. QED  BY <1>1, <1>2, <1>3, <1>4, <1>5, <1>6 DEF LoopInv

\* The files of the result are those of the loop, sorted.
LEMMA ReturnKeeps == LoopInv /\ Returns => FoundFiles' = FoundFiles /\ files' \in Seq(FoundFiles')
<1> SUFFICES ASSUME LoopInv, Returns  PROVE FoundFiles' = FoundFiles /\ files' \in Seq(FoundFiles')
  BY Zenon
<1>1. files \in Seq(FoundFiles) /\ files' \in SortFilesByScore(files)
  BY Zenon DEF LoopInv, LoopTypeOK, Returns
<1>2. files' \in Seq(FoundFiles) /\ FilesIn(files') = FilesIn(files)
  BY <1>1, SortKeepsFiles, Zenon
<1>. QED  BY <1>2, Zenon DEF FoundFiles

\* No document is left.
LEMMA ExhaustedInv == ASSUME NEW k, LoopInv, Exhausted(k)  PROVE LoopInv'
<1>1. Returns /\ course = "search" /\ course' = "done" /\ UNCHANGED <<bounds, canceled, lastDoc, stats>>
  BY Zenon DEF Exhausted, Returns
<1>2. FoundFiles' = FoundFiles /\ files' \in Seq(FoundFiles')
  BY <1>1, ReturnKeeps, Zenon
<1>3. LoopTypeOK'
  BY <1>1, <1>2, Zenon DEF LoopInv, LoopTypeOK, Phases
<1>4. lastDoc' \in Int /\ lastDoc' >= lastDoc
  BY <1>1, SMT DEF LoopInv, LoopTypeOK
<1>5. /\ FilesOK' /\ CountsExact'
      /\ (FoundFiles # {} => ~Full(Earlier))'
  BY <1>1, <1>2, <1>4, SameFiles, Zenon
<1>6. stats'.FilesSkipped = 0
  BY <1>1, Zenon DEF LoopInv
<1>. QED  BY <1>1, <1>3, <1>5, <1>6 DEF LoopInv

\* The counters the limits are compared with count what was found.
LEMMA LimitIsFull == LoopInv => (limitReached <=> Full(FoundFiles))
  BY Zenon DEF LoopInv, CountsExact, limitReached, Full

\* The search is cancelled, or a limit is reached.
LEMMA StopEarlyInv == ASSUME NEW k \in Int, k > lastDoc, LoopInv, StopEarly(k)  PROVE LoopInv'
<1>1. /\ Returns /\ course = "search" /\ course' = "done" /\ UNCHANGED <<bounds, canceled>> /\ lastDoc' = k
      /\ k < bounds.docCount /\ (canceled \/ limitReached)
  BY Zenon DEF StopEarly, Returns
<1>2. FoundFiles' = FoundFiles /\ files' \in Seq(FoundFiles')
  BY <1>1, ReturnKeeps, Zenon
<1>3. lastDoc \in Int /\ lastDoc >= -1 /\ bounds.docCount \in Nat /\ bounds.Documents = bounds.docCount
  BY Zenon DEF LoopInv, LoopTypeOK, Bounds
<1>4. stats \in Stats /\ stats.FilesSkipped = 0
  BY <1>1, Zenon DEF LoopInv, LoopTypeOK
<1>5. 0 + bounds.Documents - k = bounds.docCount - k /\ bounds.docCount - k \in Nat
  BY <1>1, <1>3, SMT
<1>6. stats' = [stats EXCEPT !.FilesSkipped = bounds.docCount - k]
  BY <1>4, <1>5, Zenon DEF StopEarly
<1>7. /\ stats' \in Stats /\ stats'.MatchCount = stats.MatchCount /\ stats'.FileCount = stats.FileCount
      /\ stats'.important = stats.important /\ stats'.FilesSkipped = bounds.docCount - k
  BY <1>4, <1>5, <1>6, Zenon DEF Stats
<1>8. lastDoc' \in Int /\ lastDoc' >= lastDoc /\ lastDoc' >= -1
  BY <1>1, <1>3, SMT
<1>9. LoopTypeOK'
  BY <1>1, <1>2, <1>7, <1>8, Zenon DEF LoopInv, LoopTypeOK, Phases
<1>10. /\ FilesOK' /\ CountsExact'
       /\ (FoundFiles # {} => ~Full(Earlier))'
       /\ Full(FoundFiles)' <=> Full(FoundFiles)
  BY <1>1, <1>2, <1>7, <1>8, SameFiles, Zenon
<1>11. (canceled \/ Full(FoundFiles))'
  BY <1>1, <1>10, LimitIsFull, Zenon
<1>12. lastDoc' < bounds'.docCount /\ stats'.FilesSkipped = bounds'.docCount - lastDoc'
  BY <1>1, <1>7, Zenon
<1>. QED  BY <1>1, <1>9, <1>10, <1>11, <1>12, Zenon DEF LoopInv

\* A document that does not match.
LEMMA MissInv == ASSUME NEW k \in Int, k > lastDoc, NEW decided \in BOOLEAN, LoopInv, LookAt(k, decided, <<>>)  PROVE LoopInv'
<1>1. /\ course = "search" /\ course' \in {"search", "crashed"} /\ UNCHANGED <<bounds, canceled>> /\ lastDoc' = k
      /\ files' = files \o <<>>
  BY Zenon DEF LookAt
<1>2. files \in Seq(FoundFiles) /\ lastDoc \in Int /\ lastDoc >= -1 /\ stats \in Stats
  BY Zenon DEF LoopInv, LoopTypeOK
<1>3. files' = files
  BY <1>1, <1>2
<1>4. FoundFiles' = FoundFiles
  BY <1>3, Zenon DEF FoundFiles
<1>5. /\ stats' \in Stats /\ stats'.MatchCount = stats.MatchCount /\ stats'.FileCount = stats.FileCount
      /\ stats'.important = stats.important /\ stats'.FilesSkipped = stats.FilesSkipped
  <2>1. stats' = [stats EXCEPT !.FilesConsidered = @ + 1, !.MatchCount = @, !.FileCount = @ + Len(<<>>), !.important = @]
    BY Zenon DEF LookAt
  <2>2. Len(<<>>) = 0
    BY SMT
  <2>3. stats.FileCount + Len(<<>>) = stats.FileCount /\ stats.FilesConsidered + 1 \in Nat
    BY <1>2, <2>2, SMT DEF Stats
  <2>4. stats' = [stats EXCEPT !.FilesConsidered = stats.FilesConsidered + 1]
    BY <1>2, <2>1, <2>3, Zenon DEF Stats
  <2>. QED  BY <1>2, <2>3, <2>4, Zenon DEF Stats
<1>6. lastDoc' \in Int /\ lastDoc' >= lastDoc /\ lastDoc' >= -1
  BY <1>1, <1>2, SMT
<1>7. LoopTypeOK'
  BY <1>1, <1>3, <1>4, <1>5, <1>6, Zenon DEF LoopInv, LoopTypeOK, Phases
<1>8. /\ FilesOK' /\ CountsExact'
      /\ (FoundFiles # {} => ~Full(Earlier))'
  BY <1>1, <1>4, <1>5, <1>6, SameFiles, Zenon
<1>9. stats'.FilesSkipped = 0 /\ course' # "done"
  BY <1>1, <1>5, Zenon DEF LoopInv
<1>. QED  BY <1>1, <1>7, <1>8, <1>9 DEF LoopInv

\* A document that matches: the file found is of a later document than all
\* before it, which had not reached a limit.
LEMMA HitInv == ASSUME NEW k \in Int, k > lastDoc, NEW f, FileMatchOf(f, k), LoopInv, LookAt(k, TRUE, <<f>>)  PROVE LoopInv'
<1>1. /\ course = "search" /\ course' = "search" /\ UNCHANGED <<bounds, canceled>> /\ lastDoc' = k
      /\ files' = files \o <<f>> /\ ~limitReached
  BY Zenon DEF LookAt
<1>2. /\ files \in Seq(FoundFiles) /\ lastDoc \in Int /\ lastDoc >= -1 /\ stats \in Stats /\ bounds \in Bounds
      /\ bounds.Documents = bounds.docCount /\ canceled \in BOOLEAN
  BY Zenon DEF LoopInv, LoopTypeOK
<1>3. FoundFiles' = FoundFiles \cup {f}
  <2>1. FilesIn(files \o <<f>>) = FilesIn(files) \cup {f}
    BY <1>2, RangeAppend, Zenon
  <2>. QED  BY <1>1, <2>1, Zenon DEF FoundFiles
<1>4. f.doc = k /\ Len(f.LineMatches) \in Nat /\ f.Score \in Int
  BY Zenon DEF FileMatchOf
<1>5. \A g \in FoundFiles : g.doc \in Int /\ g.doc < k /\ g.doc # k
  <2>1. \A g \in FoundFiles : g.doc \in 0..lastDoc
    BY Zenon DEF LoopInv, FilesOK
  <2>2. \A j \in 0..lastDoc : j \in Int /\ j < k /\ j # k
    BY <1>2, SMT
  <2>. QED  BY <2>1, <2>2, Zenon
<1>6. f \notin FoundFiles
  BY <1>4, <1>5, Zenon
<1>7. stats' = [stats EXCEPT !.FilesConsidered = stats.FilesConsidered + 1,
                             !.MatchCount = stats.MatchCount + Len(f.LineMatches),
                             !.FileCount = stats.FileCount + 1,
                             !.important = IF important(f) THEN stats.important + 1 ELSE stats.important]
  <2>1. <<f>> # <<>> /\ <<f>>[1] = f /\ Len(<<f>>) = 1
    BY SMT
  <2>2. stats' = [stats EXCEPT !.FilesConsidered = @ + 1,
                               !.MatchCount = @ + Len(f.LineMatches),
                               !.FileCount = @ + 1,
                               !.important = IF important(f) THEN @ + 1 ELSE @]
    BY <2>1, Zenon DEF LookAt
  <2>. QED  BY <1>2, <2>2, Zenon DEF Stats
<1>8. /\ stats' \in Stats
      /\ stats'.MatchCount = stats.MatchCount + Len(f.LineMatches)
      /\ stats'.FileCount = stats.FileCount + 1
      /\ stats'.important = IF important(f) THEN stats.important + 1 ELSE stats.important
      /\ stats'.FilesSkipped = stats.FilesSkipped
  <2>1. stats.MatchCount + Len(f.LineMatches) \in Nat /\ stats.FileCount + 1 \in Nat /\ stats.FilesConsidered + 1 \in Nat
    <3>1. stats.MatchCount \in Nat /\ stats.FileCount \in Nat /\ stats.FilesConsidered \in Nat
      BY <1>2, Zenon DEF Stats
    <3>2. \A m, n \in Nat : m + n \in Nat /\ m + 1 \in Nat
      BY SMT
    <3>. QED  BY <1>4, <3>1, <3>2, Zenon
  <2>2. (IF important(f) THEN stats.important + 1 ELSE stats.important) \in Nat
    BY <1>2, SMT DEF Stats
  <2>. QED  BY <1>2, <1>7, <2>1, <2>2, Zenon DEF Stats
<1>9. LoopTypeOK'
  <2>1. files \o <<f>> \in Seq(FoundFiles \cup {f})
    <3>1. ASSUME NEW S, NEW fs \in Seq(S)  PROVE fs \o <<f>> \in Seq(S \cup {f})
      BY SMT
    <3>. QED  BY <3>1, <1>2, Zenon
  <2>2. files' \in Seq(FoundFiles')
    BY <1>1, <1>3, <2>1, Zenon
  <2>3. lastDoc' \in Int /\ lastDoc' >= -1
    BY <1>1, <1>2, SMT
  <2>. QED  BY <1>1, <1>2, <1>8, <2>2, <2>3, Zenon DEF LoopTypeOK, Phases
<1>10. IsFiniteSet(FoundFiles) /\ IsFiniteSet(LinesOf(FoundFiles))
  BY Zenon DEF LoopInv, FilesOK
<1>11. /\ IsFiniteSet(LinesOf(FoundFiles \cup {f}))
       /\ Cardinality(LinesOf(FoundFiles \cup {f})) = Cardinality(LinesOf(FoundFiles)) + Len(f.LineMatches)
  BY <1>5, <1>10, LinesAdded, Zenon
<1>12. IsFiniteSet(FoundFiles \cup {f}) /\ Cardinality(FoundFiles \cup {f}) = Cardinality(FoundFiles) + 1
  BY <1>6, <1>10, FS_AddElement, Zenon
<1>13. ASSUME NEW g \in FoundFiles \cup {f}, NEW h \in FoundFiles \cup {f}, g.doc = h.doc  PROVE g = h
  BY <1>4, <1>5, <1>13, Zenon DEF LoopInv, FilesOK
<1>14. FilesOK'
  <2>1. ASSUME NEW g \in FoundFiles \cup {f}  PROVE FileMatchOf(g, g.doc) /\ g.doc \in 0..lastDoc'
    <3>1. CASE g = f
      <4>1. \A l, i \in Int : l >= -1 /\ i > l => i \in 0..i
        BY SMT
      <4>. QED  BY <3>1, <4>1, <1>1, <1>2, <1>4, Zenon DEF FileMatchOf
    <3>2. CASE g \in FoundFiles
      <4>1. FileMatchOf(g, g.doc) /\ g.doc \in 0..lastDoc
        BY <3>2, Zenon DEF LoopInv, FilesOK
      <4>2. g.doc \in 0..lastDoc'
        BY <4>1, <1>1, <1>2, SMT
      <4>. QED  BY <4>1, <4>2, Zenon
    <3>. QED  BY <3>1, <3>2, Zenon
  <2>2. \A g \in FoundFiles' : (FileMatchOf(g, g.doc) /\ g.doc \in 0..lastDoc)'
    BY <2>1, <1>3, Zenon DEF FileMatchOf
  <2>. QED  BY <2>2, <1>3, <1>11, <1>12, <1>13, Zenon DEF FilesOK
<1>15. Cardinality({g \in FoundFiles \cup {f} : important(g)}) =
         IF important(f) THEN Cardinality({g \in FoundFiles : important(g)}) + 1 ELSE Cardinality({g \in FoundFiles : important(g)})
  BY <1>6, <1>10, ImportantAdded, Zenon
<1>16. {g \in FoundFiles : important(g)}' = {g \in FoundFiles \cup {f} : important(g)}
  BY <1>1, <1>3, Zenon DEF important
<1>17. CountsExact'
  <2>1. /\ stats.MatchCount = Cardinality(LinesOf(FoundFiles)) /\ stats.FileCount = Cardinality(FoundFiles)
        /\ stats.important = Cardinality({g \in FoundFiles : important(g)})
    BY Zenon DEF LoopInv, CountsExact
  <2>2. stats'.MatchCount = Cardinality(LinesOf(FoundFiles')) /\ stats'.FileCount = Cardinality(FoundFiles')
    BY <2>1, <1>3, <1>8, <1>11, <1>12, Zenon
  <2>3. stats'.important = Cardinality({g \in FoundFiles : important(g)}')
    BY <2>1, <1>8, <1>15, <1>16, Zenon
  <2>. QED  BY <2>2, <2>3, <1>3, <1>13, Zenon DEF CountsExact
<1>18. ~Full(Earlier)'
  <2>1. Earlier' = FoundFiles
    <3>1. ASSUME NEW g \in FoundFiles  PROVE g \in Earlier'
      BY <1>3, <1>4, <1>5, Zenon DEF Earlier
    <3>2. ASSUME NEW g \in Earlier'  PROVE g \in FoundFiles
      <4>1. PICK h \in FoundFiles \cup {f} : h.doc > g.doc
        BY <3>2, <1>3, Zenon DEF Earlier
      <4>2. g # f
        BY <4>1, <1>4, <1>5, SMT
      <4>. QED  BY <4>2, <3>2, <1>3, Zenon DEF Earlier
    <3>. QED  BY <3>1, <3>2, Zenon
  <2>2. ~Full(FoundFiles)
    BY <1>1, LimitIsFull, Zenon
  <2>. QED  BY <2>1, <2>2, <1>1, Zenon DEF Full, important
<1>19. stats'.FilesSkipped = 0
  BY <1>1, <1>8, Zenon DEF LoopInv
<1>20. ~(stats'.FilesSkipped > 0)
  BY <1>19, SMT
<1>21. course' \notin {"idle", "parsed"}
  BY <1>1, SMT
<1>. QED  BY <1>9, <1>14, <1>17, <1>18, <1>19, <1>20, <1>21, Zenon DEF LoopInv

\* Every turn moves on: the document it is about is a later one.
LEMMA NextDocLater == ASSUME LoopInv, NEW answer \in Nat  PROVE nextDoc(answer) \in Int /\ nextDoc(answer) > lastDoc
  BY SMT DEF LoopInv, LoopTypeOK, nextDoc

LEMMA LoopStepInv == LoopInv /\ [LoopNext]_loopVars => LoopInv'
<1> SUFFICES ASSUME LoopInv, [LoopNext]_loopVars  PROVE LoopInv'
  BY Zenon
<1>1. CASE UNCHANGED loopVars
  <2>1. FoundFiles' = FoundFiles /\ Earlier' = Earlier
    BY <1>1, Zenon DEF loopVars, FoundFiles, Earlier
  <2>2. LoopTypeOK' /\ FilesOK' /\ CountsExact'
    BY <1>1, <2>1, Zenon DEF loopVars, LoopInv, LoopTypeOK, FilesOK, CountsExact, important, FileMatchOf
  <2>. QED  BY <1>1, <2>1, <2>2, Zenon DEF loopVars, LoopInv, Full, important
<1>2. CASE LoopNext
  <2>1. ASSUME NEW p \in {"parsed", "rejected"}, Receive(p)  PROVE LoopInv'
    BY <2>1, ReceiveInv, Zenon
  <2>2. CASE Interrupt
    BY <2>2, InterruptInv, Zenon
  <2>3. ASSUME NEW p \in {"done", "listed", "skipped", "error", "crashed"}, NEW n \in Nat, Leave(p, n)  PROVE LoopInv'
    BY <2>3, LeaveInv, Zenon
  <2>4. ASSUME NEW b \in Bounds, b.Documents = b.docCount, Enter(b)  PROVE LoopInv'
    BY <2>4, EnterInv, Zenon
  <2>5. ASSUME NEW answer \in Nat, Exhausted(nextDoc(answer))  PROVE LoopInv'
    BY <2>5, ExhaustedInv, Zenon
  <2>6. ASSUME NEW answer \in Nat, StopEarly(nextDoc(answer))  PROVE LoopInv'
    BY <2>6, NextDocLater, StopEarlyInv, Zenon
  <2>7. ASSUME NEW answer \in Nat, NEW decided \in BOOLEAN, LookAt(nextDoc(answer), decided, <<>>)  PROVE LoopInv'
    BY <2>7, NextDocLater, MissInv, Zenon
  <2>8. ASSUME NEW answer \in Nat, NEW f, FileMatchOf(f, nextDoc(answer)), LookAt(nextDoc(answer), TRUE, <<f>>)  PROVE LoopInv'
    BY <2>8, NextDocLater, HitInv, Zenon
  <2>. QED  BY <1>2, <2>1, <2>2, <2>3, <2>4, <2>5, <2>6, <2>7, <2>8, Zenon DEF LoopNext
<1>. QED  BY <1>1, <1>2, Zenon

-----------------------------------------------------------------------------
THEOREM LoopInvariance == LoopSpec => []LoopInv
<1>1. LoopInit => LoopInv
  BY LoopInitInv, Zenon
<1>2. LoopInv /\ [LoopNext]_loopVars => LoopInv'
  BY LoopStepInv, Zenon
<1>. QED  BY <1>1, <1>2, PTL DEF LoopSpec

\* For any number of documents, any limits and whatever the match tree finds,
\* a search leaves documents out only when it was cancelled or is full, says
\* how many, and never goes on once it is full (indexData.Search).
THEOREM LimitsHold == LoopSpec => []StopsAtLimit
<1>1. LoopInv => StopsAtLimit
  <2> SUFFICES ASSUME LoopInv, stats.FilesSkipped > 0  PROVE stats.FilesSkipped = Cardinality(lastDoc..(bounds.docCount - 1))
    BY Zenon DEF LoopInv, StopsAtLimit, Earlier
  <2>1. lastDoc < bounds.docCount /\ stats.FilesSkipped = bounds.docCount - lastDoc
    BY Zenon DEF LoopInv
  <2>2. lastDoc \in Int /\ bounds.docCount \in Nat
    BY Zenon DEF LoopInv, LoopTypeOK, Bounds
  <2>3. bounds.docCount - 1 \in Int
    BY <2>2, SMT
  <2>4. Cardinality(lastDoc..(bounds.docCount - 1)) = IF lastDoc > bounds.docCount - 1 THEN 0 ELSE (bounds.docCount - 1) - lastDoc + 1
    BY <2>2, <2>3, FS_Interval, Zenon
  <2>. QED  BY <2>1, <2>2, <2>4, SMT
<1>. QED  BY <1>1, LoopInvariance, PTL

\* The statistics of a search, at every step and after the unstable sort of
\* its result, are those of the files it has, one for a document at most.
THEOREM CountsHold == LoopSpec => []CountsExact
<1>1. LoopInv => CountsExact
  BY Zenon DEF LoopInv
<1>. QED  BY <1>1, LoopInvariance, PTL

\* A step of the loop passes at least one document more, and there are
\* finitely many: the loop of Search ends whatever the match tree answers.
LooksForward == [][course = "search" /\ course' = "search" /\ canceled' = canceled => lastDoc < lastDoc' /\ lastDoc' < bounds.docCount]_loopVars

\* No document is looked at twice and none beyond the last one.
THEOREM LoopAdvances == LoopSpec => LooksForward
<1> DEFINE A == course = "search" /\ course' = "search" /\ canceled' = canceled => lastDoc < lastDoc' /\ lastDoc' < bounds.docCount
<1>1. LoopInv /\ [LoopNext]_loopVars => [A]_loopVars
  <2> SUFFICES ASSUME LoopInv, LoopNext, course = "search", course' = "search", canceled' = canceled
               PROVE  lastDoc < lastDoc' /\ lastDoc' < bounds.docCount
    BY Zenon
  <2>1. ~Interrupt
    BY Zenon DEF Interrupt
  <2>2. \E answer \in Nat : \E decided, found : LookAt(nextDoc(answer), decided, found)
    BY <2>1, Zenon DEF LoopNext, Receive, Leave, Enter, Exhausted, StopEarly, Returns
  <2>3. PICK answer \in Nat : \E decided, found : LookAt(nextDoc(answer), decided, found)
    BY <2>2, Zenon
  <2>4. lastDoc' = nextDoc(answer) /\ nextDoc(answer) < bounds.docCount
    BY <2>3, Zenon DEF LookAt
  <2>. QED  BY <2>4, NextDocLater, SMT DEF LoopInv, LoopTypeOK, Bounds
<1>. QED  BY <1>1, LoopInvariance, PTL DEF LoopSpec, LooksForward
=============================================================================
