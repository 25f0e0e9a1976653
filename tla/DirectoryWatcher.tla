-------------------------- MODULE DirectoryWatcher --------------------------
(***************************************************************************)
(* shards/watcher.go: the watcher keeps the loader's shards equal to the   *)
(* index files of a directory.  A scan globs the directory, stats every    *)
(* file, and drops and loads what differs from the modification times of   *)
(* the last scan; index writers change the directory all the while.        *)
(***************************************************************************)
EXTENDS Integers, FiniteSets

CONSTANTS
  Keys,         \* names of index files
  NoFile,       \* absence of a file
  MaxChanges,   \* bound: changes made to the directory
  MaxTime       \* bound: the highest modification time

ASSUME DirectoryWatcherAssumption ==
  /\ MaxChanges \in Nat
  /\ MaxTime \in Nat
  /\ NoFile \notin [version : 1..MaxChanges, mtime : 0..MaxTime]

VARIABLES
  disk,        \* the file under each name: NoFile, or its content and mtime
  changes,     \* changes made so far
  clock,       \* the file system's time, as coarse as its timestamps are
  watching,    \* watcher.Add has been called
  events,      \* events that wait in watcher.Events
  phase,       \* where scan is
  names,       \* what Glob returned and Lstat has not seen yet
  ts,          \* the modification times of this scan; -1 for a missing key
  timestamps,  \* shardWatcher.timestamps; -1 for a missing key
  toDrop,      \* keys whose drop call is due
  toLoad,      \* keys whose load call has not ended
  served,      \* what the loader serves
  called,      \* the last call made on the loader for each key
  quit,        \* Close was called
  failed,      \* history: keys whose last load failed
  unseen       \* history: a change since the last Glob raised no event

dirVars == <<disk, changes, clock>>
scanVars == <<phase, names, ts, timestamps, toDrop, toLoad>>
loaderVars == <<served, called, failed>>
watchVars == <<dirVars, scanVars, loaderVars, watching, events, quit, unseen>>

Files == [version : 1..MaxChanges, mtime : 0..MaxTime]
Present == {k \in Keys : disk[k] # NoFile}

WatchInit ==
  /\ disk = [k \in Keys |-> NoFile]
  /\ changes = 0
  /\ clock = 0
  /\ watching = FALSE
  /\ events = 0
  /\ phase = "start"
  /\ names = {}
  /\ ts = [k \in Keys |-> -1]
  /\ timestamps = [k \in Keys |-> -1]
  /\ toDrop = {}
  /\ toLoad = {}
  /\ served = [k \in Keys |-> NoFile]
  /\ called = [k \in Keys |-> "none"]
  /\ quit = FALSE
  /\ failed = {}
  /\ unseen = FALSE

-----------------------------------------------------------------------------
(* The directory *)

Tick ==
  /\ clock < MaxTime
  /\ clock' = clock + 1
  /\ UNCHANGED <<disk, changes, scanVars, loaderVars, watching, events, quit, unseen>>

(* An index writer renames a new file to k or removes k, and inotify reports *)
(* it once the directory is watched.                                        *)
Change(k) ==
  /\ changes < MaxChanges
  /\ changes' = changes + 1
  /\ \/ disk' = [disk EXCEPT ![k] = [version |-> changes + 1, mtime |-> clock]]
     \/ disk[k] # NoFile /\ disk' = [disk EXCEPT ![k] = NoFile]
  /\ events' = IF watching THEN events + 1 ELSE events
  /\ unseen' = (unseen \/ ~watching)
  /\ UNCHANGED <<clock, scanVars, loaderVars, watching, quit>>

-----------------------------------------------------------------------------
(* The watcher *)

Glob ==
  /\ phase' = "stat"
  /\ names' = Present
  /\ ts' = [k \in Keys |-> -1]
  /\ unseen' = FALSE
  /\ UNCHANGED <<dirVars, timestamps, toDrop, toLoad, loaderVars, watching, quit>>

(* NewDirectoryWatcher scans before it watches. *)
FirstScan ==
  /\ phase = "start"
  /\ Glob
  /\ UNCHANGED events

(* Lstat of one file that Glob has returned; it may be gone. *)
Stat(k) ==
  /\ phase = "stat"
  /\ k \in names
  /\ names' = names \ {k}
  /\ ts' = [ts EXCEPT ![k] = IF disk[k] = NoFile THEN -1 ELSE disk[k].mtime]
  /\ UNCHANGED <<dirVars, phase, timestamps, toDrop, toLoad, loaderVars,
                 watching, events, quit, unseen>>

(* Differs that forgets the modification time (a mutation of Differs). *)
DiffersNewOnly(k) == ts[k] # -1 /\ timestamps[k] = -1

Differs(k) == ts[k] # -1 /\ timestamps[k] # ts[k]

(* Diff that keeps the timestamps of deleted files (a mutation of Diff). *)
DiffKeepsDeleted ==
  /\ phase = "stat"
  /\ names = {}
  /\ phase' = "load"
  /\ toLoad' = {k \in Keys : Differs(k)}
  /\ toDrop' = {k \in Keys : timestamps[k] # -1 /\ ts[k] = -1}
  /\ timestamps' = [k \in Keys |-> IF ts[k] = -1 THEN timestamps[k] ELSE ts[k]]
  /\ UNCHANGED <<dirVars, names, ts, loaderVars, watching, events, quit, unseen>>

(* The timestamps become those of this scan before any load is tried. *)
Diff ==
  /\ phase = "stat"
  /\ names = {}
  /\ phase' = "load"
  /\ toLoad' = {k \in Keys : Differs(k)}
  /\ toDrop' = {k \in Keys : timestamps[k] # -1 /\ ts[k] = -1}
  /\ timestamps' = ts
  /\ UNCHANGED <<dirVars, names, ts, loaderVars, watching, events, quit, unseen>>

Drop(k) ==
  /\ phase = "load"
  /\ k \in toDrop
  /\ toDrop' = toDrop \ {k}
  /\ served' = [served EXCEPT ![k] = NoFile]
  /\ called' = [called EXCEPT ![k] = "drop"]
  /\ failed' = failed \ {k}
  /\ UNCHANGED <<dirVars, phase, names, ts, timestamps, toLoad, watching, events, quit, unseen>>

(* A failed load that skips wg.Done (a mutation of Load). *)
LoadForgetsDone(k) ==
  /\ phase = "load"
  /\ toDrop = {}
  /\ k \in toLoad
  /\ called' = [called EXCEPT ![k] = "load"]
  /\ \/ /\ disk[k] # NoFile
        /\ toLoad' = toLoad \ {k}
        /\ served' = [served EXCEPT ![k] = disk[k]]
        /\ failed' = failed \ {k}
     \/ /\ failed' = failed \cup {k}
        /\ UNCHANGED <<served, toLoad>>
  /\ UNCHANGED <<dirVars, phase, names, ts, timestamps, toDrop, watching, events, quit, unseen>>

(* load opens the file that is there now; it may be missing or corrupt, then *)
(* the loader keeps what it has. Loads start when the drops are done.       *)
Load(k) ==
  /\ phase = "load"
  /\ toDrop = {}
  /\ k \in toLoad
  /\ toLoad' = toLoad \ {k}
  /\ called' = [called EXCEPT ![k] = "load"]
  /\ \/ /\ disk[k] # NoFile
        /\ served' = [served EXCEPT ![k] = disk[k]]
        /\ failed' = failed \ {k}
     \/ /\ failed' = failed \cup {k}
        /\ UNCHANGED served
  /\ UNCHANGED <<dirVars, phase, names, ts, timestamps, toDrop, watching, events, quit, unseen>>

(* The scan is over when every load is: wg.Wait. The first one is followed   *)
(* by watcher.Add.                                                          *)
ScanEnds ==
  /\ phase = "load"
  /\ toDrop = {}
  /\ toLoad = {}
  /\ phase' = "idle"
  /\ watching' = TRUE
  /\ UNCHANGED <<dirVars, names, ts, timestamps, toDrop, toLoad, loaderVars,
                 events, quit, unseen>>

(* watcher.Add fails, and with it NewDirectoryWatcher. *)
WatchFails ==
  /\ phase = "load"
  /\ toDrop = {}
  /\ toLoad = {}
  /\ ~watching
  /\ phase' = "stopped"
  /\ UNCHANGED <<dirVars, names, ts, timestamps, toDrop, toLoad, loaderVars,
                 watching, events, quit, unseen>>

(* Taking an event that is not there (a mutation of OnEvent). *)
OnEventAlways ==
  /\ phase = "idle"
  /\ Glob
  /\ events' = events - 1

(* The select loop receives an event and scans. *)
OnEvent ==
  /\ phase = "idle"
  /\ events > 0
  /\ Glob
  /\ events' = events - 1

(* Close, and the select loop that takes quitter; a waiting event may still  *)
(* be chosen before it.                                                     *)
CloseWatcher ==
  /\ watching
  /\ ~quit
  /\ quit' = TRUE
  /\ UNCHANGED <<dirVars, scanVars, loaderVars, watching, events, unseen>>

OnQuit ==
  /\ phase = "idle"
  /\ quit
  /\ phase' = "stopped"
  /\ watching' = FALSE
  /\ events' = 0
  /\ unseen' = (unseen \/ events > 0)
  /\ UNCHANGED <<dirVars, names, ts, timestamps, toDrop, toLoad, loaderVars, quit>>

ScanSteps ==
  \/ FirstScan
  \/ \E k \in Keys : Stat(k)
  \/ Diff
  \/ \E k \in Keys : Drop(k)
  \/ \E k \in Keys : Load(k)
  \/ ScanEnds
  \/ WatchFails
  \/ OnEvent
  \/ OnQuit

WatchNext ==
  \/ Tick
  \/ \E k \in Keys : Change(k)
  \/ ScanSteps
  \/ CloseWatcher

WatchSpec == WatchInit /\ [][WatchNext]_watchVars

(* The watcher's goroutine runs; nobody has to change files or call Close. *)
WatchFairSpec == WatchSpec /\ WF_watchVars(ScanSteps)

-----------------------------------------------------------------------------
(* Properties *)

Quiet == phase = "idle" /\ events = 0 /\ ~unseen

(* Every variable has its type: the watcher takes no more events than there  *)
(* were changes.                                                            *)
WatchTypeOK ==
  /\ disk \in [Keys -> Files \cup {NoFile}]
  /\ changes \in 0..MaxChanges
  /\ clock \in 0..MaxTime
  /\ watching \in BOOLEAN
  /\ events \in 0..MaxChanges
  /\ phase \in {"start", "stat", "load", "idle", "stopped"}
  /\ names \in SUBSET Keys
  /\ ts \in [Keys -> -1..MaxTime]
  /\ timestamps \in [Keys -> -1..MaxTime]
  /\ toDrop \in SUBSET Keys
  /\ toLoad \in SUBSET Keys
  /\ served \in [Keys -> Files \cup {NoFile}]
  /\ called \in [Keys -> {"none", "load", "drop"}]
  /\ quit \in BOOLEAN
  /\ failed \in SUBSET Keys
  /\ unseen \in BOOLEAN

(* When the watcher has nothing left to do, the loader serves what is on     *)
(* disk, however files changed between Glob, Lstat and load; except a key   *)
(* whose load failed and one replaced within the same timestamp, which scan *)
(* does not try again, and changes made between the first scan and          *)
(* watcher.Add.                                                             *)
QuietMeansCurrent ==
  Quiet => \A k \in Keys :
    \/ served[k] = disk[k]
    \/ k \in failed /\ disk[k] # NoFile
    \/ disk[k] # NoFile /\ served[k] # NoFile /\ served[k].mtime = disk[k].mtime

(* A key is dropped once, after a load, however often scans run (the test    *)
(* TestDirWatcherUnloadOnce).                                               *)
DropsFollowLoads == \A k \in toDrop : called[k] = "load"

(* The directory stops changing, so the watcher comes to rest. *)
ComesToRest == <>[](phase \in {"idle", "stopped"} /\ events = 0)
=============================================================================
