----------------------------- MODULE IndexServer -----------------------------
(***************************************************************************)
(* cmd/zoekt-sourcegraph-indexserver: one goroutine asks Sourcegraph which *)
(* repositories exist and where their HEADs are, fills the queue and       *)
(* deletes the indexes of repositories that are gone; another one takes    *)
(* repositories from the queue and indexes them; an HTTP request indexes a *)
(* repository as well, past the queue.  The queue lives in memory only.    *)
(***************************************************************************)
EXTENDS IndexQueue, FiniteSets

CONSTANTS
  SemSize,     \* resolveRevision calls at a time (32)
  MaxFaults,   \* bound: failures of other services and of indexing, restarts
  MaxChanges,  \* bound: pushes, repositories enabled or disabled, HTTP requests
  NoIndex,     \* absence of an index
  Nobody       \* no repository

ASSUME IndexServerAssumption ==
  /\ SemSize \in Nat \ {0}
  /\ MaxFaults \in Nat /\ MaxChanges \in Nat
  /\ NoIndex \notin Commits
  /\ Nobody \notin Repos

VARIABLES
  heads,      \* gitserver: HEAD of each repository, 0 when it has none
  enabled,    \* Sourcegraph: the repositories to index
  disk,       \* the index directory: the commit indexed for each repository
  spc,        \* where the sync goroutine is
  repos,      \* what listRepos returned
  unresolved, \* names whose resolveRevision goroutine has not started
  resolved,   \* running goroutines: the commit they read, or none yet
  undeleted,  \* repositories deleteStaleIndexes has not looked at
  job,        \* what the main loop ("main") and the HTTP handler ("post") index
  faults, changes,  \* counters of the bounds
  failed      \* history: repositories whose last indexing by the loop failed

worldVars == <<heads, enabled>>
syncVars == <<spc, repos, unresolved, resolved, undeleted>>
vars == <<queueVars, worldVars, syncVars, disk, job, faults, changes, failed>>

Idle == [repo |-> Nobody, commit |-> 0, at |-> "idle"]
Reading == NoIndex   \* a resolveRevision call without an answer yet
Active == {r \in Repos : resolved[r].running}

SyncInit ==
  /\ spc = "list"
  /\ repos = {}
  /\ unresolved = {}
  /\ resolved = [r \in Repos |-> [running |-> FALSE, commit |-> Reading]]
  /\ undeleted = {}

Init ==
  /\ QueueInit
  /\ SyncInit
  /\ heads = [r \in Repos |-> MaxCommit]
  /\ enabled = Repos
  /\ faults = 0 /\ changes = 0
  /\ disk = [r \in Repos |-> NoIndex]
  /\ job = [a \in {"main", "post"} |-> Idle]
  /\ failed = {}

-----------------------------------------------------------------------------
(* The world around *)

(* HEAD of a repository moves, appears or goes away. *)
Push(r) ==
  /\ changes < MaxChanges
  /\ changes' = changes + 1
  /\ \E c \in Commits \ {heads[r]} : heads' = [heads EXCEPT ![r] = c]
  /\ UNCHANGED <<queueVars, enabled, syncVars, disk, job, faults, failed>>

Toggle(r) ==
  /\ changes < MaxChanges
  /\ changes' = changes + 1
  /\ enabled' = IF r \in enabled THEN enabled \ {r} ELSE enabled \cup {r}
  /\ UNCHANGED <<queueVars, heads, syncVars, disk, job, faults, failed>>

(* The server is killed and started again; only the directory survives. *)
Restart ==
  /\ faults < MaxFaults
  /\ faults' = faults + 1
  /\ indexedCommit' = [r \in Repos |-> 0]
  /\ latestCommit' = [r \in Repos |-> 0]
  /\ order' = <<>>
  /\ spc' = "list" /\ repos' = {} /\ unresolved' = {} /\ undeleted' = {}
  /\ resolved' = [r \in Repos |-> [running |-> FALSE, commit |-> Reading]]
  /\ job' = [a \in {"main", "post"} |-> Idle]
  /\ failed' = {}
  /\ UNCHANGED <<worldVars, disk, changes>>

-----------------------------------------------------------------------------
(* The sync goroutine. Its ticker only delays the next round. *)

ListRepos ==
  /\ spc = "list"
  /\ \/ /\ repos' = enabled
        /\ unresolved' = enabled
        /\ spc' = "resolve"
        /\ UNCHANGED faults
     \/ /\ faults < MaxFaults
        /\ faults' = faults + 1
        /\ UNCHANGED <<spc, repos, unresolved>>
  /\ UNCHANGED <<queueVars, worldVars, resolved, undeleted, disk, job, changes, failed>>

(* sem.Acquire and the goroutine for one repository. *)
ResolveStarts(r) ==
  /\ spc = "resolve"
  /\ r \in unresolved
  /\ Cardinality(Active) < SemSize
  /\ unresolved' = unresolved \ {r}
  /\ resolved' = [resolved EXCEPT ![r] = [running |-> TRUE, commit |-> Reading]]
  /\ UNCHANGED <<queueVars, worldVars, spc, repos, undeleted, disk, job, faults, changes, failed>>

(* resolveRevision answers, "" when there is no HEAD, or fails; the answer   *)
(* may be old by the time it is queued.                                     *)
ResolveAnswers(r) ==
  /\ resolved[r].running
  /\ resolved[r].commit = Reading
  /\ \/ /\ resolved' = [resolved EXCEPT ![r].commit = heads[r]]
        /\ UNCHANGED faults
     \/ /\ faults < MaxFaults
        /\ faults' = faults + 1
        /\ resolved' = [resolved EXCEPT ![r].running = FALSE]
  /\ UNCHANGED <<queueVars, worldVars, spc, repos, unresolved, undeleted, disk, job, changes, failed>>

(* The queue is updated without the answer (a mutation of ResolveQueues). *)
ResolveQueuesEarly(r) ==
  /\ resolved[r].running
  /\ AddOrUpdate(r, resolved[r].commit)
  /\ resolved' = [resolved EXCEPT ![r] = [running |-> FALSE, commit |-> Reading]]
  /\ UNCHANGED <<worldVars, spc, repos, unresolved, undeleted, disk, job, faults, changes, failed>>

ResolveQueues(r) ==
  /\ resolved[r].running
  /\ resolved[r].commit # Reading
  /\ AddOrUpdate(r, resolved[r].commit)
  /\ resolved' = [resolved EXCEPT ![r] = [running |-> FALSE, commit |-> Reading]]
  /\ UNCHANGED <<worldVars, spc, repos, unresolved, undeleted, disk, job, faults, changes, failed>>

(* sem.Wait, then the Glob of deleteStaleIndexes unless the list was empty.  *)
ResolveEnds ==
  /\ spc = "resolve"
  /\ unresolved = {}
  /\ Active = {}
  /\ spc' = IF repos # {} THEN "delete" ELSE "list"
  /\ undeleted' = IF repos # {} THEN {r \in Repos : disk[r] # NoIndex} ELSE {}
  /\ UNCHANGED <<queueVars, worldVars, repos, unresolved, resolved, disk, job, faults, changes, failed>>

(* deleteIfStale without a look at the list (a mutation of DeleteIfStale). *)
DeleteAlways(r) ==
  /\ spc = "delete"
  /\ r \in undeleted
  /\ undeleted' = undeleted \ {r}
  /\ disk' = [disk EXCEPT ![r] = NoIndex]
  /\ UNCHANGED <<queueVars, worldVars, spc, repos, unresolved, resolved, job, faults, changes, failed>>

DeleteIfStale(r) ==
  /\ spc = "delete"
  /\ r \in undeleted
  /\ undeleted' = undeleted \ {r}
  /\ disk' = [disk EXCEPT ![r] = IF r \in repos THEN @ ELSE NoIndex]
  /\ UNCHANGED <<queueVars, worldVars, spc, repos, unresolved, resolved, job, faults, changes, failed>>

DeleteEnds ==
  /\ spc = "delete"
  /\ undeleted = {}
  /\ spc' = "list"
  /\ repos' = {}
  /\ UNCHANGED <<queueVars, worldVars, unresolved, resolved, undeleted, disk, job,
                 faults, changes, failed>>

-----------------------------------------------------------------------------
(* Index, for the main loop and for the HTTP handler *)

(* The main loop pops a repository and starts zoekt-archive-index. *)
PopJob(r) ==
  /\ job["main"] = Idle
  /\ Pop(r)
  /\ job' = [job EXCEPT !["main"] = [repo |-> r, commit |-> latestCommit[r], at |-> "start"]]
  /\ UNCHANGED <<worldVars, syncVars, disk, faults, changes, failed>>

(* POST: resolveRevision answers the handler, which then indexes. *)
PostJob(r) ==
  /\ job["post"] = Idle
  /\ changes < MaxChanges
  /\ changes' = changes + 1
  /\ job' = [job EXCEPT !["post"] = [repo |-> r, commit |-> heads[r], at |-> "start"]]
  /\ UNCHANGED <<queueVars, worldVars, syncVars, disk, faults, failed>>

(* -incremental: the indexer leaves an index of this commit as it is. *)
IndexReads(a) ==
  /\ job[a].at = "start"
  /\ job' = [job EXCEPT ![a].at = IF disk[job[a].repo] = job[a].commit THEN "ok" ELSE "build"]
  /\ UNCHANGED <<queueVars, worldVars, syncVars, disk, faults, changes, failed>>

(* The build succeeds and replaces the index. A commit "" makes an empty one *)
(* under a dummy commit, which 0 stands for here.                           *)
IndexBuilds(a) ==
  /\ job[a].at = "build"
  /\ job' = [job EXCEPT ![a].at = "ok"]
  /\ disk' = [disk EXCEPT ![job[a].repo] = job[a].commit]
  /\ UNCHANGED <<queueVars, worldVars, syncVars, faults, changes, failed>>

IndexFails(a) ==
  /\ job[a].at \in {"start", "build"}
  /\ faults < MaxFaults
  /\ faults' = faults + 1
  /\ job' = [job EXCEPT ![a].at = "failed"]
  /\ UNCHANGED <<queueVars, worldVars, syncVars, disk, changes, failed>>

(* The main loop notes a success in the queue; the HTTP handler does not. *)
JobEnds(a) ==
  /\ job[a].at \in {"ok", "failed"}
  /\ job' = [job EXCEPT ![a] = Idle]
  /\ LET r == job[a].repo
     IN  IF a = "main" /\ job[a].at = "ok"
         THEN SetIndexed(r, job[a].commit) /\ failed' = failed \ {r}
         ELSE /\ failed' = IF a = "main" THEN failed \cup {r} ELSE failed
              /\ UNCHANGED queueVars
  /\ UNCHANGED <<worldVars, syncVars, disk, faults, changes>>

-----------------------------------------------------------------------------

SyncSteps ==
  \/ ListRepos
  \/ \E r \in Repos : ResolveStarts(r)
  \/ ResolveEnds
  \/ \E r \in Repos : DeleteIfStale(r)
  \/ DeleteEnds

ResolveSteps(r) == ResolveAnswers(r) \/ ResolveQueues(r)

JobSteps(a) == IndexReads(a) \/ IndexBuilds(a) \/ IndexFails(a) \/ JobEnds(a)

Next ==
  \/ \E r \in Repos : Push(r) \/ Toggle(r)
  \/ Restart
  \/ SyncSteps
  \/ \E r \in Repos : ResolveSteps(r) \/ PopJob(r) \/ PostJob(r)
  \/ \E a \in {"main", "post"} : JobSteps(a)

Spec == Init /\ [][Next]_vars

(* The goroutines run, requests are answered and the indexer ends; HEADs,    *)
(* lists and requests change only so often, and so do things that fail.     *)
FairSpec ==
  /\ Spec
  /\ WF_vars(SyncSteps)
  /\ \A r \in Repos : WF_vars(ResolveSteps(r))
  /\ WF_vars(\E r \in Repos : PopJob(r))
  /\ \A a \in {"main", "post"} : WF_vars(JobSteps(a))

-----------------------------------------------------------------------------
(* Properties *)

(* Every variable has its type: only an answered commit gets into the queue. *)
TypeOK ==
  /\ indexedCommit \in [Repos -> Commits]
  /\ latestCommit \in [Repos -> Commits]
  /\ order \in Seq(Repos)
  /\ heads \in [Repos -> Commits]
  /\ enabled \in SUBSET Repos
  /\ disk \in [Repos -> Commits \cup {NoIndex}]
  /\ spc \in {"list", "resolve", "delete"}
  /\ repos \in SUBSET Repos
  /\ unresolved \in SUBSET Repos
  /\ resolved \in [Repos -> [running : BOOLEAN, commit : Commits \cup {Reading}]]
  /\ undeleted \in SUBSET Repos
  /\ job \in [{"main", "post"} -> [repo : Repos \cup {Nobody}, commit : Commits,
                                   at : {"idle", "start", "build", "ok", "failed"}]]
  /\ faults \in 0..MaxFaults /\ changes \in 0..MaxChanges
  /\ failed \in SUBSET Repos

(* A repository the queue knows to be stale is on the queue, or being        *)
(* indexed, or was tried and failed: an update that arrives while the loop  *)
(* indexes the repository is not lost when SetIndexed follows with the      *)
(* commit that was popped.                                                  *)
NoForgottenRepo ==
  \A r \in Repos : Stale(r) => r \in Queued \/ job["main"].repo = r \/ r \in failed

(* Once HEADs, lists and failures have settled, the directory has an index   *)
(* of every enabled repository at its HEAD, and of no other unless the list *)
(* is empty, when nothing is deleted. Deletions by an old list, answers     *)
(* that were old when queued, and HTTP requests that race the loop are all  *)
(* made good by a later sync.                                               *)
IndexesConverge ==
  <>[](\A r \in Repos : IF r \in enabled THEN disk[r] = heads[r]
                        ELSE disk[r] = NoIndex \/ enabled = {})
=============================================================================
