-------------------------- MODULE IndexServer_proofs --------------------------
(***************************************************************************)
(* The index server forgets no stale repository, for any repositories,     *)
(* commits, failures, restarts and requests.                               *)
(***************************************************************************)
EXTENDS IndexServer, SequenceTheorems, TLAPS

(* Whoever indexes has a repository to index. *)
BusyWithRepo == \A a \in {"main", "post"} : job[a].at # "idle" => job[a].repo \in Repos

(* A commit that arrived while the main loop indexes an older one has put    *)
(* the repository on the queue again: what SetIndexed with the old commit   *)
(* relies on.                                                               *)
NewerIsQueued ==
  \A r \in Repos :
    job["main"].repo = r /\ latestCommit[r] # job["main"].commit => r \in Queued

ServerInv ==
  /\ TypeOK
  /\ BusyWithRepo
  /\ NewerIsQueued
  /\ NoForgottenRepo

-----------------------------------------------------------------------------

(* Append queues its element and keeps the others. *)
LEMMA AppendQueues ==
  ASSUME NEW s \in Seq(Repos), NEW r \in Repos
  PROVE  /\ Append(s, r) \in Seq(Repos)
         /\ {Append(s, r)[i] : i \in 1..Len(Append(s, r))} = {s[i] : i \in 1..Len(s)} \cup {r}
<1>1. /\ Append(s, r) \in Seq(Repos)
      /\ Len(Append(s, r)) = Len(s) + 1
      /\ \A i \in 1..Len(s) : Append(s, r)[i] = s[i]
      /\ Append(s, r)[Len(s) + 1] = r
  BY AppendProperties
<1>2. 1..(Len(s) + 1) = 1..Len(s) \cup {Len(s) + 1}
  BY LenProperties
<1> QED  BY <1>1, <1>2

-----------------------------------------------------------------------------
(* The operations of the queue. *)

(* AddOrUpdate queues the repository, and takes none off. *)
LEMMA AddQueues ==
  ASSUME TypeOK, NEW r \in Repos, NEW c \in Commits, AddOrUpdate(r, c)
  PROVE  /\ order' \in Seq(Repos)
         /\ Queued' = Queued \cup {r}
         /\ latestCommit' \in [Repos -> Commits]
         /\ \A q \in Repos : latestCommit'[q] = IF q = r THEN c ELSE latestCommit[q]
         /\ indexedCommit' = indexedCommit
<1>1. CASE r \in Queued
  BY <1>1 DEF AddOrUpdate, TypeOK, Queued
<1>2. CASE r \notin Queued
  <2>1. order' = Append(order, r) /\ order \in Seq(Repos)
    BY <1>2 DEF AddOrUpdate, TypeOK
  <2>2. /\ Append(order, r) \in Seq(Repos)
        /\ {Append(order, r)[i] : i \in 1..Len(Append(order, r))}
             = {order[i] : i \in 1..Len(order)} \cup {r}
    BY <2>1, AppendQueues
  <2>3. order' \in Seq(Repos) /\ Queued' = Queued \cup {r}
    BY <2>1, <2>2, Zenon DEF Queued
  <2> QED  BY <2>3 DEF AddOrUpdate, TypeOK
<1> QED  BY <1>1, <1>2

(* Pop takes off the repository it gives and no other. *)
LEMMA PopTakesOne ==
  ASSUME TypeOK, NEW r \in Repos, Pop(r)
  PROVE  /\ order' \in Seq(Repos)
         /\ Queued \ {r} \subseteq Queued'
         /\ UNCHANGED <<indexedCommit, latestCommit>>
<1>1. PICK i \in 1..Len(order) :
        /\ order[i] = r
        /\ order' = SubSeq(order, 1, i - 1) \o SubSeq(order, i + 1, Len(order))
        /\ UNCHANGED <<indexedCommit, latestCommit>>
  BY DEF Pop
<1>2. order \in Seq(Repos)
  BY DEF TypeOK
<1> DEFINE m == Len(order)
           a == SubSeq(order, 1, i - 1)
           b == SubSeq(order, i + 1, m)
<1>3. m \in Nat /\ i \in 1..m
  BY <1>2, LenProperties
<1>4. /\ a \in Seq(Repos) /\ Len(a) = i - 1
      /\ \A j \in 1..(i - 1) : a[j] = order[j]
  BY <1>2, <1>3, SubSeqProperties
<1>5. /\ b \in Seq(Repos) /\ Len(b) = m - i
      /\ \A j \in 1..(m - i) : b[j] = order[i + j]
  BY <1>2, <1>3, SubSeqProperties
<1>6. order' = a \o b
  BY <1>1
<1> HIDE DEF m, a, b
<1>7. /\ a \o b \in Seq(Repos) /\ Len(a \o b) = Len(a) + Len(b)
      /\ \A j \in 1..(Len(a) + Len(b)) : (a \o b)[j] = IF j <= Len(a) THEN a[j] ELSE b[j - Len(a)]
  BY <1>4, <1>5, ConcatProperties
<1>8. /\ order' \in Seq(Repos) /\ Len(order') = m - 1
      /\ \A j \in 1..(m - 1) : order'[j] = IF j <= i - 1 THEN a[j] ELSE b[j - (i - 1)]
  <2>1. Len(a) + Len(b) = m - 1
    BY <1>3, <1>4, <1>5
  <2> QED  BY <1>4, <1>6, <1>7, <2>1, Zenon
<1>9. ASSUME NEW q \in Queued, q # r
      PROVE  q \in Queued'
  <2>1. PICK k \in 1..m : order[k] = q
    BY DEF Queued, m
  <2>2. k # i
    BY <1>1, <1>9, <2>1
  <2>3. SUFFICES \E j \in 1..(m - 1) : order'[j] = q
    BY <1>8 DEF Queued
  <2>4. CASE k < i
    <3>1. k \in 1..(m - 1) /\ k <= i - 1 /\ k \in 1..(i - 1)
      BY <1>3, <2>4
    <3> QED  BY <1>4, <1>8, <2>1, <3>1
  <2>5. CASE ~(k < i)
    <3>1. k - 1 \in 1..(m - 1) /\ ~(k - 1 <= i - 1) /\ (k - 1) - (i - 1) \in 1..(m - i)
      BY <1>3, <2>2, <2>5
    <3>2. i + ((k - 1) - (i - 1)) = k
      BY <1>3
    <3> QED  BY <1>5, <1>8, <2>1, <3>1, <3>2
  <2> QED  BY <2>4, <2>5
<1> QED  BY <1>1, <1>8, <1>9

-----------------------------------------------------------------------------
(* The steps of the server. *)

(* The steps that leave queue, jobs and failures alone, among them all of    *)
(* the world and most of the sync goroutine.                                *)
LEMMA QuietInv ==
  ASSUME ServerInv, TypeOK', UNCHANGED <<queueVars, job, failed>>
  PROVE  ServerInv'
<1>1. Queued' = Queued /\ \A r \in Repos : Stale(r)' = Stale(r)
  BY DEF queueVars, Queued, Stale
<1>2. BusyWithRepo'
  BY DEF ServerInv, BusyWithRepo
<1>3. NewerIsQueued'
  BY <1>1 DEF ServerInv, NewerIsQueued, queueVars
<1>4. NoForgottenRepo'
  BY <1>1 DEF ServerInv, NoForgottenRepo
<1> QED  BY <1>2, <1>3, <1>4 DEF ServerInv

(* A push or a change of the list. *)
LEMMA WorldInv ==
  ASSUME ServerInv, NEW r \in Repos, Push(r) \/ Toggle(r)
  PROVE  ServerInv'
<1>1. changes \in 0..MaxChanges /\ MaxChanges \in Nat
  BY IndexServerAssumption DEF ServerInv, TypeOK
<1>2. changes' \in 0..MaxChanges
  BY <1>1 DEF Push, Toggle
<1>3. heads' \in [Repos -> Commits] /\ enabled' \in SUBSET Repos
  BY DEF Push, Toggle, ServerInv, TypeOK
<1>4. UNCHANGED <<queueVars, syncVars, disk, job, faults, failed>>
  BY DEF Push, Toggle
<1>5. TypeOK'
  BY <1>2, <1>3, <1>4 DEF ServerInv, TypeOK, queueVars, syncVars
<1> QED  BY <1>4, <1>5, QuietInv

(* The sync goroutine: lists, starts resolve goroutines, deletes. *)
LEMMA SyncInv ==
  ASSUME ServerInv, SyncSteps
  PROVE  ServerInv'
<1> USE DEF ServerInv
<1>0. faults \in 0..MaxFaults /\ MaxFaults \in Nat
  BY IndexServerAssumption DEF TypeOK
<1>1. CASE ListRepos
  <2>1. faults' \in 0..MaxFaults
    BY <1>0, <1>1 DEF ListRepos
  <2>2. TypeOK'
    BY <1>1, <2>1 DEF ListRepos, TypeOK, queueVars, worldVars
  <2> QED  BY <1>1, <2>2, QuietInv DEF ListRepos
<1>2. ASSUME NEW r \in Repos, ResolveStarts(r)
      PROVE  ServerInv'
  <2>1. TypeOK'
    BY <1>2 DEF ResolveStarts, TypeOK, queueVars, worldVars
  <2> QED  BY <1>2, <2>1, QuietInv DEF ResolveStarts
<1>3. CASE ResolveEnds
  <2>1. TypeOK'
    BY <1>3 DEF ResolveEnds, TypeOK, queueVars, worldVars
  <2> QED  BY <1>3, <2>1, QuietInv DEF ResolveEnds
<1>4. ASSUME NEW r \in Repos, DeleteIfStale(r)
      PROVE  ServerInv'
  <2>1. TypeOK'
    BY <1>4 DEF DeleteIfStale, TypeOK, queueVars, worldVars
  <2> QED  BY <1>4, <2>1, QuietInv DEF DeleteIfStale
<1>5. CASE DeleteEnds
  <2>1. TypeOK'
    BY <1>5 DEF DeleteEnds, TypeOK, queueVars, worldVars
  <2> QED  BY <1>5, <2>1, QuietInv DEF DeleteEnds
<1> QED  BY <1>1, <1>2, <1>3, <1>4, <1>5 DEF SyncSteps

(* A resolve goroutine: a new commit puts its repository on the queue. *)
LEMMA ResolveInv ==
  ASSUME ServerInv, NEW r \in Repos, ResolveSteps(r)
  PROVE  ServerInv'
<1> USE DEF ServerInv
<1>0. faults \in 0..MaxFaults /\ MaxFaults \in Nat
  BY IndexServerAssumption DEF TypeOK
<1>1. CASE ResolveAnswers(r)
  <2>1. faults' \in 0..MaxFaults
    BY <1>0, <1>1 DEF ResolveAnswers
  <2> DEFINE Answer == [running : BOOLEAN, commit : Commits \cup {Reading}]
  <2>3. resolved \in [Repos -> Answer] /\ heads[r] \in Commits
    BY DEF TypeOK
  <2>4. resolved' \in [Repos -> Answer]
    <3>1. CASE resolved' = [resolved EXCEPT ![r].commit = heads[r]]
      BY <2>3, <3>1
    <3>2. CASE resolved' = [resolved EXCEPT ![r].running = FALSE]
      BY <2>3, <3>2
    <3> QED  BY <1>1, <3>1, <3>2 DEF ResolveAnswers
  <2>2. TypeOK'
    BY <1>1, <2>1, <2>4 DEF ResolveAnswers, TypeOK, queueVars, worldVars
  <2> QED  BY <1>1, <2>2, QuietInv DEF ResolveAnswers
<1>2. CASE ResolveQueues(r)
  <2> DEFINE c == resolved[r].commit
  <2>1. c \in Commits
    BY <1>2 DEF ResolveQueues, TypeOK
  <2>2. AddOrUpdate(r, c)
    BY <1>2 DEF ResolveQueues
  <2> HIDE DEF c
  <2>3. /\ order' \in Seq(Repos)
        /\ Queued' = Queued \cup {r}
        /\ latestCommit' \in [Repos -> Commits]
        /\ \A q \in Repos : latestCommit'[q] = IF q = r THEN c ELSE latestCommit[q]
        /\ indexedCommit' = indexedCommit
    BY <2>1, <2>2, AddQueues
  <2>4. UNCHANGED <<worldVars, spc, repos, unresolved, undeleted, disk, job, faults, changes, failed>>
    BY <1>2 DEF ResolveQueues
  <2>5. resolved' \in [Repos -> [running : BOOLEAN, commit : Commits \cup {Reading}]]
    BY <1>2 DEF ResolveQueues, TypeOK
  <2>6. TypeOK'
    BY <2>3, <2>4, <2>5 DEF TypeOK, worldVars
  <2>7. BusyWithRepo'
    BY <2>4 DEF BusyWithRepo
  <2>8. NewerIsQueued'
    BY <2>3, <2>4 DEF NewerIsQueued
  <2>9. NoForgottenRepo'
    BY <2>3, <2>4 DEF NoForgottenRepo, Stale
  <2> QED  BY <2>6, <2>7, <2>8, <2>9
<1> QED  BY <1>1, <1>2 DEF ResolveSteps

(* A restart empties the queue, and with it what the server knows to be stale. *)
LEMMA RestartInv ==
  ASSUME ServerInv, Restart
  PROVE  ServerInv'
<1> USE DEF ServerInv
<1>0. faults' \in 0..MaxFaults /\ 0 \in Commits
  BY IndexServerAssumption, IndexQueueAssumption DEF TypeOK, Restart, Commits
<1>1. order' \in Seq(Repos)
  BY DEF Restart
<1>2. TypeOK'
  BY <1>0, <1>1 DEF Restart, TypeOK, worldVars, Idle
<1>3. BusyWithRepo'
  BY DEF Restart, BusyWithRepo, Idle
<1>4. NewerIsQueued'
  BY IndexServerAssumption DEF Restart, NewerIsQueued, Idle
<1>5. NoForgottenRepo'
  BY DEF Restart, NoForgottenRepo, Stale
<1> QED  BY <1>2, <1>3, <1>4, <1>5

(* The main loop pops: the repository leaves the queue for the job, which    *)
(* had none, at the commit the queue knows.                                 *)
LEMMA PopInv ==
  ASSUME ServerInv, NEW r \in Repos, PopJob(r)
  PROVE  ServerInv'
<1> USE DEF ServerInv
<1>1. /\ order' \in Seq(Repos)
      /\ Queued \ {r} \subseteq Queued'
      /\ UNCHANGED <<indexedCommit, latestCommit>>
  BY PopTakesOne DEF PopJob
<1>2. /\ job["main"] = Idle
      /\ job' = [job EXCEPT !["main"] = [repo |-> r, commit |-> latestCommit[r], at |-> "start"]]
      /\ UNCHANGED <<worldVars, syncVars, disk, faults, changes, failed>>
  BY DEF PopJob
<1>3. latestCommit[r] \in Commits
  BY DEF TypeOK
<1>4. TypeOK'
  BY <1>1, <1>2, <1>3 DEF TypeOK, worldVars, syncVars
<1>5. /\ job'["main"] = [repo |-> r, commit |-> latestCommit[r], at |-> "start"]
      /\ job'["post"] = job["post"]
  BY <1>2 DEF TypeOK
<1>6. BusyWithRepo'
  BY <1>5 DEF BusyWithRepo
<1>7. NewerIsQueued'
  BY <1>1, <1>5 DEF NewerIsQueued
<1>8. NoForgottenRepo'
  BY <1>1, <1>2, <1>5, IndexServerAssumption DEF NoForgottenRepo, Stale, Idle
<1> QED  BY <1>4, <1>6, <1>7, <1>8

(* An HTTP request gets a job of its own. *)
LEMMA PostInv ==
  ASSUME ServerInv, NEW r \in Repos, PostJob(r)
  PROVE  ServerInv'
<1> USE DEF ServerInv
<1>0. changes' \in 0..MaxChanges
  BY IndexServerAssumption DEF PostJob, TypeOK
<1>1. /\ job' = [job EXCEPT !["post"] = [repo |-> r, commit |-> heads[r], at |-> "start"]]
      /\ UNCHANGED <<queueVars, worldVars, syncVars, disk, faults, failed>>
  BY DEF PostJob
<1>2. heads[r] \in Commits
  BY DEF TypeOK
<1>3. TypeOK'
  BY <1>0, <1>1, <1>2 DEF TypeOK, queueVars, worldVars, syncVars
<1>4. /\ job'["post"] = [repo |-> r, commit |-> heads[r], at |-> "start"]
      /\ job'["main"] = job["main"]
  <2>1. DOMAIN job = {"main", "post"}
    BY DEF TypeOK
  <2> QED  BY <1>1, <2>1
<1>5. Queued' = Queued /\ latestCommit' = latestCommit /\ \A q \in Repos : Stale(q)' = Stale(q)
  BY <1>1 DEF queueVars, Queued, Stale
<1>6. BusyWithRepo'
  BY <1>4 DEF BusyWithRepo
<1>7. NewerIsQueued'
  BY <1>4, <1>5 DEF NewerIsQueued
<1>8. NoForgottenRepo'
  BY <1>1, <1>4, <1>5 DEF NoForgottenRepo
<1> QED  BY <1>3, <1>6, <1>7, <1>8

(* While a job runs only its progress and the index change. *)
LEMMA RunningInv ==
  ASSUME ServerInv, NEW a \in {"main", "post"}, IndexReads(a) \/ IndexBuilds(a) \/ IndexFails(a)
  PROVE  ServerInv'
<1> USE DEF ServerInv
<1>0. faults' \in 0..MaxFaults
  BY IndexServerAssumption DEF IndexReads, IndexBuilds, IndexFails, TypeOK
<1>1. job[a].at # "idle"
  BY DEF IndexReads, IndexBuilds, IndexFails
<1>2. PICK p \in {"ok", "build", "failed"} : job' = [job EXCEPT ![a].at = p]
  BY DEF IndexReads, IndexBuilds, IndexFails
<1>3. UNCHANGED <<queueVars, worldVars, syncVars, changes, failed>>
  BY DEF IndexReads, IndexBuilds, IndexFails
<1>4. disk' \in [Repos -> Commits \cup {NoIndex}]
  <2>1. job[a].commit \in Commits
    BY DEF TypeOK
  <2> QED  BY <2>1 DEF IndexReads, IndexBuilds, IndexFails, TypeOK
<1>5. \A b \in {"main", "post"} :
        /\ job'[b].repo = job[b].repo
        /\ job'[b].commit = job[b].commit
        /\ job'[b].at # "idle" => job[b].at # "idle"
  BY <1>1, <1>2 DEF TypeOK
<1>6. job' \in [{"main", "post"} -> [repo : Repos \cup {Nobody}, commit : Commits,
                                    at : {"idle", "start", "build", "ok", "failed"}]]
  <2> DEFINE Job == [repo : Repos \cup {Nobody}, commit : Commits,
                     at : {"idle", "start", "build", "ok", "failed"}]
  <2>1. job \in [{"main", "post"} -> Job]
    BY DEF TypeOK
  <2>2. [job[a] EXCEPT !.at = p] \in Job
    BY <2>1
  <2>3. job' = [job EXCEPT ![a] = [job[a] EXCEPT !.at = p]]
    BY <1>2
  <2> HIDE DEF Job
  <2>4. job' \in [{"main", "post"} -> Job]
    BY <2>1, <2>2, <2>3
  <2> QED  BY <2>4 DEF Job
<1>7. TypeOK'
  BY <1>0, <1>3, <1>4, <1>6 DEF TypeOK, queueVars, worldVars, syncVars
<1>8. Queued' = Queued /\ latestCommit' = latestCommit /\ \A q \in Repos : Stale(q)' = Stale(q)
  BY <1>3 DEF queueVars, Queued, Stale
<1>9. BusyWithRepo'
  BY <1>5 DEF BusyWithRepo
<1>10. NewerIsQueued'
  BY <1>5, <1>8 DEF NewerIsQueued
<1>11. NoForgottenRepo'
  BY <1>3, <1>5, <1>8 DEF NoForgottenRepo
<1> QED  BY <1>7, <1>9, <1>10, <1>11

(* A job ends. After a success of the main loop the repository is stale only *)
(* if a newer commit has arrived, and then it is queued.                    *)
LEMMA EndInv ==
  ASSUME ServerInv, NEW a \in {"main", "post"}, JobEnds(a)
  PROVE  ServerInv'
<1> USE DEF ServerInv
<1> DEFINE r == job[a].repo
           c == job[a].commit
<1>1. r \in Repos /\ c \in Commits
  BY DEF JobEnds, BusyWithRepo, TypeOK
<1>2. /\ job' = [job EXCEPT ![a] = Idle]
      /\ UNCHANGED <<worldVars, syncVars, disk, faults, changes>>
  BY DEF JobEnds
<1>3. UNCHANGED <<latestCommit, order>>
  BY DEF JobEnds, SetIndexed, queueVars
<1>4. /\ indexedCommit' \in [Repos -> Commits]
      /\ failed' \in SUBSET Repos
  BY <1>1 DEF JobEnds, SetIndexed, queueVars, TypeOK
<1>5. 0 \in Commits
  BY IndexQueueAssumption DEF Commits
<1>6. TypeOK'
  BY <1>2, <1>3, <1>4, <1>5 DEF TypeOK, worldVars, syncVars, Idle
<1>7. \A b \in {"main", "post"} : job'[b] = IF b = a THEN Idle ELSE job[b]
  BY <1>2 DEF TypeOK
<1>8. BusyWithRepo'
  BY <1>7 DEF BusyWithRepo, Idle
<1>9. Queued' = Queued
  BY <1>3 DEF Queued
<1>10. NewerIsQueued'
  BY <1>3, <1>7, <1>9, IndexServerAssumption DEF NewerIsQueued, Idle
<1>11. NoForgottenRepo'
  <2>1. CASE a = "main" /\ job[a].at = "ok"
    <3>1. /\ \A q \in Repos : indexedCommit'[q] = IF q = r THEN c ELSE indexedCommit[q]
          /\ failed' = failed \ {r}
      BY <2>1 DEF JobEnds, SetIndexed, TypeOK
    <3> QED  BY <1>1, <1>3, <1>7, <1>9, <2>1, <3>1 DEF NoForgottenRepo, NewerIsQueued, Stale
  <2>2. CASE a = "main" /\ job[a].at # "ok"
    <3>1. indexedCommit' = indexedCommit /\ failed' = failed \cup {r}
      BY <2>2 DEF JobEnds, queueVars
    <3> QED  BY <1>3, <1>9, <2>2, <3>1 DEF NoForgottenRepo, Stale
  <2>3. CASE a = "post"
    <3>1. indexedCommit' = indexedCommit /\ failed' = failed /\ job'["main"] = job["main"]
      BY <1>7, <2>3 DEF JobEnds, queueVars
    <3> QED  BY <1>3, <1>9, <3>1 DEF NoForgottenRepo, Stale
  <2> QED  BY <2>1, <2>2, <2>3
<1> QED  BY <1>6, <1>8, <1>10, <1>11

-----------------------------------------------------------------------------

(* The server starts with nothing queued, stale or running. *)
LEMMA ServerInitInv == Init => ServerInv
<1> SUFFICES ASSUME Init PROVE ServerInv
  OBVIOUS
<1> USE DEF Init, QueueInit, SyncInit
<1>1. 0 \in Commits /\ MaxCommit \in Commits /\ 0 \in 0..MaxFaults /\ 0 \in 0..MaxChanges
  BY IndexQueueAssumption, IndexServerAssumption DEF Commits
<1>2. order \in Seq(Repos)
  OBVIOUS
<1>3. TypeOK
  BY <1>1, <1>2 DEF TypeOK, Idle
<1>4. BusyWithRepo /\ NewerIsQueued /\ NoForgottenRepo
  BY IndexServerAssumption DEF BusyWithRepo, NewerIsQueued, NoForgottenRepo, Stale, Idle
<1> QED  BY <1>3, <1>4 DEF ServerInv

(* One case per step of the server. *)
LEMMA ServerStepInv == ServerInv /\ [Next]_vars => ServerInv'
<1> SUFFICES ASSUME ServerInv, [Next]_vars PROVE ServerInv'
  OBVIOUS
<1>1. CASE UNCHANGED vars
  <2>1. TypeOK'
    BY <1>1 DEF ServerInv, TypeOK, vars, queueVars, worldVars, syncVars
  <2> QED  BY <1>1, <2>1, QuietInv DEF vars
<1>2. CASE Next
  <2>1. ASSUME NEW r \in Repos, Push(r) \/ Toggle(r)
        PROVE  ServerInv'
    BY <2>1, WorldInv
  <2>2. CASE Restart
    BY <2>2, RestartInv
  <2>3. CASE SyncSteps
    BY <2>3, SyncInv
  <2>4. ASSUME NEW r \in Repos, ResolveSteps(r) \/ PopJob(r) \/ PostJob(r)
        PROVE  ServerInv'
    BY <2>4, ResolveInv, PopInv, PostInv
  <2>5. ASSUME NEW a \in {"main", "post"}, JobSteps(a)
        PROVE  ServerInv'
    BY <2>5, RunningInv, EndInv DEF JobSteps
  <2> QED  BY <1>2, <2>1, <2>2, <2>3, <2>4, <2>5 DEF Next
<1> QED  BY <1>1, <1>2

(* Only an answered commit gets into the queue, and every other variable     *)
(* keeps its type, across failures and restarts.                            *)
THEOREM ServerTypes == Spec => []TypeOK
<1>1. ServerInv => TypeOK
  BY DEF ServerInv
<1> QED  BY <1>1, ServerInitInv, ServerStepInv, PTL DEF Spec

(* Whatever is pushed, listed, requested, fails or restarts, and for any     *)
(* number of repositories and commits: a repository the server knows to be  *)
(* stale is queued, being indexed, or the last attempt at it failed.        *)
THEOREM NoneForgotten == Spec => []NoForgottenRepo
<1>1. ServerInv => NoForgottenRepo
  BY DEF ServerInv
<1> QED  BY <1>1, ServerInitInv, ServerStepInv, PTL DEF Spec

(* A step of the server works the queue as IndexQueue says, with a known     *)
(* repository and an answered commit, or restarts it empty, or leaves it.   *)
UsesQueue == [][QueueNext \/ QueueInit']_queueVars

LEMMA StepUsesQueue == ServerInv /\ [Next]_vars => [QueueNext \/ QueueInit']_queueVars
<1> SUFFICES ASSUME ServerInv, [Next]_vars
             PROVE  QueueNext \/ QueueInit' \/ UNCHANGED queueVars
  BY Zenon
<1>1. CASE UNCHANGED vars
  BY <1>1 DEF vars, queueVars
<1>2. CASE Restart
  BY <1>2, Zenon DEF Restart, QueueInit
<1>3. CASE \E r \in Repos : Push(r) \/ Toggle(r) \/ PostJob(r)
  BY <1>3, Zenon DEF Push, Toggle, PostJob, queueVars
<1>4. CASE SyncSteps
  BY <1>4, Zenon DEF SyncSteps, ListRepos, ResolveStarts, ResolveEnds, DeleteIfStale, DeleteEnds, queueVars
<1>5. ASSUME NEW r \in Repos, ResolveSteps(r)  PROVE QueueNext \/ UNCHANGED queueVars
  <2>1. CASE ResolveAnswers(r)
    BY <2>1, Zenon DEF ResolveAnswers, queueVars
  <2>2. CASE ResolveQueues(r)
    <3>1. resolved[r].commit \in Commits
      BY <2>2 DEF ResolveQueues, ServerInv, TypeOK
    <3>. QED  BY <2>2, <3>1, Zenon DEF ResolveQueues, QueueNext
  <2>. QED  BY <1>5, <2>1, <2>2, Zenon DEF ResolveSteps
<1>6. ASSUME NEW r \in Repos, PopJob(r)  PROVE QueueNext
  BY <1>6, Zenon DEF PopJob, QueueNext
<1>7. ASSUME NEW a \in {"main", "post"}, JobSteps(a)  PROVE QueueNext \/ UNCHANGED queueVars
  <2>1. CASE IndexReads(a) \/ IndexBuilds(a) \/ IndexFails(a)
    BY <2>1, Zenon DEF IndexReads, IndexBuilds, IndexFails, queueVars
  <2>2. CASE JobEnds(a)
    <3>1. SetIndexed(job[a].repo, job[a].commit) \/ UNCHANGED queueVars
      BY <2>2, Zenon DEF JobEnds
    <3>2. job[a].at # "idle"
      BY <2>2 DEF JobEnds
    <3>3. job[a].repo \in Repos
      BY <3>2, Zenon DEF ServerInv, BusyWithRepo
    <3>4. job[a].commit \in Commits
      BY DEF ServerInv, TypeOK
    <3>. QED  BY <3>1, <3>3, <3>4, Zenon DEF QueueNext
  <2>. QED  BY <1>7, <2>1, <2>2, Zenon DEF JobSteps
<1>. QED  BY <1>1, <1>2, <1>3, <1>4, <1>5, <1>6, <1>7, Zenon DEF Next

(* Every call the index server makes on its queue (AddOrUpdate, Pop and      *)
(* SetIndexed in main.go) is one the queue's specification allows: with     *)
(* IndexHeap, which implements that specification, the heap's order and     *)
(* positions stay sound under the server.                                   *)
THEOREM ServerUsesQueue == Spec => UsesQueue
<1>. QED  BY ServerInitInv, ServerStepInv, StepUsesQueue, PTL DEF Spec, UsesQueue
=============================================================================
