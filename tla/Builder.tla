------------------------------- MODULE Builder -------------------------------
(***************************************************************************)
(* build/builder.go: one repository is indexed again and again.  A Builder *)
(* collects documents, builds a shard whenever it holds enough of them,    *)
(* with up to Parallelism shards at a time, into temporary files, and      *)
(* renames these over the shards of the previous build when all are done.  *)
(* Any file operation may fail, and the process may be killed at any time. *)
(***************************************************************************)
EXTENDS Integers, FiniteSets

CONSTANTS
  MaxBuilds,    \* bound: builds of the repository
  MaxDocs,      \* bound: documents of one build
  DocSizes,     \* the sizes a document can have
  ShardMax,     \* Options.ShardMax
  Parallelisms, \* the values of Options.Parallelism
  NoShard       \* absence of a shard file

ASSUME BuilderAssumption ==
  /\ MaxBuilds \in Nat
  /\ MaxDocs \in Nat
  /\ DocSizes \subseteq Nat
  /\ ShardMax \in Nat
  /\ Parallelisms \subseteq Nat \ {0}

Nums == 0..MaxDocs
Docs == 1..MaxDocs
Shards == [version : 1..MaxBuilds, docs : SUBSET Docs]

ASSUME NoShardAssumption == NoShard \notin Shards

VARIABLES
  disk,          \* the index file of each shard number, at its final name
  temps,         \* temporary files in the directory: version and shard number
  build,         \* the number of this build: the version it indexes
  pc,            \* what the Builder does
  parallelism,   \* Options.Parallelism
  added,         \* documents added in this build
  todo, size,    \* Builder.todo, Builder.size
  nextShardNum,  \* Builder.nextShardNum
  work,          \* per shard number, the documents flush handed out
  job,           \* per shard number, where buildShard is
  buildError,    \* Builder.buildError # nil
  finishedShards,\* numbers of the shards in Builder.finishedShards
  last,          \* history: version and shard count of the last good build
  torn,          \* history: a step of the final rename or delete loop failed
  leftover       \* history: shards of this build whose temporary file could not be renamed or removed

buildVars == <<parallelism, added, todo, size, nextShardNum, work, job, buildError,
               finishedShards>>
vars == <<disk, temps, build, pc, buildVars, last, torn, leftover>>

(* Shards that were handed out and have not ended: building.Wait waits. *)
Building == {n \in Nums : job[n] \in {"queued", "building", "writing"}}

(* A slot that a failed job keeps (a mutation of Running). *)
RunningLeaks == {n \in Nums : job[n] \in {"building", "writing", "failed"}}

(* Jobs that hold a slot of throttle. *)
Running == {n \in Nums : job[n] \in {"building", "writing"}}

Init ==
  /\ disk = [n \in Nums |-> NoShard]
  /\ temps = {}
  /\ build = 0
  /\ pc = "idle"
  /\ parallelism \in Parallelisms
  /\ added = 0 /\ todo = {} /\ size = 0 /\ nextShardNum = 0
  /\ work = [n \in Nums |-> {}]
  /\ job = [n \in Nums |-> "none"]
  /\ buildError = FALSE
  /\ finishedShards = {}
  /\ last = [version |-> 0, count |-> 0]
  /\ torn = FALSE
  /\ leftover = {}

(* NewBuilder, after the previous one has returned or died. *)
NewBuilder ==
  /\ pc \in {"idle", "returned", "killed"}
  /\ build < MaxBuilds
  /\ build' = build + 1
  /\ pc' = "adding"
  /\ parallelism' \in Parallelisms
  /\ added' = 0 /\ todo' = {} /\ size' = 0 /\ nextShardNum' = 0
  /\ work' = [n \in Nums |-> {}]
  /\ job' = [n \in Nums |-> "none"]
  /\ buildError' = FALSE
  /\ finishedShards' = {}
  /\ leftover' = {}
  /\ UNCHANGED <<disk, temps, last, torn>>

-----------------------------------------------------------------------------
(* flush *)

(* flush that forgets the documents it was given (a mutation of Flush). *)
FlushDropsTail(docs) ==
  /\ todo' = {}
  /\ size' = 0
  /\ IF buildError \/ nextShardNum > 0
     THEN UNCHANGED <<nextShardNum, work, job>>
     ELSE /\ nextShardNum' = nextShardNum + 1
          /\ work' = [work EXCEPT ![nextShardNum] = docs]
          /\ job' = [job EXCEPT ![nextShardNum] = "queued"]

(* flush: after an error the documents are thrown away; an empty last batch  *)
(* makes a shard only if there is none yet. Without parallelism the caller  *)
(* itself runs the job to its end, see Add and Finish.                      *)
Flush(docs) ==
  /\ todo' = {}
  /\ size' = 0
  /\ IF buildError \/ (docs = {} /\ nextShardNum > 0)
     THEN UNCHANGED <<nextShardNum, work, job>>
     ELSE /\ nextShardNum' = nextShardNum + 1
          /\ work' = [work EXCEPT ![nextShardNum] = docs]
          /\ job' = [job EXCEPT ![nextShardNum] = "queued"]

(* The serial flush returns when its shard is built. *)
CallerFree == parallelism > 1 \/ Building = {}

(* Add that looks at the size before it grows (a mutation of Add). *)
AddLooksFirst(s) ==
  /\ pc = "adding"
  /\ CallerFree
  /\ added < MaxDocs
  /\ added' = added + 1
  /\ IF size > ShardMax
     THEN Flush(todo \cup {added + 1})
     ELSE /\ todo' = todo \cup {added + 1}
          /\ size' = size + s
          /\ UNCHANGED <<nextShardNum, work, job>>
  /\ UNCHANGED <<disk, temps, build, pc, parallelism, buildError, finishedShards, last, torn, leftover>>

(* Add: the document counts with its name and content, then the batch is     *)
(* flushed if it is larger than ShardMax.                                   *)
Add(s) ==
  /\ pc = "adding"
  /\ CallerFree
  /\ added < MaxDocs
  /\ added' = added + 1
  /\ IF size + s > ShardMax
     THEN Flush(todo \cup {added + 1})
     ELSE /\ todo' = todo \cup {added + 1}
          /\ size' = size + s
          /\ UNCHANGED <<nextShardNum, work, job>>
  /\ UNCHANGED <<disk, temps, build, pc, parallelism, buildError, finishedShards, last, torn, leftover>>

-----------------------------------------------------------------------------
(* buildShard, in a goroutine when Parallelism > 1 *)

BuildStarts(n) ==
  /\ job[n] = "queued"
  /\ Cardinality(Running) < parallelism
  /\ job' = [job EXCEPT ![n] = "building"]
  /\ UNCHANGED <<disk, temps, build, pc, parallelism, added, todo, size, nextShardNum, work,
                 buildError, finishedShards, last, torn, leftover>>

(* writeShard creates its temporary file. *)
TempFile(n) ==
  /\ job[n] = "building"
  /\ job' = [job EXCEPT ![n] = "writing"]
  /\ temps' = temps \cup {<<build, n>>}
  /\ UNCHANGED <<disk, build, pc, parallelism, added, todo, size, nextShardNum, work,
                 buildError, finishedShards, last, torn, leftover>>

(* An error that is overwritten by a later success, as it would be if the    *)
(* goroutine assigned buildError without a test (a mutation of BuildEnds).  *)
BuildEndsForgets(n) ==
  /\ job[n] = "writing"
  /\ job' = [job EXCEPT ![n] = "done"]
  /\ finishedShards' = finishedShards \cup {n}
  /\ buildError' = FALSE
  /\ UNCHANGED <<disk, temps, build, pc, parallelism, added, todo, size, nextShardNum, work,
                 last, torn, leftover>>

BuildEnds(n) ==
  /\ job[n] = "writing"
  /\ job' = [job EXCEPT ![n] = "done"]
  /\ finishedShards' = finishedShards \cup {n}
  /\ UNCHANGED <<disk, temps, build, pc, parallelism, added, todo, size, nextShardNum, work,
                 buildError, last, torn, leftover>>

(* buildShard fails, with or without a temporary file; it leaves the file.   *)
BuildFails(n) ==
  /\ job[n] \in {"building", "writing"}
  /\ job' = [job EXCEPT ![n] = "failed"]
  /\ buildError' = TRUE
  /\ UNCHANGED <<disk, temps, build, pc, parallelism, added, todo, size, nextShardNum, work,
                 finishedShards, last, torn, leftover>>

-----------------------------------------------------------------------------
(* Finish *)

Finish ==
  /\ pc = "adding"
  /\ CallerFree
  /\ pc' = "waiting"
  /\ Flush(todo)
  /\ UNCHANGED <<disk, temps, build, parallelism, added, buildError, finishedShards, last, torn, leftover>>

(* Finish after an error without the removal (a mutation of FinishFails). *)
FinishFailsKeeps ==
  /\ pc = "waiting"
  /\ Building = {}
  /\ buildError
  /\ pc' = "returned"
  /\ UNCHANGED <<disk, build, buildVars, last, torn, leftover, temps>>

(* Some shard failed: the finished ones are removed, as far as os.Remove     *)
(* does it, and nothing is renamed.                                         *)
FinishFails ==
  /\ pc = "waiting"
  /\ Building = {}
  /\ buildError
  /\ pc' = "returned"
  /\ \E kept \in SUBSET finishedShards :
       /\ temps' = temps \ {<<build, n>> : n \in finishedShards \ kept}
       /\ leftover' = leftover \cup kept
  /\ UNCHANGED <<disk, build, buildVars, last, torn>>

(* Every goroutine is done and none has failed. *)
FinishRenames ==
  /\ pc = "waiting"
  /\ Building = {}
  /\ ~buildError
  /\ pc' = "renaming"
  /\ UNCHANGED <<disk, temps, build, buildVars, last, torn, leftover>>

(* One turn of the rename loop, in the map's random order. A failure is      *)
(* noted and the loop goes on.                                              *)
Rename(n) ==
  /\ pc = "renaming"
  /\ n \in finishedShards
  /\ finishedShards' = finishedShards \ {n}
  /\ \/ /\ disk' = [disk EXCEPT ![n] = [version |-> build, docs |-> work[n]]]
        /\ temps' = temps \ {<<build, n>>}
        /\ UNCHANGED <<buildError, torn, leftover>>
     \/ /\ buildError' = TRUE
        /\ torn' = TRUE
        /\ leftover' = leftover \cup {n}
        /\ UNCHANGED <<disk, temps>>
  /\ UNCHANGED <<build, pc, parallelism, added, todo, size, nextShardNum, work, job, last>>

(* One turn of deleteRemainingShards: the next number's file is removed, or  *)
(* cannot be, and the loop goes on; if there is none Finish returns.        *)
DeleteShard ==
  /\ pc = "renaming" /\ finishedShards = {}
  /\ nextShardNum' = nextShardNum + 1
  /\ LET n == nextShardNum
     IN  \/ /\ n \in Nums /\ disk[n] # NoShard
            /\ \/ disk' = [disk EXCEPT ![n] = NoShard] /\ UNCHANGED torn
               \/ torn' = TRUE /\ UNCHANGED disk
            /\ UNCHANGED <<pc, last>>
         \/ /\ n \notin Nums \/ disk[n] = NoShard
            /\ pc' = "returned"
            /\ last' = IF buildError THEN last
                       ELSE [version |-> build, count |-> Cardinality({m \in Nums : job[m] = "done"})]
            /\ UNCHANGED <<disk, torn>>
  /\ UNCHANGED <<temps, build, parallelism, added, todo, size, work, job, buildError,
                 finishedShards, leftover>>

(* The process is killed, or the caller gives up without Finish. *)
Kill ==
  /\ pc \in {"adding", "waiting", "renaming"}
  /\ pc' = "killed"
  /\ torn' = (torn \/ pc = "renaming")
  /\ job' = [n \in Nums |-> IF n \in Building THEN "failed" ELSE job[n]]
  /\ UNCHANGED <<disk, temps, build, parallelism, added, todo, size, nextShardNum, work,
                 buildError, finishedShards, last, leftover>>

BuildSteps ==
  \/ \E n \in Nums : BuildStarts(n) \/ TempFile(n) \/ BuildEnds(n) \/ BuildFails(n)
  \/ FinishFails \/ FinishRenames
  \/ \E n \in Nums : Rename(n)
  \/ DeleteShard

Next ==
  \/ NewBuilder
  \/ \E s \in DocSizes : Add(s)
  \/ Finish
  \/ BuildSteps
  \/ Kill

Spec == Init /\ [][Next]_vars

(* Goroutines run and a Finish that was called goes on. *)
FairSpec == Spec /\ WF_vars(BuildSteps)

-----------------------------------------------------------------------------
(* Properties *)

(* Every variable has its type: what Add has collected stays within the      *)
(* shard limit, and shard numbers within what flush can use.                *)
TypeOK ==
  /\ disk \in [Nums -> Shards \cup {NoShard}]
  /\ temps \in SUBSET ((1..MaxBuilds) \X Nums)
  /\ build \in 0..MaxBuilds
  /\ pc \in {"idle", "adding", "waiting", "renaming", "returned", "killed"}
  /\ parallelism \in Parallelisms
  /\ added \in 0..MaxDocs
  /\ todo \in SUBSET Docs
  /\ size \in 0..ShardMax
  /\ nextShardNum \in 0..(MaxDocs + 2)
  /\ work \in [Nums -> SUBSET Docs]
  /\ job \in [Nums -> {"none", "queued", "building", "writing", "done", "failed"}]
  /\ buildError \in BOOLEAN
  /\ finishedShards \in SUBSET Nums
  /\ last \in [version : 0..MaxBuilds, count : Nat]
  /\ torn \in BOOLEAN
  /\ leftover \in SUBSET Nums

(* The index is that of one build: its shards have consecutive numbers. *)
OneBuild(v, count) ==
  \A n \in Nums : IF n < count THEN disk[n] # NoShard /\ disk[n].version = v
                  ELSE disk[n] = NoShard

(* Outside the rename and delete loops the index is that of the last build   *)
(* that succeeded: a build that fails, is killed or is still adding leaves  *)
(* the index as it was (TestPartialSuccess), and one that succeeds replaces *)
(* all of it (TestDeleteOldShards). The loops are not atomic: when one of   *)
(* their steps fails, or the process is killed between them, this is lost.  *)
IndexIsLastGoodBuild ==
  pc # "renaming" /\ ~torn => OneBuild(last.version, last.count)

(* A build that succeeds indexes every document it was given exactly once. *)
EveryDocumentOnce ==
  pc = "returned" /\ ~buildError /\ ~torn =>
    \A d \in 1..added : Cardinality({n \in Nums : disk[n] # NoShard /\ d \in disk[n].docs}) = 1

(* Finish leaves no temporary file of its build, whether it returns an error *)
(* or not, except those whose own write, rename or removal failed.          *)
TempsRemoved ==
  pc = "returned" =>
    \A n \in Nums : <<build, n>> \in temps => job[n] = "failed" \/ n \in leftover

(* We only rename shards once all of them succeed "to avoid Frankstein       *)
(* corpuses": when no build is at work the shards are of one version.       *)
NoFrankensteinCorpus ==
  pc \in {"idle", "returned", "killed"} =>
    \A m, n \in Nums : disk[m] # NoShard /\ disk[n] # NoShard =>
      disk[m].version = disk[n].version

(* Finish returns, unless the process is killed first. *)
FinishReturns == pc = "waiting" ~> pc \in {"returned", "killed"}
=============================================================================
