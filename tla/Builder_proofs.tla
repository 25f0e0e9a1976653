---------------------------- MODULE Builder_proofs ----------------------------
(***************************************************************************)
(* Finish replaces one whole index by another or none of it, loses no      *)
(* document and leaves no temporary file behind, for any number of builds, *)
(* documents and shards and any parallelism.                               *)
(***************************************************************************)
EXTENDS Builder, FiniteSetTheorems, TLAPS

\* The Builder has not returned and nobody has killed it.
Active == pc \in {"adding", "waiting", "renaming"}

\* The documents that flush or Add saw are in one place, unless an error dropped them.
Placed ==
  /\ pc \in {"waiting", "renaming"} => todo = {}
  /\ \A n \in Nums : job[n] = "none" => work[n] = {}
  /\ \A d \in Docs :
       /\ d > added => d \notin todo /\ \A n \in Nums : d \notin work[n]
       /\ d \in todo => \A n \in Nums : d \notin work[n]
       /\ \A m, n \in Nums : d \in work[m] /\ d \in work[n] => m = n
       /\ Active /\ ~buildError /\ d <= added => d \in todo \/ \E n \in Nums : d \in work[n]

\* Shards are numbered in the order they are handed out, and not beyond the documents.
Numbered ==
  /\ pc # "idle" => build >= 1
  /\ pc = "adding" => nextShardNum <= added /\ (todo # {} => nextShardNum < added)
  /\ Active => nextShardNum <= MaxDocs + 1
  /\ pc \in {"adding", "waiting"} =>
       \A n \in Nums : /\ job[n] # "none" <=> n < nextShardNum
                       /\ job[n] = "done" <=> n \in finishedShards
                       /\ job[n] = "failed" => buildError
  /\ pc \notin {"adding", "waiting"} => \A n \in Nums : job[n] \in {"none", "done", "failed"}

\* A temporary file belongs to a shard that is written, has failed or is to be renamed.
TempsOwned ==
  /\ \A t \in temps : t[1] <= build
  /\ Active => \A n \in Nums : <<build, n>> \in temps =>
                 job[n] \in {"writing", "failed"} \/ n \in finishedShards \/ n \in leftover

(***************************************************************************)
(* The loops of Finish, with N shards to rename: those before              *)
(* nextShardNum are of this build or gone, the others still of the last.   *)
(***************************************************************************)
Renaming(N) ==
  /\ N <= nextShardNum
  /\ finishedShards # {} => nextShardNum = N
  /\ \A n \in Nums :
       /\ job[n] = IF n < N THEN "done" ELSE "none"
       /\ n \in finishedShards => n < N
       /\ ~torn =>
            /\ n < N /\ n \notin finishedShards => disk[n] = [version |-> build, docs |-> work[n]]
            /\ N <= n /\ n < nextShardNum => disk[n] = NoShard
            /\ nextShardNum <= n => (disk[n] = NoShard <=> last.count <= n)

LoopsInv == pc = "renaming" => (torn \/ ~buildError) /\ \E N \in 0..(MaxDocs + 1) : Renaming(N)

BuilderInv ==
  /\ TypeOK
  /\ Placed
  /\ Numbered
  /\ TempsOwned
  /\ LoopsInv
  /\ IndexIsLastGoodBuild
  /\ EveryDocumentOnce
  /\ TempsRemoved

-----------------------------------------------------------------------------

LEMMA BuilderInitInv == Init => BuilderInv
<1> SUFFICES ASSUME Init PROVE BuilderInv
  OBVIOUS
<1>1. buildError \in BOOLEAN /\ torn \in BOOLEAN
  BY Zenon DEF Init
<1>2. TypeOK
  BY <1>1, BuilderAssumption DEF Init, TypeOK, Nums
<1>3. Placed /\ Numbered /\ TempsOwned /\ LoopsInv
  BY DEF Init, Placed, Numbered, TempsOwned, LoopsInv, Active
<1>4. IndexIsLastGoodBuild
  BY DEF Init, IndexIsLastGoodBuild, OneBuild, Nums
<1>5. EveryDocumentOnce /\ TempsRemoved
  BY DEF Init, EveryDocumentOnce, TempsRemoved
<1> QED  BY <1>2, <1>3, <1>4, <1>5 DEF BuilderInv

(* NewBuilder: nothing of the new build is on disk. *)
LEMMA NewBuilderInv ==
  ASSUME BuilderInv, NewBuilder
  PROVE  BuilderInv'
<1> USE DEF NewBuilder
<1>1. buildError' \in BOOLEAN
  BY Zenon
<1>2. TypeOK'
  BY <1>1, BuilderAssumption DEF BuilderInv, TypeOK, Nums
<1>3. Placed'
  BY BuilderAssumption DEF Placed, Docs
<1>4. Numbered'
  BY BuilderAssumption DEF Numbered, BuilderInv, TypeOK, Active, Nums
<1>5. TempsOwned'
  <2>1. \A t \in temps : t[1] \in 1..MaxBuilds /\ t[1] <= build
    BY DEF BuilderInv, TypeOK, TempsOwned
  <2>2. \A n \in Nums : <<build + 1, n>> \notin temps
    BY <2>1 DEF BuilderInv, TypeOK
  <2> QED  BY <2>1, <2>2, BuilderAssumption DEF TempsOwned, BuilderInv, TypeOK
<1>6. LoopsInv' /\ EveryDocumentOnce' /\ TempsRemoved'
  BY DEF LoopsInv, EveryDocumentOnce, TempsRemoved
<1>7. IndexIsLastGoodBuild'
  BY DEF BuilderInv, IndexIsLastGoodBuild, OneBuild
<1> QED  BY <1>2, <1>3, <1>4, <1>5, <1>6, <1>7 DEF BuilderInv

(* flush hands its documents out under a number that was free, or drops them  *)
(* after an error.                                                           *)
LEMMA FlushHandsOut ==
  ASSUME TypeOK, NEW docs \in SUBSET Docs, Flush(docs),
         nextShardNum \in Nums \/ (docs = {} /\ nextShardNum > 0)
  PROVE  /\ todo' = {} /\ size' = 0
         /\ \/ UNCHANGED <<nextShardNum, work, job>> /\ (buildError \/ (docs = {} /\ nextShardNum > 0))
            \/ /\ nextShardNum \in Nums /\ nextShardNum' = nextShardNum + 1
               /\ docs # {} \/ nextShardNum = 0
               /\ work' \in [Nums -> SUBSET Docs]
               /\ job' \in [Nums -> {"none", "queued", "building", "writing", "done", "failed"}]
               /\ \A n \in Nums : /\ work'[n] = IF n = nextShardNum THEN docs ELSE work[n]
                                  /\ job'[n] = IF n = nextShardNum THEN "queued" ELSE job[n]
<1>1. CASE buildError \/ (docs = {} /\ nextShardNum > 0)
  BY <1>1 DEF Flush
<1>2. CASE ~(buildError \/ (docs = {} /\ nextShardNum > 0))
  <2>1. nextShardNum \in Nums /\ (docs # {} \/ nextShardNum = 0)
    BY <1>2, BuilderAssumption DEF TypeOK
  <2>2. /\ nextShardNum' = nextShardNum + 1
        /\ work' = [work EXCEPT ![nextShardNum] = docs]
        /\ job' = [job EXCEPT ![nextShardNum] = "queued"]
        /\ todo' = {} /\ size' = 0
    BY <1>2 DEF Flush
  <2>3. work' \in [Nums -> SUBSET Docs] /\ \A n \in Nums : work'[n] = IF n = nextShardNum THEN docs ELSE work[n]
    BY <2>1, <2>2 DEF TypeOK
  <2>4. /\ job' \in [Nums -> {"none", "queued", "building", "writing", "done", "failed"}]
        /\ \A n \in Nums : job'[n] = IF n = nextShardNum THEN "queued" ELSE job[n]
    BY <2>1, <2>2 DEF TypeOK
  <2> QED  BY <2>1, <2>2, <2>3, <2>4
<1> QED  BY <1>1, <1>2

(* Add, with and without a flush. *)
LEMMA AddInv ==
  ASSUME BuilderInv, NEW s \in DocSizes, Add(s)
  PROVE  BuilderInv'
<1>1. /\ pc = "adding" /\ added < MaxDocs /\ added' = added + 1
      /\ UNCHANGED <<disk, temps, build, pc, parallelism, buildError, finishedShards, last, torn, leftover>>
  BY DEF Add
<1>2. /\ added \in 0..MaxDocs /\ added + 1 \in Docs /\ s \in Nat /\ size \in 0..ShardMax
      /\ todo \in SUBSET Docs /\ nextShardNum \in Nums /\ nextShardNum <= added /\ TypeOK
      /\ ShardMax \in Nat /\ MaxDocs \in Nat
  BY <1>1, BuilderAssumption DEF BuilderInv, TypeOK, Numbered, Docs, Nums
<1>3. /\ LoopsInv' /\ EveryDocumentOnce' /\ TempsRemoved' /\ IndexIsLastGoodBuild'
  BY <1>1 DEF BuilderInv, LoopsInv, EveryDocumentOnce, TempsRemoved, IndexIsLastGoodBuild, OneBuild
<1>4. CASE size + s > ShardMax
  <2> DEFINE docs == todo \cup {added + 1}
  <2>1. Flush(docs) /\ docs \in SUBSET Docs /\ docs # {}
    BY <1>2, <1>4 DEF Add
  <2> HIDE DEF docs
  <2>2. /\ todo' = {} /\ size' = 0
        /\ \/ UNCHANGED <<nextShardNum, work, job>> /\ buildError
           \/ /\ nextShardNum' = nextShardNum + 1
              /\ work' \in [Nums -> SUBSET Docs]
              /\ job' \in [Nums -> {"none", "queued", "building", "writing", "done", "failed"}]
              /\ \A n \in Nums : /\ work'[n] = IF n = nextShardNum THEN docs ELSE work[n]
                                 /\ job'[n] = IF n = nextShardNum THEN "queued" ELSE job[n]
    BY <1>2, <2>1, FlushHandsOut
  <2>3. TypeOK'
    BY <1>1, <1>2, <2>2 DEF TypeOK, Nums, Docs
  <2>4. Numbered'
    BY <1>1, <1>2, <2>2 DEF BuilderInv, Numbered, Active, Nums
  <2>5. TempsOwned'
    BY <1>1, <1>2, <2>2 DEF BuilderInv, Numbered, TempsOwned, Active, Nums
  <2>6. Placed'
    <3>1. \A n \in Nums : job'[n] = "none" => work'[n] = {}
      BY <2>2 DEF BuilderInv, Placed
    <3>2. work[nextShardNum] = {}
      BY <1>1, <1>2 DEF BuilderInv, Placed, Numbered, Nums
    <3>3. ASSUME NEW d \in Docs
          PROVE  /\ d > added' => \A n \in Nums : d \notin work'[n]
                 /\ \A m, n \in Nums : d \in work'[m] /\ d \in work'[n] => m = n
                 /\ ~buildError /\ d <= added' => \E n \in Nums : d \in work'[n]
      <4>1. d \in Nat /\ (d \in docs <=> d \in todo \/ d = added + 1)
        BY <1>2 DEF docs, Docs
      <4>2. d \in docs => \A n \in Nums : d \notin work[n]
        BY <1>2, <4>1 DEF BuilderInv, Placed
      <4>3. d > added' => d \notin docs /\ \A n \in Nums : d \notin work[n]
        BY <1>1, <1>2, <4>1 DEF BuilderInv, Placed
      <4>4. ~buildError /\ d <= added' => d \in docs \/ \E n \in Nums : d \in work[n]
        BY <1>1, <1>2, <4>1 DEF BuilderInv, Placed, Active
      <4>5. \A m, n \in Nums : d \in work[m] /\ d \in work[n] => m = n
        BY DEF BuilderInv, Placed
      <4> QED  BY <1>2, <2>2, <3>2, <4>2, <4>3, <4>4, <4>5
    <3> QED  BY <1>1, <2>2, <3>1, <3>3 DEF Placed, Active
  <2> QED  BY <1>3, <2>3, <2>4, <2>5, <2>6 DEF BuilderInv
<1>5. CASE ~(size + s > ShardMax)
  <2>1. todo' = todo \cup {added + 1} /\ size' = size + s /\ UNCHANGED <<nextShardNum, work, job>>
    BY <1>5 DEF Add
  <2>2. TypeOK'
    <3>1. size' \in 0..ShardMax /\ added' \in 0..MaxDocs /\ todo' \in SUBSET Docs
      BY <1>1, <1>2, <1>5, <2>1
    <3> QED  BY <1>1, <1>2, <2>1, <3>1 DEF TypeOK
  <2>3. Numbered'
    <3>1. nextShardNum \in Nat /\ added \in Nat /\ nextShardNum <= added /\ added' = added + 1
      BY <1>1, <1>2 DEF Nums
    <3>2. nextShardNum' <= added' /\ nextShardNum' < added'
      BY <2>1, <3>1
    <3> QED  BY <1>1, <2>1, <3>2 DEF BuilderInv, Numbered, Active
  <2>4. TempsOwned'
    BY <1>1, <2>1 DEF BuilderInv, TempsOwned, Active
  <2>5. Placed'
    BY <1>1, <1>2, <2>1 DEF BuilderInv, Placed, Active, Docs
  <2> QED  BY <1>3, <2>2, <2>3, <2>4, <2>5 DEF BuilderInv
<1> QED  BY <1>4, <1>5

(* The steps of buildShard, while documents are added or Finish waits. *)
LEMMA JobInv ==
  ASSUME BuilderInv, NEW n \in Nums, BuildStarts(n) \/ TempFile(n) \/ BuildEnds(n) \/ BuildFails(n)
  PROVE  BuilderInv'
<1>1. job[n] \in {"queued", "building", "writing"} /\ pc \in {"adding", "waiting"}
  <2>1. job[n] \in {"queued", "building", "writing"}
    BY DEF BuildStarts, TempFile, BuildEnds, BuildFails
  <2> QED  BY <2>1 DEF BuilderInv, Numbered, TypeOK
<1>2. UNCHANGED <<disk, build, pc, parallelism, added, todo, size, nextShardNum, work, last, torn, leftover>>
  BY DEF BuildStarts, TempFile, BuildEnds, BuildFails
<1>3. build \in 1..MaxBuilds /\ TypeOK
  BY <1>1, BuilderAssumption DEF BuilderInv, TypeOK, Numbered
<1>4. PICK x \in {"building", "writing", "done", "failed"} :
        /\ job' = [job EXCEPT ![n] = x]
        /\ finishedShards' = IF x = "done" THEN finishedShards \cup {n} ELSE finishedShards
        /\ temps' = IF x = "writing" THEN temps \cup {<<build, n>>} ELSE temps
        /\ buildError' = (buildError \/ x = "failed")
        /\ x = "building" => job[n] = "queued"
  <2>1. CASE BuildStarts(n)
    BY <2>1, <1>3, Zenon DEF BuildStarts, TypeOK
  <2>2. CASE TempFile(n)
    BY <2>2, <1>3 DEF TempFile, TypeOK
  <2>3. CASE BuildEnds(n)
    BY <2>3, <1>3 DEF BuildEnds, TypeOK
  <2>4. CASE BuildFails(n)
    BY <2>4, <1>3, Zenon DEF BuildFails, TypeOK
  <2> QED  BY <2>1, <2>2, <2>3, <2>4
<1>5. /\ job' \in [Nums -> {"none", "queued", "building", "writing", "done", "failed"}]
      /\ \A m \in Nums : job'[m] = IF m = n THEN x ELSE job[m]
  BY <1>3, <1>4 DEF TypeOK
<1>6. buildError' \in BOOLEAN /\ (buildError => buildError')
  BY <1>4, Zenon
<1>7. TypeOK'
  BY <1>2, <1>3, <1>4, <1>5, <1>6 DEF TypeOK
<1>8. Placed'
  BY <1>1, <1>2, <1>5, <1>6 DEF BuilderInv, Placed, Active
<1>9. Numbered'
  BY <1>1, <1>2, <1>4, <1>5, <1>6, Zenon DEF BuilderInv, Numbered, Active
<1>10. TempsOwned'
  <2>1. \A t \in temps' : t[1] <= build
    BY <1>3, <1>4 DEF BuilderInv, TempsOwned, TypeOK
  <2>2. ASSUME NEW m \in Nums, <<build, m>> \in temps'
        PROVE  job'[m] \in {"writing", "failed"} \/ m \in finishedShards' \/ m \in leftover
    <3>1. CASE m = n
      BY <1>1, <1>4, <1>5, <2>2, <3>1 DEF BuilderInv, TempsOwned, Numbered, Active
    <3>2. CASE m # n
      BY <1>1, <1>4, <1>5, <2>2, <3>2 DEF BuilderInv, TempsOwned, Active
    <3> QED  BY <3>1, <3>2
  <2> QED  BY <1>2, <2>1, <2>2 DEF TempsOwned
<1>11. LoopsInv' /\ EveryDocumentOnce' /\ TempsRemoved' /\ IndexIsLastGoodBuild'
  BY <1>1, <1>2 DEF BuilderInv, LoopsInv, EveryDocumentOnce, TempsRemoved, IndexIsLastGoodBuild, OneBuild
<1> QED  BY <1>7, <1>8, <1>9, <1>10, <1>11 DEF BuilderInv

(* Finish hands out the last batch. *)
LEMMA FinishInv ==
  ASSUME BuilderInv, Finish
  PROVE  BuilderInv'
<1>1. /\ pc = "adding" /\ pc' = "waiting" /\ Flush(todo)
      /\ UNCHANGED <<disk, temps, build, parallelism, added, buildError, finishedShards, last, torn, leftover>>
  BY DEF Finish
<1>2. /\ added \in 0..MaxDocs /\ todo \in SUBSET Docs /\ nextShardNum \in Nums /\ TypeOK /\ MaxDocs \in Nat
  BY <1>1, BuilderAssumption DEF BuilderInv, TypeOK, Numbered, Nums
<1>3. /\ todo' = {} /\ size' = 0
      /\ \/ UNCHANGED <<nextShardNum, work, job>> /\ (buildError \/ todo = {})
         \/ /\ nextShardNum' = nextShardNum + 1
            /\ work' \in [Nums -> SUBSET Docs]
            /\ job' \in [Nums -> {"none", "queued", "building", "writing", "done", "failed"}]
            /\ \A n \in Nums : /\ work'[n] = IF n = nextShardNum THEN todo ELSE work[n]
                               /\ job'[n] = IF n = nextShardNum THEN "queued" ELSE job[n]
  BY <1>1, <1>2, FlushHandsOut
<1>4. TypeOK'
  BY <1>1, <1>2, <1>3, BuilderAssumption, SMTT(30) DEF TypeOK, Nums
<1>5. Numbered'
  BY <1>1, <1>2, <1>3 DEF BuilderInv, Numbered, Active, Nums
<1>6. TempsOwned'
  BY <1>1, <1>2, <1>3 DEF BuilderInv, Numbered, TempsOwned, Active, Nums
<1>7. Placed'
  <2>1. \A n \in Nums : job'[n] = "none" => work'[n] = {}
    BY <1>3 DEF BuilderInv, Placed
  <2>2. work[nextShardNum] = {}
    BY <1>1, <1>2 DEF BuilderInv, Placed, Numbered, Nums
  <2>3. ASSUME NEW d \in Docs
        PROVE  /\ d > added => \A n \in Nums : d \notin work'[n]
               /\ \A m, n \in Nums : d \in work'[m] /\ d \in work'[n] => m = n
               /\ ~buildError /\ d <= added => \E n \in Nums : d \in work'[n]
    <3>1. /\ d > added => d \notin todo /\ \A n \in Nums : d \notin work[n]
          /\ d \in todo => \A n \in Nums : d \notin work[n]
          /\ \A m, n \in Nums : d \in work[m] /\ d \in work[n] => m = n
          /\ ~buildError /\ d <= added => d \in todo \/ \E n \in Nums : d \in work[n]
      BY <1>1 DEF BuilderInv, Placed, Active
    <3> QED  BY <1>2, <1>3, <2>2, <3>1
  <2> QED  BY <1>1, <1>3, <2>1, <2>3 DEF Placed, Active
<1>8. LoopsInv' /\ EveryDocumentOnce' /\ TempsRemoved' /\ IndexIsLastGoodBuild'
  BY <1>1 DEF BuilderInv, LoopsInv, EveryDocumentOnce, TempsRemoved, IndexIsLastGoodBuild, OneBuild
<1> QED  BY <1>4, <1>5, <1>6, <1>7, <1>8 DEF BuilderInv

(* After an error Finish removes the finished shards and renames nothing. *)
LEMMA FinishFailsInv ==
  ASSUME BuilderInv, FinishFails
  PROVE  BuilderInv'
<1>0. PICK kept \in SUBSET finishedShards :
        /\ temps' = temps \ {<<build, n>> : n \in finishedShards \ kept}
        /\ leftover' = leftover \cup kept
  BY DEF FinishFails
<1>1. /\ pc = "waiting" /\ Building = {} /\ buildError /\ pc' = "returned"
      /\ UNCHANGED <<disk, build, last, torn, parallelism, added, todo, size, nextShardNum, work, job,
                     buildError, finishedShards>>
  BY DEF FinishFails, buildVars
<1>2. \A n \in Nums : job[n] \in {"none", "done", "failed"}
  BY <1>1 DEF BuilderInv, TypeOK, Building
<1>3. TypeOK'
  BY <1>0, <1>1 DEF BuilderInv, TypeOK
<1>4. Placed' /\ Numbered'
  BY <1>1, <1>2 DEF BuilderInv, Placed, Numbered, Active
<1>5. TempsOwned' /\ LoopsInv' /\ EveryDocumentOnce'
  BY <1>0, <1>1 DEF BuilderInv, TempsOwned, LoopsInv, EveryDocumentOnce, Active
<1>6. TempsRemoved'
  BY <1>0, <1>1, <1>2 DEF BuilderInv, TempsOwned, TempsRemoved, Active
<1>7. IndexIsLastGoodBuild'
  BY <1>1 DEF BuilderInv, IndexIsLastGoodBuild, OneBuild
<1> QED  BY <1>3, <1>4, <1>5, <1>6, <1>7 DEF BuilderInv

(* Without an error every shard handed out is finished, and the old index is *)
(* as the last good build left it.                                          *)
LEMMA FinishRenamesInv ==
  ASSUME BuilderInv, FinishRenames
  PROVE  BuilderInv'
<1>1. /\ pc = "waiting" /\ Building = {} /\ ~buildError /\ pc' = "renaming"
      /\ UNCHANGED <<disk, temps, build, last, torn, leftover, parallelism, added, todo, size, nextShardNum, work, job,
                     buildError, finishedShards>>
  BY DEF FinishRenames, buildVars
<1>2. \A n \in Nums : job[n] \in {"none", "done"} /\ (job[n] = "done" <=> n < nextShardNum)
  BY <1>1 DEF BuilderInv, TypeOK, Building, Numbered
<1>3. TypeOK'
  BY <1>1 DEF BuilderInv, TypeOK
<1>4. Placed' /\ Numbered'
  BY <1>1, <1>2 DEF BuilderInv, Placed, Numbered, Active
<1>5. TempsOwned' /\ EveryDocumentOnce' /\ TempsRemoved' /\ IndexIsLastGoodBuild'
  BY <1>1 DEF BuilderInv, TempsOwned, TempsRemoved, EveryDocumentOnce, IndexIsLastGoodBuild, Active
<1>6. nextShardNum \in 0..(MaxDocs + 1)
  BY <1>1, BuilderAssumption DEF BuilderInv, TypeOK, Numbered, Active
<1>7. Renaming(nextShardNum)'
  <2>1. ASSUME NEW n \in Nums
        PROVE  /\ job[n] = IF n < nextShardNum THEN "done" ELSE "none"
               /\ n \in finishedShards <=> n < nextShardNum
    BY <1>1, <1>2 DEF BuilderInv, Numbered
  <2>2. ASSUME NEW n \in Nums, ~torn
        PROVE  disk[n] = NoShard <=> last.count <= n
    <3>1. last.count \in Nat /\ n \in Nat
      BY BuilderAssumption DEF BuilderInv, TypeOK, Nums
    <3> QED  BY <1>1, <2>2, <3>1 DEF BuilderInv, IndexIsLastGoodBuild, OneBuild
  <2> QED  BY <1>1, <1>6, <2>1, <2>2, BuilderAssumption DEF Renaming, Nums
<1>8. LoopsInv'
  BY <1>1, <1>6, <1>7 DEF LoopsInv
<1> QED  BY <1>3, <1>4, <1>5, <1>8 DEF BuilderInv

(* Kill: the index stays, or is torn if the loops had begun. *)
LEMMA KillInv ==
  ASSUME BuilderInv, Kill
  PROVE  BuilderInv'
<1>1. /\ Active /\ pc' = "killed" /\ torn' = (torn \/ pc = "renaming")
      /\ job' = [n \in Nums |-> IF n \in Building THEN "failed" ELSE job[n]]
      /\ UNCHANGED <<disk, temps, build, parallelism, added, todo, size, nextShardNum, work,
                     buildError, finishedShards, last, leftover>>
  BY DEF Kill, Active
<1>2. \A n \in Nums : job'[n] \in {"none", "done", "failed"} /\ (job'[n] = "none" => job[n] = "none")
  BY <1>1 DEF BuilderInv, TypeOK, Building
<1>3. torn' \in BOOLEAN
  BY <1>1, Zenon
<1>4. TypeOK'
  <2>1. job' \in [Nums -> {"none", "queued", "building", "writing", "done", "failed"}]
    BY <1>1 DEF BuilderInv, TypeOK
  <2> QED  BY <1>1, <1>3, <2>1 DEF BuilderInv, TypeOK
<1>5. Placed' /\ Numbered'
  BY <1>1, <1>2 DEF BuilderInv, Placed, Numbered, Active
<1>6. TempsOwned' /\ LoopsInv' /\ EveryDocumentOnce' /\ TempsRemoved'
  BY <1>1 DEF BuilderInv, TempsOwned, LoopsInv, EveryDocumentOnce, TempsRemoved, Active
<1>7. IndexIsLastGoodBuild'
  BY <1>1, Zenon DEF BuilderInv, IndexIsLastGoodBuild, OneBuild, Active
<1> QED  BY <1>4, <1>5, <1>6, <1>7 DEF BuilderInv

(* One turn of the rename loop, in any order of the shards. *)
LEMMA RenameInv ==
  ASSUME BuilderInv, NEW n \in Nums, Rename(n)
  PROVE  BuilderInv'
<1>1. /\ pc = "renaming" /\ n \in finishedShards /\ finishedShards' = finishedShards \ {n}
      /\ UNCHANGED <<build, pc, parallelism, added, todo, size, nextShardNum, work, job, last>>
  BY DEF Rename
<1>2. \/ /\ disk' = [disk EXCEPT ![n] = [version |-> build, docs |-> work[n]]]
         /\ temps' = temps \ {<<build, n>>} /\ UNCHANGED <<buildError, torn, leftover>>
      \/ buildError' = TRUE /\ torn' = TRUE /\ leftover' = leftover \cup {n} /\ UNCHANGED <<disk, temps>>
  BY DEF Rename
<1>3. build \in 1..MaxBuilds /\ TypeOK
  BY <1>1, BuilderAssumption DEF BuilderInv, TypeOK, Numbered
<1>4. buildError' \in BOOLEAN /\ torn' \in BOOLEAN /\ (buildError => buildError') /\ (torn => torn')
  BY <1>2, <1>3, Zenon DEF TypeOK
<1>5. TypeOK'
  <2>1. disk' \in [Nums -> Shards \cup {NoShard}]
    BY <1>2, <1>3 DEF TypeOK, Shards
  <2> QED  BY <1>1, <1>2, <1>3, <1>4, <2>1 DEF TypeOK
<1>6. Placed' /\ Numbered'
  BY <1>1, <1>4, SMTT(30) DEF BuilderInv, Placed, Numbered, Active
<1>7. TempsOwned'
  BY <1>1, <1>2, <1>4 DEF BuilderInv, TempsOwned, Active
<1>8. LoopsInv'
  <2>1. PICK N \in 0..(MaxDocs + 1) : Renaming(N)
    BY <1>1 DEF BuilderInv, LoopsInv
  <2>2. torn' \/ ~buildError'
    BY <1>1, <1>2 DEF BuilderInv, LoopsInv
  <2>3. nextShardNum = N /\ n < N
    BY <1>1, <2>1, Zenon DEF Renaming
  <2>4. ASSUME NEW m \in Nums, ~torn'
        PROVE  /\ m < N /\ m \notin finishedShards' => disk'[m] = [version |-> build, docs |-> work[m]]
               /\ N <= m => disk'[m] = disk[m]
    <3>1. ~torn /\ disk' = [disk EXCEPT ![n] = [version |-> build, docs |-> work[n]]]
      BY <1>2, <2>4
    <3>2. disk'[m] = IF m = n THEN [version |-> build, docs |-> work[n]] ELSE disk[m]
      BY <1>3, <3>1 DEF TypeOK
    <3>3. N <= m => m # n
      BY <2>3, BuilderAssumption DEF Nums
    <3>4. m < N /\ m \notin finishedShards => disk[m] = [version |-> build, docs |-> work[m]]
      BY <2>1, <3>1 DEF Renaming
    <3> QED  BY <1>1, <3>2, <3>3, <3>4
  <2>5. ASSUME NEW m \in Nums, ~torn'
        PROVE  /\ N <= m /\ m < nextShardNum => disk'[m] = NoShard
               /\ nextShardNum <= m => (disk'[m] = NoShard <=> last.count <= m)
    <3>1. ~torn
      BY <1>4, <2>5
    <3>2. m \in Nat /\ N \in Nat
      BY BuilderAssumption DEF Nums
    <3>3. N <= m => (disk[m] = NoShard <=> last.count <= m)
      BY <2>1, <2>3, <3>1, Zenon DEF Renaming
    <3>4. ~(N <= m /\ m < N)
      BY <3>2
    <3>5. N <= m => disk'[m] = disk[m]
      BY <2>4, <2>5, Zenon
    <3> QED  BY <2>3, <3>3, <3>4, <3>5
  <2>6. N <= nextShardNum' /\ (finishedShards' # {} => nextShardNum' = N)
    BY <1>1, <2>3
  <2>7. \A m \in Nums : job'[m] = (IF m < N THEN "done" ELSE "none") /\ (m \in finishedShards' => m < N)
    BY <1>1, <2>1 DEF Renaming
  <2>8. \A m \in Nums : ~torn' =>
          /\ m < N /\ m \notin finishedShards' => disk'[m] = [version |-> build', docs |-> work'[m]]
          /\ N <= m /\ m < nextShardNum' => disk'[m] = NoShard
          /\ nextShardNum' <= m => (disk'[m] = NoShard <=> last'.count <= m)
    BY <1>1, <2>4, <2>5
  <2>9. Renaming(N)'
    BY <2>6, <2>7, <2>8, Zenon DEF Renaming
  <2> QED  BY <2>2, <2>9 DEF LoopsInv
<1>9. EveryDocumentOnce' /\ TempsRemoved' /\ IndexIsLastGoodBuild'
  BY <1>1 DEF EveryDocumentOnce, TempsRemoved, IndexIsLastGoodBuild
<1> QED  BY <1>5, <1>6, <1>7, <1>8, <1>9 DEF BuilderInv

(* The number of finished shards, as the loops know it. *)
LEMMA ShardCount ==
  ASSUME NEW N \in 0..(MaxDocs + 1), Renaming(N)
  PROVE  Cardinality({m \in Nums : job[m] = "done"}) = N
<1>1. N \in Nat /\ MaxDocs \in Nat /\ N <= MaxDocs + 1 /\ N - 1 \in Int
  BY BuilderAssumption
<1>2. \A m \in Nums : job[m] = "done" <=> m < N
  BY Zenon DEF Renaming
<1>3. \A m \in 0..(N - 1) : m \in Nums /\ m < N
  BY <1>1 DEF Nums
<1>4. \A m \in Nums : m < N => m \in 0..(N - 1)
  BY <1>1 DEF Nums
<1>5. {m \in Nums : job[m] = "done"} = 0..(N - 1)
  BY <1>2, <1>3, <1>4
<1>6. Cardinality(0..(N - 1)) = IF 0 > N - 1 THEN 0 ELSE (N - 1) - 0 + 1
  BY <1>1, FS_Interval
<1>7. Cardinality(0..(N - 1)) = N
  BY <1>1, <1>6
<1> QED  BY <1>5, <1>7, Zenon

(* deleteRemainingShards removes one more shard of the last build. *)
LEMMA DeletesInv ==
  ASSUME BuilderInv, DeleteShard, nextShardNum \in Nums, disk[nextShardNum] # NoShard
  PROVE  BuilderInv'
<1> DEFINE n == nextShardNum
<1>1. /\ pc = "renaming" /\ finishedShards = {} /\ nextShardNum' = n + 1
      /\ \/ disk' = [disk EXCEPT ![n] = NoShard] /\ UNCHANGED torn
         \/ torn' = TRUE /\ UNCHANGED disk
      /\ UNCHANGED <<pc, last, temps, build, parallelism, added, todo, size, work, job, buildError,
                     finishedShards, leftover>>
  BY DEF DeleteShard
<1>2. n \in Nums /\ n \in Nat /\ n + 1 <= MaxDocs + 1 /\ n + 1 \in 0..(MaxDocs + 2) /\ TypeOK
  BY BuilderAssumption DEF BuilderInv, Nums
<1>3. torn' \in BOOLEAN /\ (torn => torn')
  BY <1>1, <1>2, Zenon DEF TypeOK
<1>4. disk' \in [Nums -> Shards \cup {NoShard}]
  BY <1>1, <1>2 DEF TypeOK
<1>5. TypeOK'
  BY <1>1, <1>2, <1>3, <1>4 DEF TypeOK
<1>6. Placed' /\ Numbered' /\ TempsOwned'
  BY <1>1, <1>2, <1>3 DEF BuilderInv, Placed, Numbered, TempsOwned, Active
<1>7. LoopsInv'
  <2>1. PICK N \in 0..(MaxDocs + 1) : Renaming(N)
    BY <1>1 DEF BuilderInv, LoopsInv
  <2>2. torn' \/ ~buildError'
    BY <1>1 DEF BuilderInv, LoopsInv
  <2>3. N <= n
    BY <2>1 DEF Renaming
  <2>4. ASSUME NEW m \in Nums, ~torn'
        PROVE  /\ m < N => disk'[m] = [version |-> build, docs |-> work[m]]
               /\ N <= m /\ m < n + 1 => disk'[m] = NoShard
               /\ n + 1 <= m => (disk'[m] = NoShard <=> last.count <= m)
    <3>1. ~torn /\ disk'[m] = IF m = n THEN NoShard ELSE disk[m]
      BY <1>1, <1>2, <2>4 DEF TypeOK
    <3>2. m \in Nat /\ N \in Nat
      BY BuilderAssumption DEF Nums
    <3>3. /\ m < N => disk[m] = [version |-> build, docs |-> work[m]]
          /\ N <= m /\ m < n => disk[m] = NoShard
          /\ n <= m => (disk[m] = NoShard <=> last.count <= m)
      BY <1>1, <2>1, <3>1 DEF Renaming
    <3> QED  BY <1>2, <2>3, <3>1, <3>2, <3>3
  <2>5. Renaming(N)'
    BY <1>1, <1>2, <2>1, <2>3, <2>4 DEF Renaming
  <2> QED  BY <2>2, <2>5 DEF LoopsInv
<1>8. EveryDocumentOnce' /\ TempsRemoved' /\ IndexIsLastGoodBuild'
  BY <1>1 DEF EveryDocumentOnce, TempsRemoved, IndexIsLastGoodBuild
<1> QED  BY <1>5, <1>6, <1>7, <1>8 DEF BuilderInv

(* deleteRemainingShards meets a number without a shard, and Finish returns. *)
LEMMA ReturnsInv ==
  ASSUME BuilderInv, DeleteShard, nextShardNum \notin Nums \/ disk[nextShardNum] = NoShard
  PROVE  BuilderInv'
<1>1. PICK N \in 0..(MaxDocs + 1) : Renaming(N)
  BY DEF BuilderInv, LoopsInv, DeleteShard
<1>2. Cardinality({m \in Nums : job[m] = "done"}) = N
  BY <1>1, ShardCount
<1>3. /\ pc = "renaming" /\ finishedShards = {} /\ nextShardNum' = nextShardNum + 1 /\ pc' = "returned"
      /\ last' = IF buildError THEN last ELSE [version |-> build, count |-> N]
      /\ UNCHANGED <<disk, torn, temps, build, parallelism, added, todo, size, work, job, buildError,
                     finishedShards, leftover>>
  BY <1>2 DEF DeleteShard
<1>4. /\ nextShardNum \in 0..(MaxDocs + 1) /\ MaxDocs \in Nat /\ N \in Nat
      /\ build \in 1..MaxBuilds /\ TypeOK /\ last.count \in Nat
  BY <1>3, BuilderAssumption DEF BuilderInv, TypeOK, Numbered, Active
<1>5. TypeOK'
  <2>1. nextShardNum' \in 0..(MaxDocs + 2)
    BY <1>3, <1>4
  <2>2. last' \in [version : 0..MaxBuilds, count : Nat]
    BY <1>3, <1>4, BuilderAssumption, SMTT(30) DEF TypeOK
  <2> QED  BY <1>3, <1>4, <2>1, <2>2 DEF TypeOK
<1>6. Placed' /\ Numbered' /\ TempsOwned' /\ LoopsInv'
  BY <1>3 DEF BuilderInv, Placed, Numbered, TempsOwned, LoopsInv, Active
<1>7. TempsRemoved'
  BY <1>3 DEF BuilderInv, TempsOwned, TempsRemoved, Numbered, Active
<1>8. ASSUME ~torn, NEW n \in Nums
      PROVE  /\ n < N => disk[n] = [version |-> build, docs |-> work[n]] /\ disk[n] # NoShard
             /\ ~(n < N) => disk[n] = NoShard /\ work[n] = {}
  <2>1. n \in Nat
    BY <1>4, SMTT(30) DEF Nums
  <2>2. n < N => disk[n] = [version |-> build, docs |-> work[n]]
    BY <1>1, <1>3, <1>8 DEF Renaming
  <2>3. [version |-> build, docs |-> work[n]] \in Shards
    BY <1>4 DEF TypeOK, Shards
  <2>4. ~(n < N) => work[n] = {}
    BY <1>1, Zenon DEF Renaming, BuilderInv, Placed
  <2>5. ~(n < N) => disk[n] = NoShard
    <3>0. /\ N <= n /\ n < nextShardNum => disk[n] = NoShard
          /\ \A m \in Nums : nextShardNum <= m => (disk[m] = NoShard <=> last.count <= m)
      BY <1>1, <1>8, Zenon DEF Renaming
    <3>1. CASE n < nextShardNum
      BY <1>4, <2>1, <3>0, <3>1
    <3>2. CASE nextShardNum <= n
      <4>1. nextShardNum \in Nums
        BY <1>4, <2>1, <3>2 DEF Nums
      <4>2. nextShardNum <= nextShardNum
        BY <1>4
      <4>3. last.count <= nextShardNum
        BY <3>0, <4>1, <4>2
      <4>4. last.count <= n
        BY <1>4, <2>1, <3>2, <4>3
      <4> QED  BY <3>0, <3>2, <4>4
    <3> QED  BY <1>4, <2>1, <3>1, <3>2
  <2> QED  BY <2>2, <2>3, <2>4, <2>5, NoShardAssumption
<1>9. ~torn => ~buildError
  BY <1>3 DEF BuilderInv, LoopsInv
<1>10. IndexIsLastGoodBuild'
  <2> SUFFICES ASSUME ~torn PROVE OneBuild(last.version, last.count)'
    BY <1>3 DEF IndexIsLastGoodBuild
  <2>1. last'.version = build /\ last'.count = N
    BY <1>3, <1>9
  <2>2. ASSUME NEW n \in Nums
        PROVE  IF n < N THEN disk[n] # NoShard /\ disk[n].version = build ELSE disk[n] = NoShard
    <3>1. /\ n < N => disk[n] = [version |-> build, docs |-> work[n]] /\ disk[n] # NoShard
          /\ ~(n < N) => disk[n] = NoShard
      BY <1>8
    <3> QED  BY <3>1
  <2> QED  BY <1>3, <2>1, <2>2 DEF OneBuild
<1>11. EveryDocumentOnce'
  <2> SUFFICES ASSUME ~torn, NEW d \in 1..added
               PROVE  Cardinality({n \in Nums : disk[n] # NoShard /\ d \in disk[n].docs}) = 1
    BY <1>3 DEF EveryDocumentOnce
  <2>1. d \in Docs /\ d <= added
    BY <1>4 DEF TypeOK, Docs
  <2>2. PICK n \in Nums : d \in work[n]
    BY <1>3, <1>9, <2>1 DEF BuilderInv, Placed, Active
  <2>3. ASSUME NEW m \in Nums
        PROVE  disk[m] # NoShard /\ d \in disk[m].docs <=> d \in work[m]
    <3>1. /\ m < N => disk[m] = [version |-> build, docs |-> work[m]] /\ disk[m] # NoShard
          /\ ~(m < N) => disk[m] = NoShard /\ work[m] = {}
      BY <1>8
    <3> QED  BY <3>1
  <2>4. \A m \in Nums : d \in work[m] <=> m = n
    BY <2>1, <2>2 DEF BuilderInv, Placed
  <2>5. {m \in Nums : disk[m] # NoShard /\ d \in disk[m].docs} = {n}
    BY <2>3, <2>4
  <2> QED  BY <2>5, FS_Singleton, SMTT(30)
<1> QED  BY <1>5, <1>6, <1>7, <1>10, <1>11 DEF BuilderInv

(* Every step keeps the invariant. *)
LEMMA BuilderStepInv == BuilderInv /\ [Next]_vars => BuilderInv'
<1> SUFFICES ASSUME BuilderInv, [Next]_vars PROVE BuilderInv'
  OBVIOUS
<1>1. CASE NewBuilder
  BY <1>1, NewBuilderInv
<1>2. ASSUME NEW s \in DocSizes, Add(s) PROVE BuilderInv'
  BY <1>2, AddInv
<1>3. CASE Finish
  BY <1>3, FinishInv
<1>4. ASSUME NEW n \in Nums, BuildStarts(n) \/ TempFile(n) \/ BuildEnds(n) \/ BuildFails(n)
      PROVE  BuilderInv'
  BY <1>4, JobInv
<1>5. CASE FinishFails
  BY <1>5, FinishFailsInv
<1>6. CASE FinishRenames
  BY <1>6, FinishRenamesInv
<1>7. ASSUME NEW n \in Nums, Rename(n) PROVE BuilderInv'
  BY <1>7, RenameInv
<1>8. CASE DeleteShard
  BY <1>8, DeletesInv, ReturnsInv
<1>9. CASE Kill
  BY <1>9, KillInv
<1>10. CASE UNCHANGED vars
  <2>1. UNCHANGED <<disk, temps, build, pc, parallelism, added, todo, size, nextShardNum, work, job,
                    buildError, finishedShards, last, torn, leftover>>
    BY <1>10 DEF vars, buildVars
  <2>2. TypeOK'
    BY <2>1 DEF BuilderInv, TypeOK
  <2>3. Placed'
    BY <2>1 DEF BuilderInv, Placed, Active
  <2>4. Numbered' /\ TempsOwned'
    BY <2>1 DEF BuilderInv, Numbered, TempsOwned, Active
  <2>5. LoopsInv'
    <3>1. ASSUME NEW N \in 0..(MaxDocs + 1), Renaming(N)
          PROVE  Renaming(N)'
      BY <2>1, <3>1 DEF Renaming
    <3> QED  BY <2>1, <3>1 DEF BuilderInv, LoopsInv
  <2>6. IndexIsLastGoodBuild' /\ EveryDocumentOnce' /\ TempsRemoved'
    BY <2>1 DEF BuilderInv, IndexIsLastGoodBuild, OneBuild, EveryDocumentOnce, TempsRemoved
  <2> QED  BY <2>2, <2>3, <2>4, <2>5, <2>6 DEF BuilderInv
<1> QED  BY <1>1, <1>2, <1>3, <1>4, <1>5, <1>6, <1>7, <1>8, <1>9, <1>10 DEF Next, BuildSteps

-----------------------------------------------------------------------------

(* Outside the rename and delete loops of Finish, and as long as none of     *)
(* their steps failed or was cut short, the index is the whole of the last  *)
(* build that succeeded.                                                    *)
THEOREM IndexReplacedAsAWhole == Spec => []IndexIsLastGoodBuild
<1>1. BuilderInv => IndexIsLastGoodBuild
  BY DEF BuilderInv
<1> QED  BY BuilderInitInv, BuilderStepInv, <1>1, PTL DEF Spec

(* A build that succeeds has indexed each of its documents in exactly one    *)
(* shard, whatever the sizes, the order of the goroutines and the renames.  *)
THEOREM NoDocumentLost == Spec => []EveryDocumentOnce
<1>1. BuilderInv => EveryDocumentOnce
  BY DEF BuilderInv
<1> QED  BY BuilderInitInv, BuilderStepInv, <1>1, PTL DEF Spec

(* Add, flush, Finish and the shard builders keep every variable in its type, *)
(* the counters of documents, shards and slots among them.                   *)
THEOREM BuilderTypes == Spec => []TypeOK
<1>1. BuilderInv => TypeOK
  BY DEF BuilderInv
<1> QED  BY BuilderInitInv, BuilderStepInv, <1>1, PTL DEF Spec

(* Finish leaves no temporary file but those whose write or rename failed. *)
THEOREM NoTempsLeft == Spec => []TempsRemoved
<1>1. BuilderInv => TempsRemoved
  BY DEF BuilderInv
<1> QED  BY BuilderInitInv, BuilderStepInv, <1>1, PTL DEF Spec
=============================================================================
