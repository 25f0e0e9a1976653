------------------------------ MODULE ShardLock ------------------------------
(***************************************************************************)
(* The lock of shardedSearcher: golang.org/x/sync/semaphore.Weighted as    *)
(* shards/shards.go uses it.  rlock acquires one token of the caller's     *)
(* context, lock acquires all of them with a background context, so that a *)
(* weighted semaphore serves as a read-write lock.                         *)
(***************************************************************************)
EXTENDS Integers, Sequences, FiniteSets

CONSTANTS
  Readers,   \* the calls that take the lock with rlock: Search and List
  Writers,   \* the calls that take the lock with lock: replace and Close
  Capacity   \* shardedSearcher.capacity, the number of CPUs

ASSUME ShardLockAssumption ==
  /\ Capacity \in Nat \ {0}
  /\ IsFiniteSet(Readers)
  /\ IsFiniteSet(Writers)
  /\ Readers \cap Writers = {}

VARIABLES
  cur,       \* Weighted.cur, the tokens handed out
  waiters,   \* Weighted.waiters, oldest first
  holders    \* the calls whose Acquire returned nil, or is about to

lockVars == <<cur, waiters, holders>>

Callers == Readers \cup Writers

Waiting == {waiters[i] : i \in 1..Len(waiters)}

(* A lock() that acquires one token too few (a mutation of WeightOf). *)
WeightOfShort(S) ==
  Cardinality(S \cap Readers) + (Capacity - 1) * Cardinality(S \cap Writers)

(* The tokens a set of calls holds or asks for: rlock acquires 1, lock all. *)
WeightOf(S) == Cardinality(S \cap Readers) + Capacity * Cardinality(S \cap Writers)

(* The k oldest waiters of ws. *)
Oldest(ws, k) == {ws[i] : i \in 1..k}

-----------------------------------------------------------------------------

LockInit ==
  /\ cur = 0
  /\ waiters = <<>>
  /\ holders = {}

(* Acquire without its look at the queue: a newcomer takes free tokens past *)
(* the calls that wait (a mutation of Acquire).                             *)
AcquireBarging(p) ==
  /\ p \notin holders \cup Waiting
  /\ \/ /\ cur + WeightOf({p}) <= Capacity
        /\ cur' = cur + WeightOf({p})
        /\ holders' = holders \cup {p}
        /\ UNCHANGED waiters
     \/ /\ cur + WeightOf({p}) > Capacity
        /\ waiters' = Append(waiters, p)
        /\ UNCHANGED <<cur, holders>>

(* Weighted.Acquire up to the select: the tokens at once when they are free *)
(* and nobody queues, else a place at the back of the queue.                *)
Acquire(p) ==
  /\ p \notin holders \cup Waiting
  /\ \/ /\ cur + WeightOf({p}) <= Capacity
        /\ waiters = <<>>
        /\ cur' = cur + WeightOf({p})
        /\ holders' = holders \cup {p}
        /\ UNCHANGED waiters
     \/ /\ ~(cur + WeightOf({p}) <= Capacity /\ waiters = <<>>)
        /\ waiters' = Append(waiters, p)
        /\ UNCHANGED <<cur, holders>>

(* The ctx.Done branch of Acquire for a call that is still queued: it leaves *)
(* the queue and wakes nobody.  A call that was granted its tokens in the   *)
(* meantime keeps them, so it is a holder and this branch is not taken.     *)
CancelAcquire(p) ==
  \E i \in 1..Len(waiters) :
    /\ waiters[i] = p
    /\ waiters' = SubSeq(waiters, 1, i - 1) \o SubSeq(waiters, i + 1, Len(waiters))
    /\ UNCHANGED <<cur, holders>>

(* Release that grants one waiter at most (a mutation of Release). *)
ReleaseGrantsOne(p) ==
  /\ p \in holders
  /\ LET left == cur - WeightOf({p})
     IN  \E k \in 0..Len(waiters) :
           /\ k = IF waiters # <<>> /\ left + WeightOf({Head(waiters)}) <= Capacity THEN 1 ELSE 0
           /\ cur' = left + WeightOf(Oldest(waiters, k))
           /\ holders' = (holders \ {p}) \cup Oldest(waiters, k)
           /\ waiters' = SubSeq(waiters, k + 1, Len(waiters))

(* Release that forgets the tokens of the calls it grants (a mutation of    *)
(* Release).                                                                *)
ReleaseForgetsGrant(p) ==
  /\ p \in holders
  /\ LET left == cur - WeightOf({p})
         Fits(k) == left + WeightOf(Oldest(waiters, k)) <= Capacity
     IN  \E k \in 0..Len(waiters) :
           /\ Fits(k)
           /\ k < Len(waiters) => ~Fits(k + 1)
           /\ cur' = left
           /\ holders' = (holders \ {p}) \cup Oldest(waiters, k)
           /\ waiters' = SubSeq(waiters, k + 1, Len(waiters))

(* Weighted.Release: after the tokens are back, the loop grants waiters from *)
(* the front and stops at the first whose tokens are not all free.          *)
Release(p) ==
  /\ p \in holders
  /\ LET left == cur - WeightOf({p})
         Fits(k) == left + WeightOf(Oldest(waiters, k)) <= Capacity
     IN  \E k \in 0..Len(waiters) :
           /\ Fits(k)
           /\ k < Len(waiters) => ~Fits(k + 1)
           /\ cur' = left + WeightOf(Oldest(waiters, k))
           /\ holders' = (holders \ {p}) \cup Oldest(waiters, k)
           /\ waiters' = SubSeq(waiters, k + 1, Len(waiters))

LockNext ==
  \/ \E p \in Callers : Acquire(p)
  \/ \E p \in Readers : CancelAcquire(p)
  \/ \E p \in Callers : Release(p)

(* The lock without an assumption on its users. *)
LockSafeSpec == LockInit /\ [][LockNext]_lockVars

(* Critical sections end: a holder releases the lock. *)
LockSpec ==
  /\ LockSafeSpec
  /\ \A p \in Callers : WF_lockVars(Release(p))

-----------------------------------------------------------------------------

(* Every variable has its type: the semaphore hands out no more than its     *)
(* capacity and takes back no more than it handed out.                      *)
LockTypeOK ==
  /\ cur \in 0..Capacity
  /\ waiters \in Seq(Callers)
  /\ holders \in SUBSET Callers

(* The counter is exactly the tokens of the holders, so Release never takes *)
(* it below zero (the "bad release" panic) and none is lost or minted by a  *)
(* grant, a cancellation or a release.                                      *)
TokensAccounted ==
  /\ cur = WeightOf(holders)
  /\ cur <= Capacity

(* What lock and rlock promise each other: a call inside lock is alone. *)
WriterExclusive ==
  \A w \in Writers \cap holders : holders = {w}

(* Nobody queues for tokens that are free.  CancelAcquire wakes nobody, so  *)
(* this rests on who cancels: only rlock is given a context that can end.   *)
NoLostWakeup ==
  waiters # <<>> => cur + WeightOf({Head(waiters)}) > Capacity

(* Tokens go to the queue in its order: a step that gives tokens to a call  *)
(* gives them to every call queued before it, and none to a newcomer while  *)
(* others wait.                                                             *)
NoOvertaking ==
  [][ /\ \A i, j \in 1..Len(waiters) :
           i < j /\ waiters[j] \in holders' => waiters[i] \in holders'
      /\ waiters # <<>> => holders' \ holders \subseteq Waiting ]_lockVars

(* A queued lock() gets its turn however many rlock() calls keep coming: the *)
(* comment in Release promises that readers do not starve the writer.       *)
WriterServed ==
  \A w \in Writers : w \in Waiting ~> w \in holders
=============================================================================
