----------------------------- MODULE IndexQueue -----------------------------
(***************************************************************************)
(* What cmd/zoekt-sourcegraph-indexserver/queue.go promises: a queue of    *)
(* repositories to index, those known to be stale first and in the order   *)
(* they were added otherwise.  IndexHeap shows that the heap of queue.go   *)
(* implements it, IndexServer uses it.                                     *)
(***************************************************************************)
EXTENDS Integers, Sequences

CONSTANTS
  Repos,       \* names of repositories
  MaxCommit    \* bound: commits are numbered; 0 is "", a repository without HEAD

ASSUME IndexQueueAssumption == MaxCommit \in Nat

Commits == 0..MaxCommit

VARIABLES
  indexedCommit,  \* queueItem.indexedCommit
  latestCommit,   \* queueItem.latestCommit
  order           \* the repositories on the queue, by the time they were added

queueVars == <<indexedCommit, latestCommit, order>>

Queued == {order[i] : i \in 1..Len(order)}

QueueInit ==
  /\ indexedCommit = [r \in Repos |-> 0]
  /\ latestCommit = [r \in Repos |-> 0]
  /\ order = <<>>

Stale(r) == indexedCommit[r] # latestCommit[r]

(* AddOrUpdate that takes a repository seen before for one that is queued    *)
(* (a mutation of AddOrUpdate).                                             *)
AddOrUpdateSeen(r, c) ==
  /\ latestCommit' = [latestCommit EXCEPT ![r] = c]
  /\ order' = IF r \in Queued \/ latestCommit[r] # 0 THEN order ELSE Append(order, r)
  /\ UNCHANGED indexedCommit

AddOrUpdate(r, c) ==
  /\ latestCommit' = [latestCommit EXCEPT ![r] = c]
  /\ order' = IF r \in Queued THEN order ELSE Append(order, r)
  /\ UNCHANGED indexedCommit

SetIndexed(r, c) ==
  /\ indexedCommit' = [indexedCommit EXCEPT ![r] = c]
  /\ UNCHANGED <<latestCommit, order>>

(* The i-th of the queue is next: a stale one before the others, then the    *)
(* one added first.                                                         *)
IsNext(i) ==
  \A j \in 1..Len(order) \ {i} :
    IF Stale(order[i]) = Stale(order[j]) THEN i < j ELSE Stale(order[i])

(* Pop gives repository r at its latest commit. *)
Pop(r) ==
  \E i \in 1..Len(order) :
    /\ order[i] = r
    /\ IsNext(i)
    /\ order' = SubSeq(order, 1, i - 1) \o SubSeq(order, i + 1, Len(order))
    /\ UNCHANGED <<indexedCommit, latestCommit>>

QueueNext ==
  \/ \E r \in Repos, c \in Commits : AddOrUpdate(r, c) \/ SetIndexed(r, c)
  \/ \E r \in Repos : Pop(r)

QueueSpec == QueueInit /\ [][QueueNext]_queueVars
=============================================================================
