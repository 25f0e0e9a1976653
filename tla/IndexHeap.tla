------------------------------ MODULE IndexHeap ------------------------------
(***************************************************************************)
(* queue.go's Queue: items in a map, and those that are queued in a binary *)
(* heap of container/heap, each item knowing its place in the heap.  Every *)
(* method holds q.mu while it runs; here it takes one step for its own     *)
(* assignments and one for each round of the loop of container/heap that   *)
(* it calls, and no method begins while another is in such a loop.         *)
(***************************************************************************)
EXTENDS Integers, Sequences

CONSTANTS
  Repos,       \* names of repositories
  MaxCommit,   \* bound: commits are numbered; 0 is ""
  MaxSeq       \* bound: Queue.seq

ASSUME IndexHeapAssumption == MaxCommit \in Nat /\ MaxSeq \in Nat

Commits == 0..MaxCommit

VARIABLES
  items,    \* Queue.items, the fields of queueItem Less reads; all exist from the start
  heapIdx,  \* queueItem.heapIdx
  pq,       \* Queue.pq: the heap, an array of repositories from index 0
  seq,      \* Queue.seq
  loop,     \* the loop of container/heap: "none", up, down of Fix, or down of Pop
  at,       \* the index that loop has reached
  from,     \* down's i0, the index it began at
  queue     \* history: the repositories on the queue, by the time they were added

heapVars == <<heapIdx, pq>>
loopVars == <<loop, at, from>>
vars == <<items, heapVars, seq, loopVars, queue>>

Init ==
  /\ items = [r \in Repos |-> [indexedCommit |-> 0, latestCommit |-> 0, seq |-> 0]]
  /\ heapIdx = [r \in Repos |-> -1]
  /\ pq = <<>>
  /\ seq = 0
  /\ loop = "none" /\ at = 0 /\ from = 0
  /\ queue = <<>>

At(i) == pq[i + 1]

(* Less, of two items. *)
Before(x, y) ==
  IF (x.indexedCommit = x.latestCommit) = (y.indexedCommit = y.latestCommit)
  THEN x.seq < y.seq
  ELSE x.indexedCommit # x.latestCommit

Less(i, j) == Before(items[At(i)], items[At(j)])

(* Swap that forgets the places (a mutation of Swap). *)
SwapForgets(i, j) ==
  /\ pq' = [pq EXCEPT ![i + 1] = At(j), ![j + 1] = At(i)]
  /\ UNCHANGED heapIdx

Swap(i, j) ==
  /\ pq' = [pq EXCEPT ![i + 1] = At(j), ![j + 1] = At(i)]
  /\ heapIdx' = [heapIdx EXCEPT ![At(j)] = i, ![At(i)] = j]

-----------------------------------------------------------------------------
(* container/heap: up and down, and what Push, Fix and Pop do after them *)

(* The part of the heap a loop works on: Pop has put the item it takes last. *)
HeapLen == IF loop = "pop" THEN Len(pq) - 1 ELSE Len(pq)

Enter(l, i) == loop' = l /\ at' = i /\ from' = i
Leave == loop' = "none" /\ at' = 0 /\ from' = 0

Parent(j) == (j - 1) \div 2

Rises(j) == j # 0 /\ Less(j, Parent(j))

UpSwaps ==
  /\ loop = "up"
  /\ Rises(at)
  /\ Swap(Parent(at), at)
  /\ at' = Parent(at)
  /\ UNCHANGED <<items, seq, loop, from, queue>>

UpEnds ==
  /\ loop = "up"
  /\ ~Rises(at)
  /\ Leave
  /\ UNCHANGED <<items, heapVars, seq, queue>>

(* The child of i that down compares with i, when i has one. *)
LeastChild(i) ==
  IF 2 * i + 2 < HeapLen /\ Less(2 * i + 2, 2 * i + 1) THEN 2 * i + 2 ELSE 2 * i + 1

Sinks(i) == 2 * i + 1 < HeapLen /\ Less(LeastChild(i), i)

DownSwaps ==
  /\ loop \in {"down", "pop"}
  /\ Sinks(at)
  /\ Swap(at, LeastChild(at))
  /\ at' = LeastChild(at)
  /\ UNCHANGED <<items, seq, loop, from, queue>>

(* Fix: an item that did not go down may have to go up. *)
DownEnds ==
  /\ loop = "down"
  /\ ~Sinks(at)
  /\ IF at > from THEN Leave ELSE Enter("up", from)
  /\ UNCHANGED <<items, heapVars, seq, queue>>

(* pqueue.Pop takes the last item. *)
PopEnds ==
  /\ loop = "pop"
  /\ ~Sinks(at)
  /\ pq' = SubSeq(pq, 1, HeapLen)
  /\ heapIdx' = [heapIdx EXCEPT ![At(HeapLen)] = -1]
  /\ Leave
  /\ UNCHANGED <<items, seq, queue>>

-----------------------------------------------------------------------------
(* The methods of Queue *)

AddOrUpdate(r, c) ==
  /\ loop = "none"
  /\ \/ /\ heapIdx[r] < 0
        /\ seq < MaxSeq
        /\ seq' = seq + 1
        /\ items' = [items EXCEPT ![r].latestCommit = c, ![r].seq = seq + 1]
        /\ heapIdx' = [heapIdx EXCEPT ![r] = Len(pq)]
        /\ pq' = Append(pq, r)
        /\ Enter("up", Len(pq))
        /\ queue' = Append(queue, r)
     \/ /\ heapIdx[r] >= 0
        /\ items' = [items EXCEPT ![r].latestCommit = c]
        /\ Enter("down", heapIdx[r])
        /\ UNCHANGED <<heapVars, seq, queue>>

(* SetIndexed that leaves the heap as it is (a mutation of SetIndexed). *)
SetIndexedUnfixed(r, c) ==
  /\ loop = "none"
  /\ items' = [items EXCEPT ![r].indexedCommit = c]
  /\ UNCHANGED <<heapVars, seq, loopVars, queue>>

(* SetIndexed moves a queued item and never adds one. *)
SetIndexed(r, c) ==
  /\ loop = "none"
  /\ items' = [items EXCEPT ![r].indexedCommit = c]
  /\ IF heapIdx[r] >= 0 THEN Enter("down", heapIdx[r]) ELSE UNCHANGED loopVars
  /\ UNCHANGED <<heapVars, seq, queue>>

Remove(s, i) == SubSeq(s, 1, i - 1) \o SubSeq(s, i + 1, Len(s))

(* heap.Pop puts the least item last, from where PopEnds takes it. *)
Pop ==
  /\ loop = "none"
  /\ pq # <<>>
  /\ Swap(0, Len(pq) - 1)
  /\ Enter("pop", 0)
  /\ \E i \in 1..Len(queue) : queue[i] = At(0) /\ queue' = Remove(queue, i)
  /\ UNCHANGED <<items, seq>>

LoopSteps == UpSwaps \/ UpEnds \/ DownSwaps \/ DownEnds \/ PopEnds

Next ==
  \/ \E r \in Repos, c \in Commits : AddOrUpdate(r, c) \/ SetIndexed(r, c)
  \/ Pop
  \/ LoopSteps

Spec == Init /\ [][Next]_vars

-----------------------------------------------------------------------------
(* Properties *)

(* Every item knows its place in the heap, and one that is not there knows   *)
(* that: AddOrUpdate decides by it, and Fix is given it.                    *)
PlacesKnown ==
  /\ \A i \in 0..(Len(pq) - 1) : heapIdx[At(i)] = i
  /\ \A r \in Repos : heapIdx[r] # -1 => heapIdx[r] \in 0..(Len(pq) - 1) /\ At(heapIdx[r]) = r

Abstract == INSTANCE IndexQueue WITH
  indexedCommit <- [r \in Repos |-> items[r].indexedCommit],
  latestCommit <- [r \in Repos |-> items[r].latestCommit],
  order <- queue

(* The heap implements the queue: Pop takes a stale repository if there is   *)
(* one, and of those it could take the one added first, whatever updates    *)
(* happened to items while they were queued.                                *)
ImplementsQueue == Abstract!QueueSpec
=============================================================================
