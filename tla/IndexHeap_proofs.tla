--------------------------- MODULE IndexHeap_proofs ---------------------------
(***************************************************************************)
(* The heap of the index queue implements the queue, for any repositories, *)
(* any number of them on the heap, and any updates while they are queued.  *)
(***************************************************************************)
EXTENDS IndexHeap, SequenceTheorems, WellFoundedInduction, TLAPS

Item == [indexedCommit : Commits, latestCommit : Commits, seq : 0..MaxSeq]

TypeOK ==
  /\ items \in [Repos -> Item]
  /\ heapIdx \in [Repos -> Int]
  /\ pq \in Seq(Repos)
  /\ seq \in 0..MaxSeq
  /\ loop \in {"none", "up", "down", "pop"}
  /\ at \in Nat
  /\ from \in Nat
  /\ queue \in Seq(Repos)

Child(i, j) == j = 2 * i + 1 \/ j = 2 * i + 2

(* The item at index i need not come after the one at index j. *)
InOrder(i, j) == ~Less(j, i)

(* A loop is somewhere in its part of the heap; the empty heap left by the   *)
(* Pop of its only item is the exception.                                   *)
LoopInHeap ==
  /\ loop # "none" => at < HeapLen \/ (loop = "pop" /\ at = 0 /\ HeapLen = 0)
  /\ loop \in {"down", "pop"} => from <= at
  /\ loop = "pop" => from = 0 /\ pq # <<>>

(* The pair of a parent and a child that the loop may still have to swap: up *)
(* has not compared its index with its parent, down with its children, and  *)
(* Fix does not know which of them it will have to do.                      *)
Unsettled(i, j) ==
  \/ loop = "up" /\ j = at
  \/ loop \in {"down", "pop"} /\ i = at
  \/ loop = "down" /\ j = at /\ at = from

(* Every other parent is in order with its children, and so are the parent   *)
(* and the children of the index the loop has reached: it holds the only    *)
(* item that may be out of place.                                           *)
HeapOrdered ==
  /\ \A i, j \in 0..(HeapLen - 1) : Child(i, j) /\ ~Unsettled(i, j) => InOrder(i, j)
  /\ loop # "none" =>
       \A i, j \in 0..(HeapLen - 1) : Child(i, at) /\ Child(at, j) => InOrder(i, j)

(* The queue is what is on the heap, by the sequence number it got there. *)
QueueByTime ==
  /\ \A r \in Repos : (\E i \in 1..Len(queue) : queue[i] = r) <=> heapIdx[r] \in 0..(HeapLen - 1)
  /\ \A i, j \in 1..Len(queue) : i < j => items[queue[i]].seq < items[queue[j]].seq
  /\ \A r \in Repos : items[r].seq <= seq

HeapInv ==
  /\ TypeOK
  /\ PlacesKnown
  /\ LoopInHeap
  /\ HeapOrdered
  /\ QueueByTime

-----------------------------------------------------------------------------
(* Numbers, indexes and the order *)

(* One index more. *)
LEMMA LastIndex ==
  ASSUME NEW k \in Nat
  PROVE  /\ \A i \in 1..k : i \in 1..(k + 1)
         /\ \A i \in 1..(k + 1) : i \in 1..k \/ i = k + 1
OBVIOUS

(* A set of natural numbers that is not empty has a least element. *)
LEMMA LeastNat ==
  ASSUME NEW S, S \subseteq Nat, S # {}
  PROVE  \E m \in S : \A k \in S : m <= k
<1> DEFINE R == {p \in Nat \X Nat : p[1] < p[2]}
<1>1. IsWellFoundedOn(R, Nat)
  <2>1. R = OpToRel(<, Nat)
    BY Zenon DEF OpToRel
  <2> QED  BY <2>1, NatLessThanWellFounded, Zenon
<1> HIDE DEF R
<1>2. PICK x \in S : \A y \in S : ~(<<y, x>> \in R)
  BY <1>1, WFMin, Zenon
<1>3. \A y \in S : ~(y < x)
  BY <1>2, Zenon DEF R
<1> QED  BY <1>2, <1>3

(* The parent of up is the index whose children down looks at. *)
LEMMA ParentChild ==
  ASSUME NEW j \in Nat, j # 0
  PROVE  /\ Parent(j) \in Nat /\ Parent(j) < j
         /\ Child(Parent(j), j)
         /\ \A i \in Nat : Child(i, j) => i = Parent(j)
BY DEF Parent, Child

(* Less is a strict order in which two items that are not in one order are   *)
(* in the other, or tie.                                                    *)
LEMMA BeforeOrder ==
  /\ \A x, y \in Item : Before(x, y) => ~Before(y, x)
  /\ \A x, y, z \in Item : ~Before(y, x) /\ ~Before(z, y) => ~Before(z, x)
<1>1. \A x \in Item : x.seq \in Int
  BY IndexHeapAssumption DEF Item
<1> QED  BY <1>1 DEF Before

(* The item at the root of a settled heap comes first: the least index that   *)
(* came before it would come before its parent, which does not.              *)
LEMMA RootFirst ==
  ASSUME TypeOK, HeapOrdered, loop = "none"
  PROVE  \A k \in 0..(Len(pq) - 1) : InOrder(0, k)
<1>1. Len(pq) \in Nat /\ \A k \in 0..(Len(pq) - 1) : items[At(k)] \in Item
  BY DEF TypeOK, At
<1> DEFINE Early == {k \in 0..(Len(pq) - 1) : Less(k, 0)}
<1> SUFFICES ASSUME Early # {} PROVE FALSE
  BY Zenon DEF InOrder
<1>2. PICK m \in Early : \A k \in Early : m <= k
  <2>1. Early \subseteq Nat
    BY <1>1
  <2> HIDE DEF Early
  <2> QED  BY <2>1, LeastNat, Zenon
<1>3. m \in Nat /\ m < Len(pq) /\ Less(m, 0)
  BY <1>1, <1>2
<1>4. m # 0
  BY <1>1, <1>3, BeforeOrder, Zenon DEF Less
<1> DEFINE p == Parent(m)
<1>5. p \in Nat /\ p < m /\ Child(p, m)
  BY <1>3, <1>4, ParentChild, Zenon
<1> HIDE DEF p
<1>6. InOrder(p, m)
  BY <1>1, <1>3, <1>5 DEF HeapOrdered, HeapLen, Unsettled
<1>7. InOrder(0, p)
  BY <1>1, <1>2, <1>3, <1>5 DEF InOrder
<1>8. items[At(0)] \in Item /\ items[At(p)] \in Item /\ items[At(m)] \in Item
  BY <1>1, <1>3, <1>5
<1> QED  BY <1>3, <1>6, <1>7, <1>8, BeforeOrder, Zenon DEF InOrder, Less

-----------------------------------------------------------------------------
(* The steps of the loops *)

(* Swap exchanges two items and keeps every place known. *)
LEMMA SwapPlaces ==
  ASSUME TypeOK, PlacesKnown, NEW i \in 0..(Len(pq) - 1), NEW j \in 0..(Len(pq) - 1), Swap(i, j)
  PROVE  /\ pq' \in Seq(Repos) /\ Len(pq') = Len(pq)
         /\ heapIdx' \in [Repos -> Int]
         /\ PlacesKnown'
         /\ \A k \in 0..(Len(pq) - 1) :
              At(k)' = IF k = i THEN At(j) ELSE IF k = j THEN At(i) ELSE At(k)
         /\ \A r \in Repos :
              heapIdx'[r] = IF heapIdx[r] = i THEN j ELSE IF heapIdx[r] = j THEN i ELSE heapIdx[r]
<1>1. Len(pq) \in Nat /\ pq \in [1..Len(pq) -> Repos]
  BY DEF TypeOK
<1>2. At(i) \in Repos /\ At(j) \in Repos /\ i + 1 \in 1..Len(pq) /\ j + 1 \in 1..Len(pq)
  BY <1>1 DEF At
<1>3. pq' \in Seq(Repos) /\ Len(pq') = Len(pq)
  BY <1>1, <1>2 DEF Swap, TypeOK
<1>4. heapIdx' \in [Repos -> Int]
  BY <1>2 DEF Swap, TypeOK
<1>5. \A k \in 0..(Len(pq) - 1) :
        At(k)' = IF k = i THEN At(j) ELSE IF k = j THEN At(i) ELSE At(k)
  BY <1>1, <1>2 DEF Swap, At
<1>6. heapIdx[At(i)] = i /\ heapIdx[At(j)] = j
  BY Zenon DEF PlacesKnown
<1>7. \A r \in Repos : heapIdx[r] = i => r = At(i)
  BY <1>1 DEF PlacesKnown
<1>8. \A r \in Repos : heapIdx[r] = j => r = At(j)
  BY <1>1 DEF PlacesKnown
<1>9. \A r \in Repos :
        heapIdx'[r] = IF r = At(i) THEN j ELSE IF r = At(j) THEN i ELSE heapIdx[r]
  BY <1>2, Zenon DEF Swap, TypeOK
<1>10. \A r \in Repos :
         heapIdx'[r] = IF heapIdx[r] = i THEN j ELSE IF heapIdx[r] = j THEN i ELSE heapIdx[r]
  BY <1>6, <1>7, <1>8, <1>9, Zenon
<1>11. PlacesKnown'
  <2>1. ASSUME NEW k \in 0..(Len(pq) - 1) PROVE heapIdx'[At(k)'] = k
    <3>1. At(k) \in Repos /\ heapIdx[At(k)] = k
      <4>1. k + 1 \in 1..Len(pq)
        BY <1>1
      <4> QED  BY <1>1, <4>1, ElementOfSeq, Zenon DEF At, PlacesKnown
    <3> QED  BY <1>2, <1>5, <1>6, <1>10, <3>1, Zenon
  <2>2. ASSUME NEW r \in Repos, heapIdx'[r] # -1
        PROVE  heapIdx'[r] \in 0..(Len(pq) - 1) /\ pq'[heapIdx'[r] + 1] = r
    <3>1. heapIdx[r] # -1
      BY <1>1, <1>10, <2>2
    <3>2. heapIdx[r] \in 0..(Len(pq) - 1) /\ At(heapIdx[r]) = r
      BY <3>1, Zenon DEF PlacesKnown
    <3>3. heapIdx'[r] \in 0..(Len(pq) - 1)
      BY <1>10, <3>2, Zenon
    <3>4. \A k \in 0..(Len(pq) - 1) :
            pq'[k + 1] = IF k = i THEN At(j) ELSE IF k = j THEN At(i) ELSE At(k)
      BY <1>5, Zenon DEF At
    <3> QED  BY <1>10, <3>2, <3>3, <3>4, Zenon
  <2>3. \A k \in 0..(Len(pq') - 1) : heapIdx'[pq'[k + 1]] = k
    BY <1>3, <2>1, Zenon DEF At
  <2> QED  BY <1>3, <2>2, <2>3, Zenon DEF PlacesKnown, At
<1> QED  BY <1>3, <1>4, <1>5, <1>10, <1>11, Zenon

(* The part of the heap a loop works on. *)
LEMMA HeapLenType ==
  ASSUME HeapInv
  PROVE  /\ Len(pq) \in Nat /\ HeapLen \in Nat /\ HeapLen <= Len(pq)
         /\ \A k \in 0..(Len(pq) - 1) : At(k) \in Repos
<1>1. pq \in Seq(Repos) /\ Len(pq) \in Nat
  BY DEF HeapInv, TypeOK
<1>2. loop = "pop" => Len(pq) # 0
  BY <1>1, EmptySeq, Zenon DEF HeapInv, LoopInHeap
<1> QED  BY <1>1, <1>2 DEF HeapLen, At

(* A swap within the part of the heap a loop works on keeps all but the order. *)
LEMMA LoopSwapKeeps ==
  ASSUME HeapInv, loop # "none",
         NEW i \in 0..(HeapLen - 1), NEW j \in 0..(HeapLen - 1), Swap(i, j),
         at' \in Nat, UNCHANGED <<items, seq, loop, from, queue>>
  PROVE  /\ TypeOK' /\ PlacesKnown' /\ QueueByTime' /\ HeapLen' = HeapLen
         /\ HeapLen \in Nat
         /\ \A k \in 0..(HeapLen - 1) : At(k) \in Repos
         /\ \A k \in 0..(HeapLen - 1) :
              At(k)' = IF k = i THEN At(j) ELSE IF k = j THEN At(i) ELSE At(k)
<1>1. HeapLen \in Nat /\ HeapLen <= Len(pq) /\ Len(pq) \in Nat
  BY HeapLenType, Zenon
<1>2. i \in 0..(Len(pq) - 1) /\ j \in 0..(Len(pq) - 1)
  BY <1>1
<1>3. /\ pq' \in Seq(Repos) /\ Len(pq') = Len(pq)
      /\ heapIdx' \in [Repos -> Int]
      /\ PlacesKnown'
      /\ \A k \in 0..(Len(pq) - 1) :
           At(k)' = IF k = i THEN At(j) ELSE IF k = j THEN At(i) ELSE At(k)
      /\ \A r \in Repos :
           heapIdx'[r] = IF heapIdx[r] = i THEN j ELSE IF heapIdx[r] = j THEN i ELSE heapIdx[r]
  BY <1>2, SwapPlaces, Zenon DEF HeapInv
<1>4. HeapLen' = HeapLen
  BY <1>3, Zenon DEF HeapLen
<1>5. TypeOK'
  BY <1>3, Zenon DEF HeapInv, TypeOK
<1>6. QueueByTime'
  <2>1. \A r \in Repos : heapIdx'[r] \in 0..(HeapLen - 1) <=> heapIdx[r] \in 0..(HeapLen - 1)
    BY <1>1, <1>3, Zenon DEF HeapInv, TypeOK
  <2> QED  BY <1>4, <2>1, Zenon DEF HeapInv, QueueByTime
<1>7. \A k \in 0..(HeapLen - 1) : At(k) \in Repos
  BY <1>1, HeapLenType
<1>8. \A k \in 0..(HeapLen - 1) :
        At(k)' = IF k = i THEN At(j) ELSE IF k = j THEN At(i) ELSE At(k)
  BY <1>1, <1>3
<1> QED  BY <1>1, <1>3, <1>4, <1>5, <1>6, <1>7, <1>8, Zenon

(* up moves its item to the parent. *)
LEMMA UpSwapsInv ==
  ASSUME HeapInv, UpSwaps
  PROVE  HeapInv'
<1> DEFINE p == Parent(at)
           n == HeapLen
<1>1. at \in Nat /\ n \in Nat /\ at < n /\ at # 0 /\ loop = "up" /\ Less(at, p)
  BY HeapLenType, Zenon DEF UpSwaps, Rises, HeapInv, LoopInHeap, TypeOK
<1>2. p \in Nat /\ p < at /\ Child(p, at) /\ \A i \in Nat : Child(i, at) => i = p
  BY <1>1, ParentChild, Zenon
<1>3. Swap(p, at) /\ at' = p /\ UNCHANGED <<items, seq, loop, from, queue>>
  BY Zenon DEF UpSwaps
<1> HIDE DEF p, n
<1>4. /\ TypeOK' /\ PlacesKnown' /\ QueueByTime' /\ HeapLen' = n
      /\ \A k \in 0..(n - 1) : At(k) \in Repos
      /\ \A k \in 0..(n - 1) : At(k)' = IF k = p THEN At(at) ELSE IF k = at THEN At(p) ELSE At(k)
  BY <1>1, <1>2, <1>3, LoopSwapKeeps DEF n
<1>5. LoopInHeap'
  BY <1>1, <1>2, <1>3, <1>4 DEF LoopInHeap
<1> DEFINE K(k) == items[At(k)]
<1>6. /\ \A k \in 0..(n - 1) : K(k) \in Item
      /\ \A k \in 0..(n - 1) : K(k)' = IF k = p THEN K(at) ELSE IF k = at THEN K(p) ELSE K(k)
  BY <1>3, <1>4, Zenon DEF HeapInv, TypeOK
<1>7. /\ \A i, j \in 0..(n - 1) : Child(i, j) /\ j # at => ~Before(K(j), K(i))
      /\ \A i, j \in 0..(n - 1) : Child(i, at) /\ Child(at, j) => ~Before(K(j), K(i))
      /\ Before(K(at), K(p))
  BY <1>1, Zenon DEF HeapInv, HeapOrdered, Unsettled, InOrder, Less, n
<1> HIDE DEF K
<1>8. p \in 0..(n - 1) /\ at \in 0..(n - 1)
  BY <1>1, <1>2
<1>9. ASSUME NEW i \in 0..(n - 1), NEW j \in 0..(n - 1), Child(i, j), j # p
      PROVE  ~Before(K(j)', K(i)')
  <2>1. i < j
    BY <1>1, <1>9 DEF Child
  <2>2. CASE j = at
    BY <1>2, <1>6, <1>7, <1>8, <1>9, <2>2, BeforeOrder
  <2>3. CASE i = p /\ j # at
    BY <1>6, <1>7, <1>8, <1>9, <2>3, BeforeOrder
  <2>4. CASE i = at
    BY <1>2, <1>6, <1>7, <1>8, <1>9, <2>1, <2>4, Zenon
  <2>5. CASE i # p /\ i # at /\ j # at
    BY <1>6, <1>7, <1>9, <2>5, Zenon
  <2> QED  BY <2>2, <2>3, <2>4, <2>5, Zenon
<1>10. ASSUME NEW i \in 0..(n - 1), NEW j \in 0..(n - 1), Child(i, p), Child(p, j)
       PROVE  ~Before(K(j)', K(i)')
  <2>1. i < p /\ p < j
    BY <1>2, <1>10 DEF Child
  <2>2. ~Before(K(p), K(i)) /\ K(i)' = K(i)
    BY <1>2, <1>6, <1>7, <1>8, <1>10, <2>1
  <2>3. CASE j = at
    BY <1>6, <1>8, <2>2, <2>3, <2>1, Zenon
  <2>4. CASE j # at
    BY <1>6, <1>7, <1>8, <1>10, <2>1, <2>2, <2>4, BeforeOrder
  <2> QED  BY <2>3, <2>4, Zenon
<1>11. HeapOrdered'
  BY <1>1, <1>3, <1>4, <1>9, <1>10, Zenon DEF HeapOrdered, Unsettled, InOrder, Less, K
<1> QED  BY <1>4, <1>5, <1>11, Zenon DEF HeapInv

(* The child down chooses comes before the other one, and where down does    *)
(* not swap, the index is in order with its children.                       *)
LEMMA SinksLeast ==
  ASSUME HeapInv, NEW a \in 0..(HeapLen - 1)
  PROVE  /\ Sinks(a) => /\ LeastChild(a) \in 0..(HeapLen - 1)
                        /\ Child(a, LeastChild(a))
                        /\ Less(LeastChild(a), a)
                        /\ \A j \in 0..(HeapLen - 1) : Child(a, j) => InOrder(LeastChild(a), j)
         /\ ~Sinks(a) => \A j \in 0..(HeapLen - 1) : Child(a, j) => InOrder(a, j)
<1>1. HeapLen \in Nat /\ \A k \in 0..(HeapLen - 1) : items[At(k)] \in Item
  BY HeapLenType DEF HeapInv, TypeOK
<1> DEFINE c == 2 * a + 1
           d == 2 * a + 2
<1>2. a \in Nat /\ c \in Nat /\ d = c + 1
  BY <1>1
<1>3. CASE d < HeapLen /\ Less(d, c)
  <2>1. LeastChild(a) = d /\ Child(a, d) /\ c \in 0..(HeapLen - 1) /\ d \in 0..(HeapLen - 1)
    BY <1>1, <1>2, <1>3 DEF LeastChild, Child
  <2>2. items[At(c)] \in Item /\ items[At(d)] \in Item /\ items[At(a)] \in Item
    BY <1>1, <2>1, Zenon
  <2>3. InOrder(d, c) /\ InOrder(d, d)
    BY <1>3, <2>2, BeforeOrder, Zenon DEF InOrder, Less
  <2>4. InOrder(a, d) => InOrder(a, c)
    BY <2>2, <2>3, BeforeOrder DEF InOrder, Less
  <2> HIDE DEF c, d
  <2> QED  BY <1>1, <1>2, <2>1, <2>3, <2>4 DEF Sinks, Child, InOrder, c, d
<1>4. CASE ~(d < HeapLen /\ Less(d, c))
  <2>1. LeastChild(a) = c /\ Child(a, c)
    BY <1>4, Zenon DEF LeastChild, Child
  <2>2. ASSUME c < HeapLen PROVE items[At(c)] \in Item /\ items[At(a)] \in Item /\ InOrder(c, c)
    BY <1>1, <1>2, <2>2, BeforeOrder DEF InOrder, Less
  <2>3. ASSUME d < HeapLen
        PROVE  InOrder(c, d) /\ (InOrder(a, c) => InOrder(a, d))
    <3>1. c < HeapLen /\ items[At(d)] \in Item
      BY <1>1, <1>2, <2>3
    <3> QED  BY <1>4, <2>2, <2>3, <3>1, BeforeOrder DEF InOrder, Less
  <2> HIDE DEF c, d
  <2> QED  BY <1>1, <1>2, <2>1, <2>2, <2>3 DEF Sinks, Child, InOrder, c, d
<1> QED  BY <1>3, <1>4, Zenon

(* down moves its item to the least child. *)
LEMMA DownSwapsInv ==
  ASSUME HeapInv, DownSwaps
  PROVE  HeapInv'
<1> DEFINE c == LeastChild(at)
           n == HeapLen
<1>1. at \in Nat /\ n \in Nat /\ loop \in {"down", "pop"} /\ Sinks(at)
  BY HeapLenType, Zenon DEF DownSwaps, HeapInv, TypeOK
<1>2. at < n
  BY <1>1 DEF Sinks
<1>3. /\ c \in 0..(n - 1) /\ Child(at, c) /\ Less(c, at)
      /\ \A j \in 0..(n - 1) : Child(at, j) => InOrder(c, j)
  BY <1>1, <1>2, SinksLeast
<1>4. Swap(at, c) /\ at' = c /\ UNCHANGED <<items, seq, loop, from, queue>>
  BY Zenon DEF DownSwaps
<1>5. from <= at /\ from \in Nat /\ (loop = "pop" => from = 0 /\ pq # <<>>)
  BY <1>1, Zenon DEF HeapInv, LoopInHeap, TypeOK
<1> HIDE DEF c, n
<1>6. c \in Nat /\ at < c /\ at \in 0..(n - 1)
  BY <1>1, <1>2, <1>3 DEF Child
<1>7. /\ TypeOK' /\ PlacesKnown' /\ QueueByTime' /\ HeapLen' = n
      /\ \A k \in 0..(n - 1) : At(k) \in Repos
      /\ \A k \in 0..(n - 1) : At(k)' = IF k = at THEN At(c) ELSE IF k = c THEN At(at) ELSE At(k)
  BY <1>1, <1>3, <1>4, <1>6, LoopSwapKeeps, Zenon DEF n
<1>8. LoopInHeap'
  <2>1. Len(pq) \in Nat /\ Len(pq') = Len(pq)
    BY <1>4 DEF HeapInv, TypeOK, Swap
  <2>2. loop' = "pop" => pq' # <<>>
    BY <1>4, <1>5, <2>1, <1>7, EmptySeq, Zenon DEF HeapInv, TypeOK
  <2> QED  BY <1>1, <1>3, <1>4, <1>5, <1>6, <1>7, <2>2 DEF LoopInHeap
<1> DEFINE K(k) == items[At(k)]
<1>9. /\ \A k \in 0..(n - 1) : K(k) \in Item
      /\ \A k \in 0..(n - 1) : K(k)' = IF k = at THEN K(c) ELSE IF k = c THEN K(at) ELSE K(k)
  BY <1>4, <1>7, Zenon DEF HeapInv, TypeOK
<1>10. /\ \A i, j \in 0..(n - 1) : Child(i, j) /\ i # at /\ j # at => ~Before(K(j), K(i))
       /\ at # from \/ loop = "pop" =>
            \A i \in 0..(n - 1) : Child(i, at) /\ i # at => ~Before(K(at), K(i))
       /\ \A i, j \in 0..(n - 1) : Child(i, at) /\ Child(at, j) => ~Before(K(j), K(i))
       /\ Before(K(c), K(at))
       /\ \A j \in 0..(n - 1) : Child(at, j) => ~Before(K(j), K(c))
  BY <1>1, <1>3, <1>6, Zenon DEF HeapInv, HeapOrdered, Unsettled, InOrder, Less, n
<1> HIDE DEF K
<1>11. ASSUME NEW i \in 0..(n - 1), NEW j \in 0..(n - 1), Child(i, j), i # c
       PROVE  ~Before(K(j)', K(i)')
  <2>1. i < j
    BY <1>1, <1>11 DEF Child
  <2>2. CASE i = at /\ j = c
    BY <1>3, <1>6, <1>9, <1>10, <2>2, BeforeOrder
  <2>3. CASE i = at /\ j # c
    BY <1>3, <1>6, <1>9, <1>10, <1>11, <2>1, <2>3, Zenon
  <2>4. CASE j = at
    BY <1>3, <1>6, <1>9, <1>10, <1>11, <2>1, <2>4, Zenon
  <2>5. CASE j = c /\ i # at
    BY <1>1, <1>3, <1>6, <1>11, <2>5 DEF Child
  <2>6. CASE i # at /\ j # c /\ j # at
    BY <1>9, <1>10, <1>11, <2>6, Zenon
  <2> QED  BY <2>2, <2>3, <2>4, <2>5, <2>6, Zenon
<1>12. ASSUME NEW i \in 0..(n - 1), NEW j \in 0..(n - 1), Child(i, c), Child(c, j)
       PROVE  ~Before(K(j)', K(i)')
  <2>1. i = at /\ c < j
    BY <1>1, <1>3, <1>6, <1>12 DEF Child
  <2> QED  BY <1>3, <1>6, <1>9, <1>10, <1>12, <2>1
<1>13. HeapOrdered'
  BY <1>1, <1>4, <1>5, <1>6, <1>7, <1>11, <1>12, Zenon DEF HeapOrdered, Unsettled, InOrder, Less, K
<1> QED  BY <1>7, <1>8, <1>13, Zenon DEF HeapInv

(* up ends where the item is in order with its parent. *)
LEMMA UpEndsInv ==
  ASSUME HeapInv, UpEnds
  PROVE  HeapInv'
<1>1. at \in Nat /\ HeapLen \in Nat /\ at < HeapLen /\ loop = "up" /\ HeapLen = Len(pq)
  BY HeapLenType, Zenon DEF UpEnds, HeapInv, LoopInHeap, TypeOK, HeapLen
<1>2. HeapLen' = HeapLen /\ loop' = "none"
  BY <1>1, Zenon DEF UpEnds, heapVars, Leave, HeapLen
<1>3. TypeOK' /\ PlacesKnown' /\ LoopInHeap'
  BY Zenon DEF UpEnds, heapVars, Leave, HeapInv, TypeOK, PlacesKnown, LoopInHeap, At
<1>4. QueueByTime'
  BY <1>2, Zenon DEF UpEnds, heapVars, HeapInv, QueueByTime
<1>5. \A i, j \in 0..(HeapLen - 1) : Child(i, j) => InOrder(i, j)
  <2> SUFFICES ASSUME NEW i \in 0..(HeapLen - 1), NEW j \in 0..(HeapLen - 1), Child(i, j)
               PROVE  InOrder(i, j)
    BY Zenon
  <2>1. CASE j # at
    BY <1>1, <2>1, Zenon DEF HeapInv, HeapOrdered, Unsettled
  <2>2. CASE j = at
    <3>1. at # 0 /\ i \in Nat
      BY <1>1, <2>2 DEF Child
    <3>2. i = Parent(at)
      BY <1>1, <2>2, <3>1, ParentChild, Zenon
    <3> QED  BY <2>2, <3>1, <3>2, Zenon DEF UpEnds, Rises, InOrder
  <2> QED  BY <2>1, <2>2, Zenon
<1>6. HeapOrdered'
  BY <1>2, <1>5, Zenon DEF UpEnds, heapVars, HeapOrdered, InOrder, Less, At
<1> QED  BY <1>3, <1>4, <1>6, Zenon DEF HeapInv

(* down of Fix ends: an item that went down is in place, one that did not is  *)
(* left to up.                                                               *)
LEMMA DownEndsInv ==
  ASSUME HeapInv, DownEnds
  PROVE  HeapInv'
<1>1. /\ at \in Nat /\ from \in Nat /\ HeapLen \in Nat /\ at < HeapLen /\ from <= at
      /\ loop = "down" /\ HeapLen = Len(pq)
  BY HeapLenType, Zenon DEF DownEnds, HeapInv, LoopInHeap, TypeOK, HeapLen
<1>2. UNCHANGED <<items, heapIdx, pq, seq, queue>>
  BY Zenon DEF DownEnds, heapVars
<1>3. \A i, j \in 0..(HeapLen - 1) :
        Child(i, j) /\ (j # at \/ at # from) => InOrder(i, j)
  <2> SUFFICES ASSUME NEW i \in 0..(HeapLen - 1), NEW j \in 0..(HeapLen - 1), Child(i, j),
                      j # at \/ at # from
               PROVE  InOrder(i, j)
    BY Zenon
  <2>1. CASE i = at
    BY <1>1, <2>1, SinksLeast, Zenon DEF DownEnds
  <2>2. CASE i # at
    BY <1>1, <2>2, Zenon DEF HeapInv, HeapOrdered, Unsettled
  <2> QED  BY <2>1, <2>2, Zenon
<1>4. \A i, j \in 0..(HeapLen - 1) : Child(i, at) /\ Child(at, j) => InOrder(i, j)
  BY <1>1, Zenon DEF HeapInv, HeapOrdered
<1>5. loop' \in {"none", "up"} /\ HeapLen' = HeapLen
  BY <1>1, <1>2, Zenon DEF DownEnds, Leave, Enter, HeapLen
<1>6. TypeOK' /\ PlacesKnown'
  BY <1>1, <1>2 DEF DownEnds, Leave, Enter, HeapInv, TypeOK, PlacesKnown, At
<1>7. QueueByTime'
  BY <1>2, <1>5, Zenon DEF HeapInv, QueueByTime
<1>8. CASE at > from
  <2>1. loop' = "none"
    BY <1>8, Zenon DEF DownEnds, Leave
  <2>2. LoopInHeap'
    BY <2>1, Zenon DEF LoopInHeap
  <2>3. HeapOrdered'
    BY <1>1, <1>2, <1>3, <1>5, <1>8, <2>1 DEF HeapOrdered, InOrder, Less, At
  <2> QED  BY <1>6, <1>7, <2>2, <2>3, Zenon DEF HeapInv
<1>9. CASE ~(at > from)
  <2>1. loop' = "up" /\ at' = at /\ from' = from /\ at = from
    BY <1>1, <1>9 DEF DownEnds, Enter
  <2>2. LoopInHeap'
    BY <1>1, <1>5, <2>1, Zenon DEF LoopInHeap
  <2>3. HeapOrdered'
    BY <1>1, <1>2, <1>3, <1>4, <1>5, <2>1, Zenon DEF HeapOrdered, Unsettled, InOrder, Less, At
  <2> QED  BY <1>6, <1>7, <2>2, <2>3, Zenon DEF HeapInv
<1> QED  BY <1>8, <1>9, Zenon

(* Pop ends: the item it takes leaves the heap. *)
LEMMA PopEndsInv ==
  ASSUME HeapInv, PopEnds
  PROVE  HeapInv'
<1> DEFINE n == HeapLen
<1>1. loop = "pop" /\ n \in Nat /\ Len(pq) = n + 1 /\ at \in Nat /\ pq \in Seq(Repos)
  BY HeapLenType DEF PopEnds, HeapInv, TypeOK, HeapLen
<1> HIDE DEF n
<1>2. /\ pq' = SubSeq(pq, 1, n) /\ loop' = "none" /\ at' = 0 /\ from' = 0
      /\ heapIdx' = [heapIdx EXCEPT ![At(n)] = -1]
      /\ UNCHANGED <<items, seq, queue>>
  BY Zenon DEF PopEnds, Leave, n
<1>3. /\ pq' \in Seq(Repos) /\ Len(pq') = n
      /\ \A k \in 1..n : pq'[k] = pq[k]
  BY <1>1, <1>2
<1>4. /\ HeapLen' = n
      /\ \A k \in 0..(n - 1) : At(k)' = At(k) /\ At(k) \in Repos
      /\ At(n) \in Repos /\ heapIdx[At(n)] = n
  <2>1. HeapLen' = n
    BY <1>2, <1>3, Zenon DEF HeapLen
  <2>2. \A k \in 0..(n - 1) : At(k)' = At(k) /\ At(k) \in Repos
    BY <1>1, <1>3 DEF At
  <2>3. At(n) \in Repos
    BY <1>1 DEF At
  <2>4. n \in 0..(Len(pq) - 1)
    BY <1>1
  <2>5. heapIdx[At(n)] = n
    BY <2>4, Zenon DEF HeapInv, PlacesKnown
  <2> QED  BY <2>1, <2>2, <2>3, <2>5, Zenon
<1>5. heapIdx \in [Repos -> Int]
  BY Zenon DEF HeapInv, TypeOK
<1>6. \A r \in Repos : heapIdx'[r] = IF heapIdx[r] = n THEN -1 ELSE heapIdx[r]
  <2>1. \A r \in Repos : heapIdx[r] = n => r = At(n)
    BY <1>1 DEF HeapInv, PlacesKnown
  <2> QED  BY <1>2, <1>4, <1>5, <2>1, Zenon
<1>7. TypeOK'
  <2>1. heapIdx' \in [Repos -> Int]
    BY <1>2, <1>4, <1>5
  <2> QED  BY <1>2, <1>3, <2>1, Zenon DEF HeapInv, TypeOK
<1>8. PlacesKnown'
  <2>1. \A k \in 0..n : heapIdx[At(k)] = k
    BY <1>1 DEF HeapInv, PlacesKnown
  <2>2. \A k \in 0..(n - 1) : heapIdx'[pq'[k + 1]] = k
    <3>1. \A k \in 0..(n - 1) : pq'[k + 1] = At(k)
      BY <1>1, <1>3 DEF At
    <3> QED  BY <1>1, <1>4, <1>6, <2>1, <3>1
  <2>3. ASSUME NEW r \in Repos, heapIdx'[r] # -1
        PROVE  heapIdx'[r] \in 0..(n - 1) /\ pq'[heapIdx'[r] + 1] = r
    <3>1. heapIdx[r] # -1 /\ heapIdx[r] # n /\ heapIdx'[r] = heapIdx[r]
      BY <1>6, <2>3, Zenon
    <3>2. heapIdx[r] \in 0..n /\ pq[heapIdx[r] + 1] = r
      BY <1>1, <3>1 DEF HeapInv, PlacesKnown, At
    <3>3. heapIdx[r] \in 0..(n - 1)
      BY <1>1, <3>1, <3>2
    <3> QED  BY <1>1, <1>3, <3>1, <3>2, <3>3
  <2> QED  BY <1>3, <2>2, <2>3, Zenon DEF PlacesKnown, At
<1>9. LoopInHeap'
  BY <1>2, Zenon DEF LoopInHeap
<1>10. QueueByTime'
  <2>1. \A r \in Repos : heapIdx'[r] \in 0..(n - 1) <=> heapIdx[r] \in 0..(n - 1)
    BY <1>1, <1>5, <1>6
  <2> QED  BY <1>2, <1>4, <2>1, Zenon DEF HeapInv, QueueByTime, n
<1>11. \A i, j \in 0..(n - 1) : Child(i, j) => InOrder(i, j)
  <2> SUFFICES ASSUME NEW i \in 0..(n - 1), NEW j \in 0..(n - 1), Child(i, j)
               PROVE  InOrder(i, j)
    BY Zenon
  <2>1. CASE i = at
    BY <2>1, SinksLeast, Zenon DEF PopEnds, n
  <2>2. CASE i # at
    BY <1>1, <2>2, Zenon DEF HeapInv, HeapOrdered, Unsettled, n
  <2> QED  BY <2>1, <2>2, Zenon
<1>12. HeapOrdered'
  BY <1>2, <1>4, <1>11, Zenon DEF HeapOrdered, InOrder, Less
<1> QED  BY <1>7, <1>8, <1>9, <1>10, <1>12, Zenon DEF HeapInv

-----------------------------------------------------------------------------
(* The methods of Queue *)

(* Without a loop, every parent on the heap is in order with its children. *)
LEMMA SettledHeap ==
  ASSUME HeapInv, loop = "none"
  PROVE  /\ HeapLen = Len(pq) /\ Len(pq) \in Nat
         /\ \A k \in 0..(Len(pq) - 1) : At(k) \in Repos /\ items[At(k)] \in Item /\ heapIdx[At(k)] = k
         /\ \A i, j \in 0..(Len(pq) - 1) : Child(i, j) => InOrder(i, j)
<1>1. HeapLen = Len(pq) /\ Len(pq) \in Nat
  BY HeapLenType, Zenon DEF HeapLen
<1>2. \A k \in 0..(Len(pq) - 1) : At(k) \in Repos /\ items[At(k)] \in Item /\ heapIdx[At(k)] = k
  BY HeapLenType, Zenon DEF HeapInv, TypeOK, PlacesKnown
<1>3. \A i, j \in 0..(Len(pq) - 1) : Child(i, j) => InOrder(i, j)
  BY <1>1, Zenon DEF HeapInv, HeapOrdered, Unsettled
<1> QED  BY <1>1, <1>2, <1>3, Zenon

(* An update of a queued item leaves the heap in order but for that item,    *)
(* and Fix is given its index.                                              *)
LEMMA UpdateInv ==
  ASSUME HeapInv, loop = "none", NEW r \in Repos, NEW x \in Item, x.seq = items[r].seq,
         heapIdx[r] >= 0,
         items' = [items EXCEPT ![r] = x],
         Enter("down", heapIdx[r]), UNCHANGED <<heapIdx, pq, seq, queue>>
  PROVE  HeapInv'
<1> DEFINE a == heapIdx[r]
           n == Len(pq)
<1>1. /\ HeapLen = n /\ n \in Nat
      /\ \A k \in 0..(n - 1) : At(k) \in Repos /\ items[At(k)] \in Item /\ heapIdx[At(k)] = k
      /\ \A i, j \in 0..(n - 1) : Child(i, j) => InOrder(i, j)
  BY SettledHeap, Zenon
<1>2. a \in 0..(n - 1) /\ At(a) = r
  BY DEF HeapInv, PlacesKnown, TypeOK
<1>3. loop' = "down" /\ at' = a /\ from' = a
  BY Zenon DEF Enter
<1>4. HeapLen' = n
  BY <1>1, <1>3, Zenon DEF HeapLen
<1>5. items \in [Repos -> Item] /\ \A q \in Repos : items'[q] = IF q = r THEN x ELSE items[q]
  BY Zenon DEF HeapInv, TypeOK
<1> HIDE DEF a, n
<1>6. TypeOK'
  <2>1. items' \in [Repos -> Item]
    BY <1>5, Zenon
  <2> QED  BY <1>2, <1>3, <2>1 DEF HeapInv, TypeOK
<1>7. PlacesKnown'
  BY Zenon DEF HeapInv, PlacesKnown, At
<1>8. LoopInHeap'
  BY <1>1, <1>2, <1>3, <1>4 DEF LoopInHeap
<1>9. QueueByTime'
  <2>1. \A q \in Repos : items'[q].seq = items[q].seq
    BY <1>5, Zenon
  <2>2. \A i \in 1..Len(queue) : queue[i] \in Repos
    BY DEF HeapInv, TypeOK
  <2> QED  BY <1>1, <1>4, <2>1, <2>2 DEF HeapInv, QueueByTime
<1>10. \A k \in 0..(n - 1) : k # a => items'[At(k)'] = items[At(k)]
  <2>1. \A k \in 0..(n - 1) : k # a => At(k) # r
    BY <1>1, <1>2, Zenon
  <2>2. \A k \in 0..(n - 1) : At(k)' = At(k)
    BY Zenon DEF At
  <2> QED  BY <1>1, <1>5, <2>1, <2>2, Zenon
<1>11. ASSUME NEW i \in 0..(n - 1), NEW j \in 0..(n - 1), Child(i, j), i # a, j # a
       PROVE  InOrder(i, j)'
  BY <1>1, <1>10, <1>11, Zenon DEF InOrder, Less
<1>12. ASSUME NEW i \in 0..(n - 1), NEW j \in 0..(n - 1), Child(i, a), Child(a, j)
       PROVE  InOrder(i, j)'
  <2>1. i # a /\ j # a
    BY <1>1, <1>2, <1>12 DEF Child
  <2>2. InOrder(i, a) /\ InOrder(a, j)
    BY <1>1, <1>2, <1>12, Zenon
  <2>3. InOrder(i, j)
    BY <1>1, <1>2, <2>2, BeforeOrder, Zenon DEF InOrder, Less
  <2> QED  BY <1>10, <2>1, <2>3, Zenon DEF InOrder, Less
<1>13. HeapOrdered'
  BY <1>3, <1>4, <1>11, <1>12, Zenon DEF HeapOrdered, Unsettled
<1> QED  BY <1>6, <1>7, <1>8, <1>9, <1>13, Zenon DEF HeapInv

(* A repository that was not queued is the last of the heap and of the queue. *)
LEMMA PushInv ==
  ASSUME HeapInv, loop = "none", NEW r \in Repos, NEW x \in Item, x.seq = seq + 1,
         heapIdx[r] < 0, seq < MaxSeq, seq' = seq + 1,
         items' = [items EXCEPT ![r] = x],
         heapIdx' = [heapIdx EXCEPT ![r] = Len(pq)],
         pq' = Append(pq, r), queue' = Append(queue, r), Enter("up", Len(pq))
  PROVE  HeapInv'
<1> DEFINE n == Len(pq)
           m == Len(queue)
<1>1. /\ HeapLen = n /\ n \in Nat
      /\ \A k \in 0..(n - 1) : At(k) \in Repos /\ items[At(k)] \in Item /\ heapIdx[At(k)] = k
      /\ \A i, j \in 0..(n - 1) : Child(i, j) => InOrder(i, j)
  BY SettledHeap, Zenon
<1>2. /\ items \in [Repos -> Item] /\ heapIdx \in [Repos -> Int]
      /\ pq \in Seq(Repos) /\ queue \in Seq(Repos) /\ m \in Nat
      /\ seq \in 0..MaxSeq
  BY DEF HeapInv, TypeOK
<1>3. /\ pq' \in Seq(Repos) /\ Len(pq') = n + 1
      /\ \A k \in 1..n : pq'[k] = pq[k]
      /\ pq'[n + 1] = r
  BY <1>2, AppendProperties
<1>4. /\ queue' \in Seq(Repos) /\ Len(queue') = m + 1
      /\ \A k \in 1..m : queue'[k] = queue[k]
      /\ queue'[m + 1] = r
  BY <1>2, AppendProperties
<1>5. /\ \A q \in Repos : items'[q] = IF q = r THEN x ELSE items[q]
      /\ \A q \in Repos : heapIdx'[q] = IF q = r THEN n ELSE heapIdx[q]
  BY <1>2, Zenon
<1>6. loop' = "up" /\ at' = n /\ from' = n /\ HeapLen' = n + 1
  BY <1>3, Zenon DEF Enter, HeapLen
<1>7. \A k \in 0..(n - 1) : At(k)' = At(k) /\ At(k) # r
  <2>1. \A k \in 0..(n - 1) : k + 1 \in 1..n /\ At(k) # r
    BY <1>1, <1>2
  <2> QED  BY <1>3, <2>1, Zenon DEF At
<1> HIDE DEF n, m
<1>8. TypeOK'
  <2>1. items' \in [Repos -> Item] /\ heapIdx' \in [Repos -> Int]
    BY <1>1, <1>2 DEF n
  <2>2. seq' \in 0..MaxSeq /\ loop' \in {"none", "up", "down", "pop"} /\ at' \in Nat /\ from' \in Nat
    BY <1>1, <1>2, <1>6, IndexHeapAssumption
  <2> QED  BY <1>3, <1>4, <2>1, <2>2, Zenon DEF TypeOK
<1>9. PlacesKnown'
  <2>1. \A k \in 0..n : heapIdx'[pq'[k + 1]] = k
    <3>1. ASSUME NEW k \in 0..n, k # n PROVE heapIdx'[pq'[k + 1]] = k
      <4>1. k \in 0..(n - 1)
        BY <1>1, <3>1
      <4>2. pq'[k + 1] = At(k) /\ At(k) # r /\ At(k) \in Repos /\ heapIdx[At(k)] = k
        BY <1>1, <1>7, <4>1, Zenon DEF At
      <4> QED  BY <1>5, <4>2, Zenon
    <3>2. heapIdx'[pq'[n + 1]] = n
      BY <1>3, <1>5, Zenon
    <3> QED  BY <3>1, <3>2, Zenon
  <2>2. ASSUME NEW q \in Repos, heapIdx'[q] # -1
        PROVE  heapIdx'[q] \in 0..n /\ pq'[heapIdx'[q] + 1] = q
    <3>1. CASE q = r
      BY <1>1, <1>3, <1>5, <3>1
    <3>2. CASE q # r
      <4>1. heapIdx'[q] = heapIdx[q]
        BY <1>5, <3>2, Zenon
      <4>2. heapIdx[q] \in 0..(n - 1) /\ pq[heapIdx[q] + 1] = q
        BY <2>2, <4>1, Zenon DEF HeapInv, PlacesKnown, At, n
      <4> QED  BY <1>1, <1>3, <4>1, <4>2
    <3> QED  BY <3>1, <3>2, Zenon
  <2>3. 0..(Len(pq') - 1) = 0..n
    BY <1>1, <1>3
  <2> QED  BY <2>1, <2>2, <2>3, Zenon DEF PlacesKnown, At
<1>10. LoopInHeap'
  BY <1>1, <1>6 DEF LoopInHeap
<1>11. QueueByTime'
  <2>1. /\ \A q \in Repos : (\E i \in 1..m : queue[i] = q) <=> heapIdx[q] \in 0..(n - 1)
        /\ \A i, j \in 1..m : i < j => items[queue[i]].seq < items[queue[j]].seq
        /\ \A q \in Repos : items[q].seq <= seq
        /\ \A i \in 1..m : queue[i] \in Repos
    BY <1>1, <1>2 DEF HeapInv, QueueByTime, m
  <2>2. \A i \in 1..m : queue[i] # r
    <3>1. heapIdx[r] \notin 0..(n - 1)
      BY <1>1, <1>2
    <3> QED  BY <2>1, <3>1, Zenon
  <2>3. ASSUME NEW q \in Repos
        PROVE  (\E i \in 1..(m + 1) : queue'[i] = q) <=> heapIdx'[q] \in 0..n
    <3>1. CASE q = r
      BY <1>1, <1>2, <1>4, <1>5, <3>1
    <3>2. CASE q # r
      <4>1. (\E i \in 1..(m + 1) : queue'[i] = q) <=> (\E i \in 1..m : queue[i] = q)
        <5>1. \A i \in 1..m : i \in 1..(m + 1) /\ queue'[i] = queue[i]
          BY <1>2, <1>4, LastIndex, Zenon
        <5>2. \A i \in 1..(m + 1) : i \in 1..m \/ queue'[i] = r
          BY <1>2, <1>4, LastIndex, Zenon
        <5> QED  BY <3>2, <5>1, <5>2, Zenon
      <4>2. heapIdx'[q] \in 0..n <=> heapIdx[q] \in 0..(n - 1)
        <5>1. heapIdx[q] # n
          <6>1. n # -1 /\ n \notin 0..(n - 1)
            BY <1>1
          <6> QED  BY <6>1, Zenon DEF HeapInv, PlacesKnown, n
        <5> QED  BY <1>1, <1>2, <1>5, <3>2, <5>1
      <4> QED  BY <2>1, <4>1, <4>2, Zenon
    <3> QED  BY <3>1, <3>2, Zenon
  <2>4. ASSUME NEW i \in 1..(m + 1), NEW j \in 1..(m + 1), i < j
        PROVE  items'[queue'[i]].seq < items'[queue'[j]].seq
    <3>1. i \in 1..m /\ queue'[i] = queue[i] /\ items'[queue'[i]] = items[queue[i]]
      <4>1. i \in 1..m
        BY <1>2, <2>4, LastIndex
      <4> QED  BY <1>4, <1>5, <2>1, <2>2, <4>1, Zenon
    <3>2. CASE j \in 1..m
      <4>1. items'[queue'[j]] = items[queue[j]]
        BY <1>4, <1>5, <2>1, <2>2, <3>2, Zenon
      <4> QED  BY <2>1, <2>4, <3>1, <3>2, <4>1, Zenon
    <3>3. CASE j = m + 1
      <4>1. items'[queue'[j]].seq = seq + 1
        BY <1>4, <1>5, <3>3, Zenon
      <4>2. items[queue[i]].seq <= seq /\ items[queue[i]].seq \in Int
        <5>1. \A q \in Repos : items[q].seq \in Int
          BY <1>2, IndexHeapAssumption DEF Item
        <5> QED  BY <2>1, <3>1, <5>1, Zenon
      <4>3. items'[queue'[i]].seq = items[queue[i]].seq
        BY <3>1, Zenon
      <4>4. seq \in Int
        BY <1>2
      <4>5. items[queue[i]].seq < seq + 1
        BY <4>2, <4>4
      <4> QED  BY <4>1, <4>3, <4>5, Zenon
    <3>4. j \in 1..m \/ j = m + 1
      BY <1>2
    <3> QED  BY <3>2, <3>3, <3>4, Zenon
  <2>5. \A q \in Repos : items'[q].seq <= seq'
    <3>1. \A q \in Repos : items[q].seq \in Int
      BY <1>2, IndexHeapAssumption DEF Item
    <3> QED  BY <1>2, <1>5, <2>1, <3>1
  <2>6. (n + 1) - 1 = n
    BY <1>1
  <2> QED  BY <1>4, <1>6, <2>3, <2>4, <2>5, <2>6, Zenon DEF QueueByTime
<1>12. HeapOrdered'
  <2>1. \A k \in 0..(n - 1) : items'[At(k)'] = items[At(k)]
    BY <1>1, <1>5, <1>7, Zenon
  <2>2. \A i, j \in 0..n : Child(i, j) /\ j # n => InOrder(i, j)'
    <3> SUFFICES ASSUME NEW i \in 0..n, NEW j \in 0..n, Child(i, j), j # n
                 PROVE  InOrder(i, j)'
      BY Zenon
    <3>1. i \in 0..(n - 1) /\ j \in 0..(n - 1)
      BY <1>1 DEF Child
    <3> QED  BY <1>1, <2>1, <3>1, Zenon DEF InOrder, Less
  <2>3. \A j \in 0..n : ~Child(n, j)
    BY <1>1 DEF Child
  <2> QED  BY <1>1, <1>6, <2>2, <2>3 DEF HeapOrdered, Unsettled
<1> QED  BY <1>8, <1>9, <1>10, <1>11, <1>12, Zenon DEF HeapInv

(* An element that is removed leaves the others in their order. *)
LEMMA RemoveAt ==
  ASSUME NEW S, NEW ws \in Seq(S), NEW i \in 1..Len(ws), NEW rest, rest = Remove(ws, i)
  PROVE  /\ rest \in Seq(S)
         /\ Len(rest) = Len(ws) - 1
         /\ \A j \in 1..(Len(ws) - 1) : rest[j] = IF j < i THEN ws[j] ELSE ws[j + 1]
<1> DEFINE a == SubSeq(ws, 1, i - 1)
           b == SubSeq(ws, i + 1, Len(ws))
<1>0. Len(ws) \in Nat /\ i \in 1..Len(ws)
  OBVIOUS
<1>1. /\ a \in Seq(S) /\ Len(a) = i - 1
      /\ \A j \in 1..(i - 1) : a[j] = ws[j]
  BY <1>0, SubSeqProperties
<1>2. /\ b \in Seq(S) /\ Len(b) = Len(ws) - i
      /\ \A j \in 1..(Len(ws) - i) : b[j] = ws[i + j]
  BY <1>0, SubSeqProperties
<1> HIDE DEF a, b
<1>3. rest = a \o b
  BY Zenon DEF a, b, Remove
<1>4. /\ rest \in Seq(S)
      /\ Len(rest) = Len(a) + Len(b)
      /\ \A j \in 1..(Len(a) + Len(b)) :
           rest[j] = IF j <= Len(a) THEN a[j] ELSE b[j - Len(a)]
  <2>1. /\ a \o b \in Seq(S)
        /\ Len(a \o b) = Len(a) + Len(b)
        /\ \A j \in 1..(Len(a) + Len(b)) :
             (a \o b)[j] = IF j <= Len(a) THEN a[j] ELSE b[j - Len(a)]
    BY <1>1, <1>2, ConcatProperties, Zenon
  <2> QED  BY <1>3, <2>1, Zenon
<1>5. Len(a) + Len(b) = Len(ws) - 1
  BY <1>0, <1>1, <1>2
<1>6. ASSUME NEW j \in 1..(Len(ws) - 1)
      PROVE  rest[j] = IF j < i THEN ws[j] ELSE ws[j + 1]
  <2>1. CASE j < i
    <3>1. j \in 1..(i - 1) /\ j <= Len(a)
      BY <1>0, <1>1, <1>6, <2>1
    <3> QED  BY <1>1, <1>4, <1>5, <2>1, <3>1, Zenon
  <2>2. CASE ~(j < i)
    <3>1. j - Len(a) \in 1..(Len(ws) - i) /\ ~(j <= Len(a))
      BY <1>0, <1>1, <1>6, <2>2
    <3>2. i + (j - Len(a)) = j + 1
      BY <1>0, <1>1, <1>6
    <3> QED  BY <1>2, <1>4, <1>5, <2>2, <3>1, <3>2, Zenon
  <2> QED  BY <2>1, <2>2, Zenon
<1> QED  BY <1>4, <1>5, <1>6, Zenon

(* Pop begins: the root goes to the end of the heap and off the queue. *)
LEMMA PopInv ==
  ASSUME HeapInv, Pop
  PROVE  HeapInv'
<1> DEFINE n == Len(pq)
           m == Len(queue)
<1>1. /\ loop = "none" /\ pq # <<>> /\ Swap(0, n - 1) /\ UNCHANGED <<items, seq>>
      /\ loop' = "pop" /\ at' = 0 /\ from' = 0
  BY Zenon DEF Pop, Enter
<1>2. /\ HeapLen = n /\ n \in Nat
      /\ \A k \in 0..(n - 1) : At(k) \in Repos /\ items[At(k)] \in Item /\ heapIdx[At(k)] = k
      /\ \A i, j \in 0..(n - 1) : Child(i, j) => InOrder(i, j)
  BY <1>1, SettledHeap, Zenon
<1>3. n # 0
  BY <1>1, EmptySeq, Zenon DEF HeapInv, TypeOK
<1>4. 0 \in 0..(n - 1) /\ n - 1 \in 0..(n - 1)
  BY <1>2, <1>3
<1>5. /\ pq' \in Seq(Repos) /\ Len(pq') = n
      /\ heapIdx' \in [Repos -> Int]
      /\ PlacesKnown'
      /\ \A k \in 0..(n - 1) :
           At(k)' = IF k = 0 THEN At(n - 1) ELSE IF k = n - 1 THEN At(0) ELSE At(k)
      /\ \A r \in Repos :
           heapIdx'[r] = IF heapIdx[r] = 0 THEN n - 1 ELSE IF heapIdx[r] = n - 1 THEN 0 ELSE heapIdx[r]
  BY <1>1, <1>4, SwapPlaces, Zenon DEF HeapInv
<1>6. HeapLen' = n - 1
  BY <1>1, <1>5, Zenon DEF HeapLen
<1>7. PICK i0 \in 1..m : queue[i0] = At(0) /\ queue' = Remove(queue, i0)
  BY Zenon DEF Pop
<1>8. queue \in Seq(Repos) /\ m \in Nat /\ heapIdx \in [Repos -> Int] /\ items \in [Repos -> Item]
  BY DEF HeapInv, TypeOK
<1>9. /\ queue' \in Seq(Repos) /\ Len(queue') = m - 1
      /\ \A j \in 1..(m - 1) : queue'[j] = IF j < i0 THEN queue[j] ELSE queue[j + 1]
  <2>1. i0 \in 1..Len(queue) /\ queue' = Remove(queue, i0) /\ queue \in Seq(Repos)
    BY <1>7, <1>8, Zenon
  <2>2. /\ queue' \in Seq(Repos) /\ Len(queue') = Len(queue) - 1
        /\ \A j \in 1..(Len(queue) - 1) : queue'[j] = IF j < i0 THEN queue[j] ELSE queue[j + 1]
    BY <2>1, RemoveAt
  <2> QED  BY <2>2, Zenon
<1> HIDE DEF n, m
<1>10. TypeOK'
  BY <1>1, <1>5, <1>9, Zenon DEF HeapInv, TypeOK
<1>11. LoopInHeap'
  <2>1. pq' # <<>>
    BY <1>3, <1>5, EmptySeq, Zenon
  <2>2. at' < HeapLen' \/ HeapLen' = 0
    BY <1>1, <1>2, <1>3, <1>6
  <2> QED  BY <1>1, <2>1, <2>2 DEF LoopInHeap
<1>12. QueueByTime'
  <2>1. /\ \A r \in Repos : (\E i \in 1..m : queue[i] = r) <=> heapIdx[r] \in 0..(n - 1)
        /\ \A i, j \in 1..m : i < j => items[queue[i]].seq < items[queue[j]].seq
        /\ \A r \in Repos : items[r].seq <= seq
    BY <1>2, Zenon DEF HeapInv, QueueByTime, m
  <2>2. \A i \in 1..m : queue[i] \in Repos /\ items[queue[i]].seq \in Int
    BY <1>8, IndexHeapAssumption DEF Item, m
  <2>3. \A i \in 1..m : i # i0 => queue[i] # At(0)
    BY <1>7, <1>8, <2>1, <2>2
  <2>4. ASSUME NEW r \in Repos
        PROVE  (\E i \in 1..(m - 1) : queue'[i] = r) <=> ((\E i \in 1..m : queue[i] = r) /\ r # At(0))
    <3>1. ASSUME NEW i \in 1..(m - 1)
          PROVE  \E k \in 1..m : queue'[i] = queue[k] /\ k # i0
      <4>1. /\ i \in 1..m /\ i + 1 \in 1..m
            /\ i < i0 => i # i0
            /\ ~(i < i0) => i + 1 # i0
        BY <1>7, <1>8
      <4>2. queue'[i] = IF i < i0 THEN queue[i] ELSE queue[i + 1]
        BY <1>9, Zenon
      <4> QED  BY <4>1, <4>2, Zenon
    <3>2. ASSUME NEW k \in 1..m, k # i0
          PROVE  \E i \in 1..(m - 1) : queue'[i] = queue[k]
      <4>1. CASE k < i0
        BY <1>7, <1>8, <1>9, <4>1
      <4>2. CASE k > i0
        <5>1. k - 1 \in 1..(m - 1) /\ ~(k - 1 < i0) /\ (k - 1) + 1 = k
          BY <1>7, <1>8, <4>2
        <5> QED  BY <1>9, <5>1, Zenon
      <4> QED  BY <1>7, <1>8, <3>2, <4>1, <4>2
    <3> QED  BY <1>7, <2>3, <3>1, <3>2
  <2>5. ASSUME NEW r \in Repos
        PROVE  heapIdx'[r] \in 0..(n - 2) <=> heapIdx[r] \in 0..(n - 1) /\ r # At(0)
    <3>1. heapIdx[r] = 0 <=> r = At(0)
      BY <1>2, <1>4 DEF HeapInv, PlacesKnown
    <3>2. heapIdx[r] \in Int
      BY <1>8, Zenon
    <3>3. heapIdx'[r] = IF heapIdx[r] = 0 THEN n - 1 ELSE IF heapIdx[r] = n - 1 THEN 0 ELSE heapIdx[r]
      BY <1>5, Zenon
    <3>4. heapIdx'[r] \in 0..(n - 2) <=> heapIdx[r] \in 0..(n - 1) /\ heapIdx[r] # 0
      BY <1>2, <1>3, <3>2, <3>3
    <3> QED  BY <3>1, <3>4, Zenon
  <2>6. ASSUME NEW i \in 1..(m - 1), NEW j \in 1..(m - 1), i < j
        PROVE  items'[queue'[i]].seq < items'[queue'[j]].seq
    <3>1. /\ i \in 1..m /\ j \in 1..m /\ i + 1 \in 1..m /\ j + 1 \in 1..m
          /\ i + 1 < j + 1 /\ i < j + 1
      BY <1>8, <2>6
    <3>2. CASE j < i0
      <4>1. i < i0
        BY <1>7, <1>8, <2>6, <3>2
      <4> QED  BY <1>1, <1>9, <2>1, <2>6, <3>1, <3>2, <4>1, Zenon
    <3>3. CASE i < i0 /\ ~(j < i0)
      BY <1>1, <1>9, <2>1, <2>6, <3>1, <3>3, Zenon
    <3>4. CASE ~(i < i0) /\ ~(j < i0)
      BY <1>1, <1>9, <2>1, <2>6, <3>1, <3>4, Zenon
    <3> QED  BY <1>7, <1>8, <2>6, <3>2, <3>3, <3>4, Zenon
  <2>7. \A r \in Repos : items'[r].seq <= seq'
    BY <1>1, <2>1, Zenon
  <2>8. HeapLen' - 1 = n - 2
    BY <1>2, <1>6
  <2> QED  BY <1>9, <2>1, <2>4, <2>5, <2>6, <2>7, <2>8, Zenon DEF QueueByTime
<1>13. HeapOrdered'
  <2>1. ASSUME NEW i \in 0..(n - 2), NEW j \in 0..(n - 2), Child(i, j), i # 0
        PROVE  InOrder(i, j)'
    <3>1. i \in 0..(n - 1) /\ j \in 0..(n - 1) /\ j # 0 /\ i # n - 1 /\ j # n - 1
      BY <1>2, <2>1 DEF Child
    <3>2. At(i)' = At(i) /\ At(j)' = At(j)
      BY <1>5, <2>1, <3>1, Zenon
    <3> QED  BY <1>1, <1>2, <2>1, <3>1, <3>2, Zenon DEF InOrder, Less
  <2>2. \A i \in 0..(n - 2) : ~Child(i, 0)
    BY <1>2 DEF Child
  <2>3. HeapLen' - 1 = n - 2
    BY <1>2, <1>6
  <2> QED  BY <1>1, <2>1, <2>2, <2>3, Zenon DEF HeapOrdered, Unsettled
<1> QED  BY <1>5, <1>10, <1>11, <1>12, <1>13, Zenon DEF HeapInv

(* SetIndexed of a repository that is not queued touches only its item. *)
LEMMA AsideInv ==
  ASSUME HeapInv, loop = "none", NEW r \in Repos, NEW x \in Item, x.seq = items[r].seq,
         heapIdx[r] < 0,
         items' = [items EXCEPT ![r] = x],
         UNCHANGED <<heapIdx, pq, seq, loop, at, from, queue>>
  PROVE  HeapInv'
<1> DEFINE n == Len(pq)
<1>1. /\ HeapLen = n /\ n \in Nat
      /\ \A k \in 0..(n - 1) : At(k) \in Repos /\ items[At(k)] \in Item /\ heapIdx[At(k)] = k
      /\ \A i, j \in 0..(n - 1) : Child(i, j) => InOrder(i, j)
  BY SettledHeap, Zenon
<1>2. items \in [Repos -> Item] /\ \A q \in Repos : items'[q] = IF q = r THEN x ELSE items[q]
  BY Zenon DEF HeapInv, TypeOK
<1>3. HeapLen' = n
  BY <1>1, Zenon DEF HeapLen
<1> HIDE DEF n
<1>4. TypeOK'
  <2>1. items' \in [Repos -> Item]
    BY <1>2, Zenon
  <2> QED  BY <2>1, Zenon DEF HeapInv, TypeOK
<1>5. PlacesKnown' /\ LoopInHeap'
  BY Zenon DEF HeapInv, PlacesKnown, At, LoopInHeap
<1>6. QueueByTime'
  <2>1. \A q \in Repos : items'[q].seq = items[q].seq
    BY <1>2, Zenon
  <2>2. \A i \in 1..Len(queue) : queue[i] \in Repos
    BY DEF HeapInv, TypeOK
  <2> QED  BY <1>1, <1>3, <2>1, <2>2 DEF HeapInv, QueueByTime
<1>7. \A k \in 0..(n - 1) : items'[At(k)'] = items[At(k)]
  <2>1. \A k \in 0..(n - 1) : At(k) # r /\ At(k)' = At(k)
    BY <1>1 DEF At
  <2> QED  BY <1>1, <1>2, <2>1, Zenon
<1>8. HeapOrdered'
  BY <1>1, <1>3, <1>7, Zenon DEF HeapOrdered, InOrder, Less
<1> QED  BY <1>4, <1>5, <1>6, <1>8, Zenon DEF HeapInv

-----------------------------------------------------------------------------

LEMMA HeapInitInv == Init => HeapInv
<1> SUFFICES ASSUME Init PROVE HeapInv
  BY Zenon
<1>1. Len(pq) = 0 /\ Len(queue) = 0 /\ HeapLen = 0 /\ loop = "none"
  BY Zenon DEF Init, HeapLen
<1>2. \A r \in Repos : items[r] \in Item /\ items[r].seq = 0 /\ heapIdx[r] = -1
  <2>1. 0 \in Commits /\ 0 \in 0..MaxSeq
    BY IndexHeapAssumption DEF Commits
  <2> QED  BY <2>1, Zenon DEF Init, Item
<1>3. TypeOK
  <2>1. items \in [Repos -> Item] /\ heapIdx \in [Repos -> Int]
    BY <1>2 DEF Init
  <2>2. seq \in 0..MaxSeq
    BY IndexHeapAssumption DEF Init
  <2> QED  BY <2>1, <2>2 DEF Init, TypeOK
<1>4. PlacesKnown
  BY <1>1, <1>2 DEF PlacesKnown
<1>5. LoopInHeap
  BY <1>1, Zenon DEF LoopInHeap
<1>6. HeapOrdered
  BY <1>1 DEF HeapOrdered
<1>7. QueueByTime
  BY <1>1, <1>2 DEF Init, QueueByTime
<1> QED  BY <1>3, <1>4, <1>5, <1>6, <1>7, Zenon DEF HeapInv

(* One case per method and per step of a loop. *)
LEMMA HeapStepInv == HeapInv /\ [Next]_vars => HeapInv'
<1> SUFFICES ASSUME HeapInv, [Next]_vars PROVE HeapInv'
  BY Zenon
<1>0. items \in [Repos -> Item]
  BY Zenon DEF HeapInv, TypeOK
<1>1. ASSUME NEW r \in Repos, NEW c \in Commits, AddOrUpdate(r, c)
      PROVE  HeapInv'
  <2>1. loop = "none"
    BY <1>1, Zenon DEF AddOrUpdate
  <2>2. CASE heapIdx[r] < 0
    <3> DEFINE x == [items[r] EXCEPT !.latestCommit = c, !.seq = seq + 1]
    <3>0. ~(heapIdx[r] >= 0)
      BY <2>2 DEF HeapInv, TypeOK
    <3>1. /\ seq < MaxSeq /\ seq' = seq + 1
          /\ items' = [items EXCEPT ![r].latestCommit = c, ![r].seq = seq + 1]
          /\ heapIdx' = [heapIdx EXCEPT ![r] = Len(pq)]
          /\ pq' = Append(pq, r) /\ queue' = Append(queue, r) /\ Enter("up", Len(pq))
      BY <1>1, <3>0, Zenon DEF AddOrUpdate
    <3>2. seq + 1 \in 0..MaxSeq
      BY <3>1, IndexHeapAssumption DEF HeapInv, TypeOK
    <3>3. x \in Item /\ x.seq = seq + 1
      BY <1>0, <3>2, Zenon DEF Item
    <3>4. items' = [items EXCEPT ![r] = x]
      BY <1>0, <3>1, Zenon DEF Item
    <3> HIDE DEF x
    <3> QED  BY <2>1, <2>2, <3>1, <3>3, <3>4, PushInv, Zenon
  <2>3. CASE heapIdx[r] >= 0
    <3> DEFINE x == [items[r] EXCEPT !.latestCommit = c]
    <3>0. ~(heapIdx[r] < 0)
      BY <2>3 DEF HeapInv, TypeOK
    <3>1. /\ items' = [items EXCEPT ![r].latestCommit = c]
          /\ Enter("down", heapIdx[r])
          /\ UNCHANGED <<heapIdx, pq, seq, queue>>
      BY <1>1, <3>0, Zenon DEF AddOrUpdate, heapVars
    <3>2. x \in Item /\ x.seq = items[r].seq /\ items' = [items EXCEPT ![r] = x]
      BY <1>0, <3>1, Zenon DEF Item
    <3> HIDE DEF x
    <3> QED  BY <2>1, <2>3, <3>1, <3>2, UpdateInv, Zenon
  <2> QED  BY <2>2, <2>3 DEF HeapInv, TypeOK
<1>2. ASSUME NEW r \in Repos, NEW c \in Commits, SetIndexed(r, c)
      PROVE  HeapInv'
  <2> DEFINE x == [items[r] EXCEPT !.indexedCommit = c]
  <2>1. /\ loop = "none"
        /\ items' = [items EXCEPT ![r].indexedCommit = c]
        /\ UNCHANGED <<heapIdx, pq, seq, queue>>
    BY <1>2, Zenon DEF SetIndexed, heapVars
  <2>2. x \in Item /\ x.seq = items[r].seq /\ items' = [items EXCEPT ![r] = x]
    BY <1>0, <2>1, Zenon DEF Item
  <2> HIDE DEF x
  <2>3. CASE heapIdx[r] >= 0
    <3>1. Enter("down", heapIdx[r])
      BY <1>2, <2>3, Zenon DEF SetIndexed
    <3> QED  BY <2>1, <2>2, <2>3, <3>1, UpdateInv, Zenon
  <2>4. CASE heapIdx[r] < 0
    <3>1. UNCHANGED <<loop, at, from>>
      BY <1>2, <2>4 DEF SetIndexed, loopVars, HeapInv, TypeOK
    <3> QED  BY <2>1, <2>2, <2>4, <3>1, AsideInv, Zenon
  <2> QED  BY <2>3, <2>4 DEF HeapInv, TypeOK
<1>3. CASE Pop
  BY <1>3, PopInv, Zenon
<1>4. CASE LoopSteps
  BY <1>4, UpSwapsInv, UpEndsInv, DownSwapsInv, DownEndsInv, PopEndsInv, Zenon DEF LoopSteps
<1>5. CASE UNCHANGED vars
  <2>1. /\ UNCHANGED <<items, heapIdx, pq, seq, loop, at, from, queue>>
        /\ HeapLen' = HeapLen
    BY <1>5, Zenon DEF vars, heapVars, loopVars, HeapLen
  <2>2. TypeOK' /\ PlacesKnown' /\ LoopInHeap'
    BY <2>1, Zenon DEF HeapInv, TypeOK, PlacesKnown, LoopInHeap, At
  <2>3. HeapOrdered'
    BY <2>1, Zenon DEF HeapInv, HeapOrdered, Unsettled, InOrder, Less, At
  <2>4. QueueByTime'
    BY <2>1, Zenon DEF HeapInv, QueueByTime
  <2> QED  BY <2>2, <2>3, <2>4, Zenon DEF HeapInv
<1> QED  BY <1>1, <1>2, <1>3, <1>4, <1>5, Zenon DEF Next

(* Whatever is added, updated and popped, and however the loops swap: every  *)
(* item knows its place in the heap, and one that is not there knows that.  *)
THEOREM HeapKnowsPlaces == Spec => []PlacesKnown
<1>1. HeapInv => PlacesKnown
  BY Zenon DEF HeapInv
<1> QED  BY <1>1, HeapInitInv, HeapStepInv, PTL DEF Spec

-----------------------------------------------------------------------------
(* The refinement: the methods are the queue's, the steps of a loop none *)

(* heapIdx decides whether a repository is queued. *)
LEMMA HeapIsQueued ==
  ASSUME HeapInv, loop = "none", NEW r \in Repos
  PROVE  r \in Abstract!Queued <=> heapIdx[r] >= 0
<1>1. HeapLen = Len(pq)
  BY Zenon DEF HeapLen
<1>2. heapIdx[r] \in Int /\ (heapIdx[r] >= 0 <=> heapIdx[r] \in 0..(Len(pq) - 1))
  <2>1. heapIdx[r] # -1 => heapIdx[r] \in 0..(Len(pq) - 1)
    BY Zenon DEF HeapInv, PlacesKnown
  <2>2. heapIdx[r] \in Int
    BY Zenon DEF HeapInv, TypeOK
  <2> QED  BY <2>1, <2>2
<1>3. r \in Abstract!Queued <=> \E i \in 1..Len(queue) : queue[i] = r
  BY Zenon DEF Abstract!Queued
<1> QED  BY <1>1, <1>2, <1>3, Zenon DEF HeapInv, QueueByTime

LEMMA AddOrUpdateRefines ==
  ASSUME HeapInv, NEW r \in Repos, NEW c \in Commits, AddOrUpdate(r, c)
  PROVE  Abstract!AddOrUpdate(r, c)
<1>1. /\ items' = [items EXCEPT ![r].latestCommit = c]
         \/ items' = [items EXCEPT ![r].latestCommit = c, ![r].seq = seq + 1]
      /\ loop = "none"
  BY Zenon DEF AddOrUpdate
<1>2. \A q \in Repos : /\ items'[q].indexedCommit = items[q].indexedCommit
                      /\ items'[q].latestCommit = IF q = r THEN c ELSE items[q].latestCommit
  <2>1. items \in [Repos -> Item]
    BY Zenon DEF HeapInv, TypeOK
  <2> QED  BY <1>1, <2>1 DEF Item
<1>3. queue' = IF r \in Abstract!Queued THEN queue ELSE Append(queue, r)
  <2>1. heapIdx[r] \in Int
    BY Zenon DEF HeapInv, TypeOK
  <2> QED  BY <1>1, <2>1, HeapIsQueued DEF AddOrUpdate
<1> QED  BY <1>2, <1>3, Zenon DEF Abstract!AddOrUpdate

LEMMA SetIndexedRefines ==
  ASSUME HeapInv, NEW r \in Repos, NEW c \in Commits, SetIndexed(r, c)
  PROVE  Abstract!SetIndexed(r, c)
<1>1. items' = [items EXCEPT ![r].indexedCommit = c] /\ queue' = queue
  BY Zenon DEF SetIndexed
<1>2. \A q \in Repos : /\ items'[q].latestCommit = items[q].latestCommit
                      /\ items'[q].indexedCommit = IF q = r THEN c ELSE items[q].indexedCommit
  <2>1. items \in [Repos -> Item]
    BY Zenon DEF HeapInv, TypeOK
  <2> QED  BY <1>1, <2>1, Zenon DEF Item
<1> QED  BY <1>1, <1>2, Zenon DEF Abstract!SetIndexed

(* No queued repository comes before the one at the root. *)
LEMMA RootIsNext ==
  ASSUME HeapInv, loop = "none", NEW i \in 1..Len(queue), queue[i] = At(0)
  PROVE  Abstract!IsNext(i)
<1> SUFFICES ASSUME NEW j \in 1..Len(queue) \ {i}
             PROVE  IF Abstract!Stale(queue[i]) = Abstract!Stale(queue[j])
                    THEN i < j ELSE Abstract!Stale(queue[i])
  BY Zenon DEF Abstract!IsNext
<1> DEFINE a == queue[i]
           b == queue[j]
<1>1. a \in Repos /\ b \in Repos /\ items[a] \in Item /\ items[b] \in Item
  BY DEF HeapInv, TypeOK
<1>2. heapIdx[b] \in 0..(Len(pq) - 1)
  <2>1. HeapLen = Len(pq)
    BY Zenon DEF HeapLen
  <2> QED  BY <1>1, <2>1, Zenon DEF HeapInv, QueueByTime
<1>3. At(heapIdx[b]) = b
  <2>1. heapIdx[b] # -1
    BY <1>2
  <2> QED  BY <1>1, <2>1, Zenon DEF HeapInv, PlacesKnown
<1>4. ~Before(items[b], items[a])
  <2>1. InOrder(0, heapIdx[b])
    BY <1>2, RootFirst, Zenon DEF HeapInv
  <2> QED  BY <1>3, <2>1, Zenon DEF InOrder, Less
<1>5. j < i => items[b].seq < items[a].seq
  BY Zenon DEF HeapInv, QueueByTime
<1>6. i < j \/ j < i
  OBVIOUS
<1> HIDE DEF a, b
<1>7. IF (items[a].indexedCommit # items[a].latestCommit) = (items[b].indexedCommit # items[b].latestCommit)
      THEN i < j ELSE items[a].indexedCommit # items[a].latestCommit
  BY <1>4, <1>5, <1>6, Zenon DEF Before
<1>8. IF Abstract!Stale(a) = Abstract!Stale(b) THEN i < j ELSE Abstract!Stale(a)
  BY <1>1, <1>7, Zenon DEF Abstract!Stale
<1> QED  BY <1>8, Zenon DEF a, b

LEMMA PopRefines ==
  ASSUME HeapInv, Pop
  PROVE  \E r \in Repos : Abstract!Pop(r)
<1>1. PICK i \in 1..Len(queue) : queue[i] = At(0) /\ queue' = Remove(queue, i)
  BY Zenon DEF Pop
<1>2. Abstract!IsNext(i) /\ queue[i] \in Repos
  BY <1>1, RootIsNext DEF Pop, HeapInv, TypeOK
<1>3. items' = items
  BY Zenon DEF Pop
<1> QED  BY <1>1, <1>2, <1>3, Zenon DEF Abstract!Pop, Remove

(* The heap implements the queue: what Pop takes is a stale repository if    *)
(* one is queued, and the one added first of those it could take, after any *)
(* updates of queued items and any swaps of container/heap.                 *)
THEOREM HeapImplementsQueue == Spec => ImplementsQueue
<1>1. Init => Abstract!QueueInit
  BY DEF Init, Abstract!QueueInit
<1>2. HeapInv /\ [Next]_vars => [Abstract!QueueNext]_(Abstract!queueVars)
  <2> SUFFICES ASSUME HeapInv, [Next]_vars
               PROVE  Abstract!QueueNext \/ UNCHANGED Abstract!queueVars
    BY Zenon
  <2>1. ASSUME NEW r \in Repos, NEW c \in Commits, AddOrUpdate(r, c) \/ SetIndexed(r, c)
        PROVE  Abstract!QueueNext
    <3>1. Abstract!AddOrUpdate(r, c) \/ Abstract!SetIndexed(r, c)
      BY <2>1, AddOrUpdateRefines, SetIndexedRefines, Zenon
    <3>2. c \in Abstract!Commits
      BY Zenon DEF Commits, Abstract!Commits
    <3> QED  BY <3>1, <3>2, Zenon DEF Abstract!QueueNext
  <2>2. CASE Pop
    BY <2>2, PopRefines, Zenon DEF Abstract!QueueNext
  <2>3. CASE LoopSteps \/ UNCHANGED vars
    <3>1. items' = items /\ queue' = queue
      BY <2>3, Zenon DEF LoopSteps, UpSwaps, UpEnds, DownSwaps, DownEnds, PopEnds, vars
    <3> QED  BY <3>1, Zenon DEF Abstract!queueVars
  <2> QED  BY <2>1, <2>2, <2>3, Zenon DEF Next
<1> QED  BY <1>1, <1>2, HeapInitInv, HeapStepInv, PTL DEF Spec, ImplementsQueue, Abstract!QueueSpec
=============================================================================
