--------------------------- MODULE ShardLock_proofs ---------------------------
(***************************************************************************)
(* The semaphore is a read-write lock that loses no wakeup, for any number *)
(* of calls and tokens.                                                    *)
(***************************************************************************)
EXTENDS ShardLock, FiniteSetTheorems, SequenceTheorems, TLAPS

(* A queued call is queued once and holds nothing. *)
QueueDistinct ==
  /\ \A i, j \in 1..Len(waiters) : waiters[i] = waiters[j] => i = j
  /\ Waiting \cap holders = {}

LockInv ==
  /\ LockTypeOK
  /\ QueueDistinct
  /\ TokensAccounted
  /\ NoLostWakeup

-----------------------------------------------------------------------------

(* The waiters after list.Remove of the i-th. *)
Without(ws, i) == SubSeq(ws, 1, i - 1) \o SubSeq(ws, i + 1, Len(ws))

(* It closes the gap behind that waiter. *)
LEMMA RemoveAt ==
  ASSUME NEW S, NEW ws \in Seq(S), NEW i \in 1..Len(ws)
  PROVE  /\ Without(ws, i) \in Seq(S)
         /\ Len(Without(ws, i)) = Len(ws) - 1
         /\ \A j \in 1..(Len(ws) - 1) : Without(ws, i)[j] = IF j < i THEN ws[j] ELSE ws[j + 1]
<1> DEFINE rest == Without(ws, i)
<1> DEFINE a == SubSeq(ws, 1, i - 1)
           b == SubSeq(ws, i + 1, Len(ws))
<1>0. Len(ws) \in Nat /\ i \in 1..Len(ws)
  OBVIOUS
<1>1. /\ a \in Seq(S) /\ Len(a) = i - 1
      /\ \A j \in 1..(i - 1) : a[j] = ws[j]
  BY <1>0, SubSeqProperties
<1>2. /\ b \in Seq(S) /\ Len(b) = Len(ws) - i
      /\ \A j \in 1..(Len(ws) - i) : b[j] = ws[i + j]
  BY <1>0, SubSeqProperties
<1> HIDE DEF a, b
<1>3. rest = a \o b
  BY Zenon DEF a, b, Without
<1> HIDE DEF rest
<1>4. /\ rest \in Seq(S)
      /\ Len(rest) = Len(a) + Len(b)
      /\ \A j \in 1..(Len(a) + Len(b)) :
           rest[j] = IF j <= Len(a) THEN a[j] ELSE b[j - Len(a)]
  <2>1. /\ a \o b \in Seq(S)
        /\ Len(a \o b) = Len(a) + Len(b)
        /\ \A j \in 1..(Len(a) + Len(b)) :
             (a \o b)[j] = IF j <= Len(a) THEN a[j] ELSE b[j - Len(a)]
    BY <1>1, <1>2, ConcatProperties
  <2> QED  BY <1>3, <2>1, Zenon
<1>5. Len(a) + Len(b) = Len(ws) - 1
  BY <1>0, <1>1, <1>2
<1>6. ASSUME NEW j \in 1..(Len(ws) - 1)
      PROVE  rest[j] = IF j < i THEN ws[j] ELSE ws[j + 1]
  <2>1. CASE j < i
    <3>1. j \in 1..(i - 1) /\ j <= Len(a)
      BY <1>0, <1>1, <1>6, <2>1
    <3> QED  BY <1>1, <1>4, <1>5, <2>1, <3>1
  <2>2. CASE ~(j < i)
    <3>1. j - Len(a) \in 1..(Len(ws) - i) /\ ~(j <= Len(a))
      <4>1. j - (i - 1) \in 1..(Len(ws) - i) /\ ~(j <= i - 1)
        BY <1>0, <1>6, <2>2
      <4> QED  BY <1>1, <4>1, Zenon
    <3>2. i + (j - Len(a)) = j + 1
      BY <1>0, <1>1, <1>6
    <3> QED  BY <1>2, <1>4, <1>5, <2>2, <3>1, <3>2
  <2> QED  BY <2>1, <2>2
<1>7. /\ rest \in Seq(S) /\ Len(rest) = Len(ws) - 1
      /\ \A j \in 1..(Len(ws) - 1) : rest[j] = IF j < i THEN ws[j] ELSE ws[j + 1]
  BY <1>4, <1>5, <1>6, Zenon
<1> QED  BY <1>7, Zenon DEF rest

(* The weight of a set of calls is a natural number and adds up over disjoint *)
(* sets: what Acquire adds to cur for one call, Release may take back for it.*)
LEMMA WeightAdds ==
  ASSUME NEW S \in SUBSET Callers, NEW T \in SUBSET Callers, S \cap T = {}
  PROVE  /\ WeightOf(S) \in Nat
         /\ WeightOf(S \cup T) = WeightOf(S) + WeightOf(T)
<1> DEFINE SR == S \cap Readers  SW == S \cap Writers
           TR == T \cap Readers  TW == T \cap Writers
<1>1. IsFiniteSet(SR) /\ IsFiniteSet(SW) /\ IsFiniteSet(TR) /\ IsFiniteSet(TW)
  BY FS_Subset, ShardLockAssumption
<1>2. /\ Cardinality(SR) \in Nat /\ Cardinality(SW) \in Nat
      /\ Cardinality(TR) \in Nat /\ Cardinality(TW) \in Nat
  BY <1>1, FS_CardinalityType
<1>3. Cardinality(SR \cup TR) = Cardinality(SR) + Cardinality(TR)
  <2>1. SR \cap TR = {}
    OBVIOUS
  <2>2. Cardinality(SR \cup TR) = Cardinality(SR) + Cardinality(TR) - Cardinality({})
    BY <1>1, <2>1, FS_Union
  <2> QED  BY <1>2, <2>2, FS_EmptySet
<1>4. Cardinality(SW \cup TW) = Cardinality(SW) + Cardinality(TW)
  <2>1. SW \cap TW = {}
    OBVIOUS
  <2>2. Cardinality(SW \cup TW) = Cardinality(SW) + Cardinality(TW) - Cardinality({})
    BY <1>1, <2>1, FS_Union
  <2> QED  BY <1>2, <2>2, FS_EmptySet
<1>5. (S \cup T) \cap Readers = SR \cup TR /\ (S \cup T) \cap Writers = SW \cup TW
  OBVIOUS
<1>6. Capacity * (Cardinality(SW) + Cardinality(TW))
        = Capacity * Cardinality(SW) + Capacity * Cardinality(TW)
  BY <1>2, ShardLockAssumption
<1>7. WeightOf(S \cup T)
        = Cardinality(SR) + Cardinality(TR) + Capacity * (Cardinality(SW) + Cardinality(TW))
  BY <1>3, <1>4, <1>5 DEF WeightOf
<1>8. /\ Capacity * Cardinality(SW) \in Nat
      /\ Capacity * Cardinality(TW) \in Nat
  BY <1>2, ShardLockAssumption
<1>9. /\ WeightOf(S) = Cardinality(SR) + Capacity * Cardinality(SW)
      /\ WeightOf(T) = Cardinality(TR) + Capacity * Cardinality(TW)
  BY DEF WeightOf
<1> HIDE DEF SR, SW, TR, TW
<1> QED  BY <1>2, <1>6, <1>7, <1>8, <1>9

(* rlock asks for one token and lock for all of them. *)
LEMMA WeightOfOne ==
  /\ \A p \in Readers : WeightOf({p}) = 1
  /\ \A p \in Writers : WeightOf({p}) = Capacity
  /\ WeightOf({}) = 0
<1>1. ASSUME NEW p \in Readers PROVE WeightOf({p}) = 1
  <2>1. {p} \cap Readers = {p} /\ {p} \cap Writers = {}
    BY ShardLockAssumption
  <2>2. Cardinality({p}) = 1 /\ Cardinality({}) = 0
    BY FS_Singleton, FS_EmptySet
  <2>3. WeightOf({p}) = 1 + Capacity * 0
    BY <2>1, <2>2 DEF WeightOf
  <2> QED  BY <2>3, ShardLockAssumption
<1>2. ASSUME NEW p \in Writers PROVE WeightOf({p}) = Capacity
  <2>1. {p} \cap Writers = {p} /\ {p} \cap Readers = {}
    BY ShardLockAssumption
  <2>2. Cardinality({p}) = 1 /\ Cardinality({}) = 0
    BY FS_Singleton, FS_EmptySet
  <2>3. WeightOf({p}) = 0 + Capacity * 1
    BY <2>1, <2>2 DEF WeightOf
  <2> QED  BY <2>3, ShardLockAssumption
<1>3. WeightOf({}) = 0
  <2>1. {} \cap Writers = {} /\ {} \cap Readers = {}
    OBVIOUS
  <2>2. WeightOf({}) = 0 + Capacity * 0
    BY <2>1, FS_EmptySet DEF WeightOf
  <2> QED  BY <2>2, ShardLockAssumption
<1> QED  BY <1>1, <1>2, <1>3

-----------------------------------------------------------------------------

(* Initially nobody holds or waits for the lock. *)
LEMMA LockInitInv == LockInit => LockInv
<1> SUFFICES ASSUME LockInit PROVE LockInv
  OBVIOUS
<1>1. cur = 0 /\ waiters = <<>> /\ holders = {}
  BY DEF LockInit
<1>2. LockTypeOK
  BY <1>1, ShardLockAssumption DEF LockTypeOK
<1>3. QueueDistinct
  BY <1>1 DEF QueueDistinct
<1>4. TokensAccounted
  BY <1>1, WeightOfOne, ShardLockAssumption DEF TokensAccounted
<1>5. NoLostWakeup
  BY <1>1 DEF NoLostWakeup
<1> QED  BY <1>2, <1>3, <1>4, <1>5 DEF LockInv

(* Acquire hands out free tokens, or queues a call that cannot have its own. *)
LEMMA AcquireInv ==
  ASSUME LockInv, NEW p \in Callers, Acquire(p)
  PROVE  LockInv'
<1> USE DEF LockInv
<1>1. WeightOf({p}) \in 1..Capacity
  BY WeightOfOne, ShardLockAssumption DEF Callers
<1>2. CASE /\ cur + WeightOf({p}) <= Capacity
           /\ waiters = <<>>
           /\ cur' = cur + WeightOf({p})
           /\ holders' = holders \cup {p}
           /\ waiters' = waiters
  <2>1. LockTypeOK'
    BY <1>1, <1>2, ShardLockAssumption DEF LockTypeOK
  <2>2. QueueDistinct'
    BY <1>2 DEF QueueDistinct, Waiting
  <2>3. WeightOf(holders \cup {p}) = WeightOf(holders) + WeightOf({p})
    <3>1. holders \cap {p} = {} /\ holders \in SUBSET Callers
      BY DEF Acquire, LockTypeOK
    <3> QED  BY <3>1, WeightAdds
  <2>4. TokensAccounted'
    BY <1>2, <2>3 DEF TokensAccounted, WeightOf
  <2>5. NoLostWakeup'
    BY <1>2 DEF NoLostWakeup
  <2> QED  BY <2>1, <2>2, <2>4, <2>5
<1>3. CASE /\ ~(cur + WeightOf({p}) <= Capacity /\ waiters = <<>>)
           /\ waiters' = Append(waiters, p)
           /\ cur' = cur /\ holders' = holders
  <2>1. LockTypeOK'
    BY <1>3 DEF LockTypeOK
  <2>2. /\ Len(waiters') = Len(waiters) + 1
        /\ \A i \in 1..Len(waiters) : waiters'[i] = waiters[i]
        /\ waiters'[Len(waiters) + 1] = p
        /\ Len(waiters) \in Nat
    BY <1>3 DEF LockTypeOK
  <2>3. p \notin holders /\ \A i \in 1..Len(waiters) : waiters[i] # p
    BY DEF Acquire, Waiting
  <2>4. QueueDistinct'
    BY <1>3, <2>2, <2>3 DEF QueueDistinct, Waiting
  <2>5. TokensAccounted'
    BY <1>3 DEF TokensAccounted, WeightOf
  <2>6. NoLostWakeup'
    <3>1. CASE waiters = <<>>
      <4>1. Head(waiters') = p
        BY <1>3, <3>1, <2>2
      <4>2. cur + WeightOf({p}) > Capacity
        BY <1>1, <1>3, <3>1, ShardLockAssumption DEF LockTypeOK
      <4> QED  BY <1>3, <4>1, <4>2 DEF NoLostWakeup, WeightOf
    <3>2. CASE waiters # <<>>
      <4>1. Head(waiters') = Head(waiters)
        BY <1>3, <3>2, <2>2 DEF LockTypeOK
      <4> QED  BY <1>3, <3>2, <4>1 DEF NoLostWakeup, WeightOf
    <3> QED  BY <3>1, <3>2
  <2> QED  BY <2>1, <2>4, <2>5, <2>6
<1> QED  BY <1>2, <1>3 DEF Acquire

(* A call that gives up leaves the queue.  Only rlock gives up, and when it is *)
(* at the front no token is free, so the call behind it misses nothing.      *)
LEMMA CancelInv ==
  ASSUME LockInv, NEW p \in Readers, CancelAcquire(p)
  PROVE  LockInv'
<1> USE DEF LockInv
<1>1. PICK i \in 1..Len(waiters) :
        /\ waiters[i] = p
        /\ waiters' = SubSeq(waiters, 1, i - 1) \o SubSeq(waiters, i + 1, Len(waiters))
        /\ cur' = cur /\ holders' = holders
  BY DEF CancelAcquire
<1>2. /\ waiters \in Seq(Callers)
      /\ Len(waiters) \in Nat
      /\ i \in 1..Len(waiters)
  BY DEF LockTypeOK
<1>3. /\ waiters' \in Seq(Callers)
      /\ Len(waiters') = Len(waiters) - 1
      /\ \A j \in 1..(Len(waiters) - 1) :
           waiters'[j] = IF j < i THEN waiters[j] ELSE waiters[j + 1]
  <2>1. waiters' = Without(waiters, i)
    BY <1>1, Zenon DEF Without
  <2> QED  BY <1>2, <2>1, RemoveAt, Zenon
<1>4. LockTypeOK'
  BY <1>1, <1>3 DEF LockTypeOK
<1>5. QueueDistinct'
  <2>1. Waiting' \subseteq Waiting
    <3> SUFFICES ASSUME NEW j \in 1..Len(waiters')
                 PROVE  \E k \in 1..Len(waiters) : waiters'[j] = waiters[k]
      BY DEF Waiting
    <3>1. j \in 1..(Len(waiters) - 1) /\ j \in 1..Len(waiters) /\ j + 1 \in 1..Len(waiters)
      BY <1>2, <1>3
    <3> QED  BY <1>3, <3>1
  <2>2. ASSUME NEW j \in 1..Len(waiters'), NEW k \in 1..Len(waiters'), waiters'[j] = waiters'[k]
        PROVE  j = k
    <3> DEFINE Old(l) == IF l < i THEN l ELSE l + 1
    <3>1. \A l \in 1..Len(waiters') : Old(l) \in 1..Len(waiters)
      BY <1>2, <1>3
    <3>2. \A l \in 1..Len(waiters') : waiters'[l] = waiters[Old(l)]
      BY <1>3, Zenon
    <3>3. Old(j) = Old(k) => j = k
      BY <1>2, <1>3
    <3> HIDE DEF Old
    <3> QED  BY <2>2, <3>1, <3>2, <3>3, Zenon DEF QueueDistinct
  <2> QED  BY <1>1, <2>1, <2>2 DEF QueueDistinct
<1>6. TokensAccounted'
  BY <1>1 DEF TokensAccounted, WeightOf
<1>7. NoLostWakeup'
  <2> SUFFICES ASSUME waiters' # <<>>
               PROVE  cur + WeightOf({Head(waiters')}) > Capacity
    BY <1>1 DEF NoLostWakeup, WeightOf
  <2>1. Len(waiters) >= 2 /\ waiters # <<>>
    BY <1>2, <1>3, EmptySeq
  <2>2. CASE i = 1
    <3>1. Head(waiters) = p
      BY <1>1, <2>2, <2>1
    <3>2. cur + 1 > Capacity
      BY <2>1, <3>1, WeightOfOne DEF NoLostWakeup
    <3>3. Head(waiters') \in Callers
      BY <1>3
    <3>4. WeightOf({Head(waiters')}) \in 1..Capacity
      BY <3>3, WeightOfOne, ShardLockAssumption DEF Callers
    <3> QED  BY <3>2, <3>4, ShardLockAssumption DEF LockTypeOK
  <2>3. CASE i # 1
    <3>1. Head(waiters') = waiters'[1] /\ Head(waiters) = waiters[1]
      BY <1>2, <1>3, <2>1
    <3>2. waiters'[1] = waiters[1]
      BY <1>2, <1>3, <2>1, <2>3
    <3> QED  BY <2>1, <3>1, <3>2 DEF NoLostWakeup
  <2> QED  BY <2>2, <2>3
<1> QED  BY <1>4, <1>5, <1>6, <1>7

(* Release gives back the tokens of one holder and hands them to the front of *)
(* the queue, as far as they go: the first call left behind does not fit.    *)
LEMMA ReleaseInv ==
  ASSUME LockInv, NEW p \in Callers, Release(p)
  PROVE  LockInv'
<1> USE DEF LockInv
<1> DEFINE left == cur - WeightOf({p})
           G(n) == Oldest(waiters, n)
<1>1. PICK k \in 0..Len(waiters) :
        /\ left + WeightOf(G(k)) <= Capacity
        /\ k < Len(waiters) => ~(left + WeightOf(G(k + 1)) <= Capacity)
        /\ cur' = left + WeightOf(G(k))
        /\ holders' = (holders \ {p}) \cup G(k)
        /\ waiters' = SubSeq(waiters, k + 1, Len(waiters))
  BY DEF Release
<1>2. /\ waiters \in Seq(Callers) /\ Len(waiters) \in Nat /\ k \in 0..Len(waiters)
      /\ holders \in SUBSET Callers /\ p \in holders
      /\ cur \in Int /\ Capacity \in Int
  BY ShardLockAssumption DEF LockTypeOK, Release
<1>3. \A n \in 0..Len(waiters) : G(n) \in SUBSET Callers
  BY <1>2 DEF Oldest
<1>4. /\ WeightOf({p}) \in 1..Capacity
      /\ WeightOf(holders \ {p}) \in Nat
      /\ left = WeightOf(holders \ {p})
  <2>1. WeightOf({p}) \in 1..Capacity
    BY WeightOfOne, ShardLockAssumption DEF Callers
  <2>2. /\ (holders \ {p}) \cap {p} = {} /\ holders \ {p} \in SUBSET Callers
        /\ {p} \in SUBSET Callers /\ (holders \ {p}) \cup {p} = holders
    BY <1>2
  <2>3. /\ WeightOf(holders \ {p}) \in Nat
        /\ WeightOf((holders \ {p}) \cup {p}) = WeightOf(holders \ {p}) + WeightOf({p})
    BY <2>2, WeightAdds
  <2>4. cur = WeightOf((holders \ {p}) \cup {p})
    BY <2>2 DEF TokensAccounted
  <2> QED  BY <2>1, <2>3, <2>4
<1>5. \A n \in 0..Len(waiters) : WeightOf(G(n)) \in Nat /\ G(n) \cap holders = {}
  <2> TAKE n \in 0..Len(waiters)
  <2>1. WeightOf(G(n)) \in Nat
    <3>1. G(n) \in SUBSET Callers /\ {} \in SUBSET Callers /\ G(n) \cap {} = {}
      BY <1>3
    <3> QED  BY <3>1, WeightAdds
  <2>2. G(n) \subseteq Waiting
    BY <1>2 DEF Oldest, Waiting
  <2> QED  BY <2>1, <2>2 DEF QueueDistinct
<1>6. /\ waiters' \in Seq(Callers)
      /\ Len(waiters') = Len(waiters) - k
      /\ \A j \in 1..(Len(waiters) - k) : waiters'[j] = waiters[k + j]
  BY <1>1, <1>2, SubSeqProperties
<1>7. LockTypeOK'
  <2>1. cur' \in 0..Capacity
    <3>1. WeightOf(G(k)) \in Nat /\ left \in Nat
      BY <1>4, <1>5, Zenon
    <3> HIDE DEF left, G
    <3> QED  BY <1>1, <1>2, <3>1
  <2>2. holders' \in SUBSET Callers
    BY <1>1, <1>2, <1>3
  <2> QED  BY <1>6, <2>1, <2>2 DEF LockTypeOK
<1>8. QueueDistinct'
  <2>1. \A i, j \in 1..Len(waiters') : waiters'[i] = waiters'[j] => i = j
    <3> SUFFICES ASSUME NEW i \in 1..Len(waiters'), NEW j \in 1..Len(waiters'),
                        waiters'[i] = waiters'[j]
                 PROVE  i = j
      OBVIOUS
    <3>1. k + i \in 1..Len(waiters) /\ k + j \in 1..Len(waiters)
      BY <1>2, <1>6
    <3>2. waiters[k + i] = waiters[k + j]
      BY <1>6
    <3>3. k + i = k + j
      BY <3>1, <3>2, Zenon DEF QueueDistinct
    <3> QED  BY <1>2, <1>6, <3>3
  <2>2. Waiting' \cap holders' = {}
    <3> SUFFICES ASSUME NEW j \in 1..Len(waiters')
                 PROVE  waiters'[j] \notin holders'
      BY DEF Waiting
    <3>1. k + j \in 1..Len(waiters) /\ waiters'[j] = waiters[k + j]
      BY <1>2, <1>6
    <3>2. waiters[k + j] \notin holders
      BY <3>1 DEF QueueDistinct, Waiting
    <3>3. waiters[k + j] \notin G(k)
      BY <1>2, <1>6, <3>1 DEF QueueDistinct, Oldest
    <3> QED  BY <1>1, <3>1, <3>2, <3>3
  <2> QED  BY <2>1, <2>2 DEF QueueDistinct
<1>9. TokensAccounted'
  <2>1. WeightOf((holders \ {p}) \cup G(k)) = WeightOf(holders \ {p}) + WeightOf(G(k))
    <3>1. holders \ {p} \in SUBSET Callers /\ G(k) \in SUBSET Callers
      BY <1>2, <1>3
    <3>2. (holders \ {p}) \cap G(k) = {}
      BY <1>2, <1>5
    <3> QED  BY <3>1, <3>2, WeightAdds
  <2>2. cur' = WeightOf((holders \ {p}) \cup G(k)) /\ cur' <= Capacity
    BY <1>1, <1>4, <2>1
  <2> QED  BY <1>1, <2>2 DEF TokensAccounted, WeightOf
<1>10. NoLostWakeup'
  <2> SUFFICES ASSUME waiters' # <<>>
               PROVE  cur' + WeightOf({Head(waiters')}) > Capacity
    BY DEF NoLostWakeup, WeightOf
  <2>1. k < Len(waiters) /\ Head(waiters') = waiters[k + 1] /\ k + 1 \in 1..Len(waiters)
    BY <1>2, <1>6, EmptySeq
  <2>2. ~(left + WeightOf(G(k + 1)) <= Capacity)
    BY <1>1, <2>1
  <2>3. G(k + 1) = G(k) \cup {waiters[k + 1]}
    BY <1>2, <2>1 DEF Oldest
  <2>4. G(k) \cap {waiters[k + 1]} = {}
    BY <1>2, <2>1 DEF QueueDistinct, Oldest
  <2>5. WeightOf(G(k + 1)) = WeightOf(G(k)) + WeightOf({waiters[k + 1]})
    <3>1. G(k) \in SUBSET Callers /\ {waiters[k + 1]} \in SUBSET Callers
      BY <1>2, <1>3, <2>1
    <3> QED  BY <2>3, <2>4, <3>1, WeightAdds
  <2>6. WeightOf({waiters[k + 1]}) \in Nat
    <3>1. waiters[k + 1] \in Callers
      BY <1>2, <2>1
    <3> QED  BY <3>1, WeightOfOne, ShardLockAssumption DEF Callers
  <2>7. cur' + WeightOf({waiters[k + 1]}) > Capacity
    <3>1. /\ left \in Int /\ WeightOf(G(k)) \in Nat
          /\ cur' = left + WeightOf(G(k))
          /\ ~(left + (WeightOf(G(k)) + WeightOf({waiters[k + 1]})) <= Capacity)
      BY <1>1, <1>4, <1>5, <2>2, <2>5
    <3> HIDE DEF left, G
    <3> QED  BY <1>2, <2>6, <3>1
  <2> QED  BY <2>1, <2>7
<1> QED  BY <1>7, <1>8, <1>9, <1>10

(* Every step of the lock keeps the invariant. *)
LEMMA LockStepInv == LockInv /\ [LockNext]_lockVars => LockInv'
<1> SUFFICES ASSUME LockInv, [LockNext]_lockVars PROVE LockInv'
  OBVIOUS
<1>1. ASSUME NEW p \in Callers, Acquire(p) PROVE LockInv'
  BY <1>1, AcquireInv
<1>2. ASSUME NEW p \in Readers, CancelAcquire(p) PROVE LockInv'
  BY <1>2, CancelInv
<1>3. ASSUME NEW p \in Callers, Release(p) PROVE LockInv'
  BY <1>3, ReleaseInv
<1>4. CASE UNCHANGED lockVars
  BY <1>4 DEF lockVars, LockInv, LockTypeOK, QueueDistinct, Waiting, TokensAccounted,
              NoLostWakeup, WeightOf
<1> QED  BY <1>1, <1>2, <1>3, <1>4 DEF LockNext

(* More tokens than a lock() holds are never out: with cur at most Capacity, *)
(* a writer among the holders leaves no token for another call.             *)
LEMMA InvExcludes == LockInv => WriterExclusive
<1> SUFFICES ASSUME LockInv, NEW w \in Writers \cap holders, NEW q \in holders, q # w
             PROVE  FALSE
  BY DEF WriterExclusive
<1>1. /\ {w} \in SUBSET Callers /\ {q} \in SUBSET Callers
      /\ {w} \cap {q} = {} /\ {w} \cup {q} \in SUBSET Callers
      /\ holders \ ({w} \cup {q}) \in SUBSET Callers
      /\ ({w} \cup {q}) \cap (holders \ ({w} \cup {q})) = {}
      /\ ({w} \cup {q}) \cup (holders \ ({w} \cup {q})) = holders
  BY DEF LockInv, LockTypeOK
<1>2. WeightOf({w}) = Capacity /\ WeightOf({q}) \in 1..Capacity
  BY <1>1, WeightOfOne, ShardLockAssumption DEF Callers
<1>3. WeightOf({w} \cup {q}) = WeightOf({w}) + WeightOf({q})
  BY <1>1, WeightAdds
<1>4. WeightOf(({w} \cup {q}) \cup (holders \ ({w} \cup {q})))
        = WeightOf({w} \cup {q}) + WeightOf(holders \ ({w} \cup {q}))
  BY <1>1, WeightAdds
<1>5. WeightOf(holders \ ({w} \cup {q})) \in Nat
  <2>1. /\ {} \in SUBSET Callers
        /\ (holders \ ({w} \cup {q})) \cap {} = {}
    OBVIOUS
  <2> QED  BY <1>1, <2>1, WeightAdds
<1>6. WeightOf(holders) <= Capacity
  BY DEF LockInv, TokensAccounted
<1>7. WeightOf(holders) = WeightOf({w}) + WeightOf({q}) + WeightOf(holders \ ({w} \cup {q}))
  BY <1>1, <1>3, <1>4
<1> QED  BY <1>2, <1>5, <1>6, <1>7, ShardLockAssumption

-----------------------------------------------------------------------------
InLock == holders \cup Waiting

(* What the steps of the lock do to the calls in it. *)

(* Acquire puts its caller into the lock and nobody out of it. *)
LEMMA AcquireMembers ==
  ASSUME LockInv, NEW p \in Callers, Acquire(p)
  PROVE  InLock' = InLock \cup {p} /\ holders \subseteq holders' /\ p \notin InLock
<1>1. waiters \in Seq(Callers)
  BY DEF LockInv, LockTypeOK
<1>2. p \notin InLock
  BY DEF Acquire, InLock
<1>3. CASE waiters' = waiters /\ holders' = holders \cup {p}
  BY <1>2, <1>3 DEF InLock, Waiting
<1>4. CASE waiters' = Append(waiters, p) /\ holders' = holders
  <2>1. /\ Len(waiters') = Len(waiters) + 1 /\ Len(waiters) \in Nat
        /\ \A i \in 1..Len(waiters) : waiters'[i] = waiters[i]
        /\ waiters'[Len(waiters) + 1] = p
    BY <1>1, <1>4
  <2>2. Waiting' = Waiting \cup {p}
    BY <2>1 DEF Waiting
  <2> QED  BY <1>2, <1>4, <2>2 DEF InLock
<1> QED  BY <1>3, <1>4 DEF Acquire

(* CancelAcquire takes its caller out of the queue and touches no holder. *)
LEMMA CancelMembers ==
  ASSUME LockInv, NEW p \in Readers, CancelAcquire(p)
  PROVE  /\ InLock' = InLock \ {p} /\ holders' = holders
         /\ p \notin holders
         /\ \E i \in 1..Len(waiters) :
              /\ waiters[i] = p
              /\ Len(waiters') = Len(waiters) - 1
              /\ \A j \in 1..(Len(waiters) - 1) :
                   waiters'[j] = IF j < i THEN waiters[j] ELSE waiters[j + 1]
<1>1. PICK i \in 1..Len(waiters) :
        /\ waiters[i] = p
        /\ waiters' = SubSeq(waiters, 1, i - 1) \o SubSeq(waiters, i + 1, Len(waiters))
        /\ holders' = holders
  BY DEF CancelAcquire
<1>2. waiters \in Seq(Callers) /\ Len(waiters) \in Nat
  BY DEF LockInv, LockTypeOK
<1>3. /\ Len(waiters') = Len(waiters) - 1
      /\ \A j \in 1..(Len(waiters) - 1) :
           waiters'[j] = IF j < i THEN waiters[j] ELSE waiters[j + 1]
  <2>1. waiters' = Without(waiters, i)
    BY <1>1, Zenon DEF Without
  <2> QED  BY <1>2, <2>1, RemoveAt, Zenon
<1>4. p \in Waiting /\ p \notin holders
  BY <1>1 DEF Waiting, LockInv, QueueDistinct
<1>5. Waiting' \subseteq Waiting \ {p}
  <2> SUFFICES ASSUME NEW j \in 1..Len(waiters')
               PROVE  waiters'[j] \in Waiting \ {p}
    BY DEF Waiting
  <2>1. /\ j \in 1..(Len(waiters) - 1)
        /\ j \in 1..Len(waiters) /\ j + 1 \in 1..Len(waiters)
        /\ j < i => j # i
        /\ ~(j < i) => j + 1 # i
    BY <1>2, <1>3
  <2>2. \A l \in 1..Len(waiters) : l # i => waiters[l] \in Waiting \ {p}
    BY <1>1, Zenon DEF Waiting, LockInv, QueueDistinct
  <2>3. waiters'[j] = IF j < i THEN waiters[j] ELSE waiters[j + 1]
    BY <1>3, <2>1, Zenon
  <2> QED  BY <2>1, <2>2, <2>3, Zenon
<1>6. Waiting \ {p} \subseteq Waiting'
  <2> SUFFICES ASSUME NEW j \in 1..Len(waiters), waiters[j] # p
               PROVE  waiters[j] \in Waiting'
    BY DEF Waiting
  <2>1. CASE j < i
    <3>1. j \in 1..(Len(waiters) - 1)
      BY <1>2, <2>1
    <3> QED  BY <1>3, <2>1, <3>1 DEF Waiting
  <2>2. CASE j > i
    <3>1. j - 1 \in 1..(Len(waiters) - 1) /\ ~(j - 1 < i) /\ (j - 1) + 1 = j
      BY <1>2, <2>2
    <3>2. waiters'[j - 1] = waiters[j]
      BY <1>3, <3>1
    <3> QED  BY <1>3, <3>1, <3>2 DEF Waiting
  <2>3. j # i
    BY <1>1
  <2> QED  BY <1>2, <2>1, <2>2, <2>3
<1> QED  BY <1>1, <1>3, <1>4, <1>5, <1>6 DEF InLock

(* Release takes its caller out of the lock and keeps the others in it. *)
LEMMA ReleaseMembers ==
  ASSUME LockInv, NEW p \in Callers, Release(p)
  PROVE  /\ InLock' = InLock \ {p}
         /\ holders \ {p} \subseteq holders'
         /\ \E k \in 0..Len(waiters) :
              /\ holders' = (holders \ {p}) \cup Oldest(waiters, k)
              /\ Len(waiters') = Len(waiters) - k
              /\ \A j \in 1..(Len(waiters) - k) : waiters'[j] = waiters[k + j]
<1>1. PICK k \in 0..Len(waiters) :
        /\ holders' = (holders \ {p}) \cup Oldest(waiters, k)
        /\ waiters' = SubSeq(waiters, k + 1, Len(waiters))
  BY DEF Release
<1>2. waiters \in Seq(Callers) /\ Len(waiters) \in Nat
  BY DEF LockInv, LockTypeOK
<1>3. /\ Len(waiters') = Len(waiters) - k
      /\ \A j \in 1..(Len(waiters) - k) : waiters'[j] = waiters[k + j]
  BY <1>1, <1>2, SubSeqProperties
<1>4. p \in holders /\ p \notin Waiting
  BY DEF Release, LockInv, QueueDistinct
<1>5. Waiting = Oldest(waiters, k) \cup Waiting'
  <2>1. Waiting' \subseteq Waiting
    <3> SUFFICES ASSUME NEW j \in 1..Len(waiters') PROVE waiters'[j] \in Waiting
      BY DEF Waiting
    <3>1. k + j \in 1..Len(waiters) /\ waiters'[j] = waiters[k + j]
      BY <1>2, <1>3
    <3> QED  BY <3>1 DEF Waiting
  <2>2. Oldest(waiters, k) \subseteq Waiting
    BY <1>2 DEF Oldest, Waiting
  <2>3. ASSUME NEW j \in 1..Len(waiters), waiters[j] \notin Oldest(waiters, k)
        PROVE  waiters[j] \in Waiting'
    <3>1. j > k
      BY <1>2, <2>3 DEF Oldest
    <3>2. j - k \in 1..(Len(waiters) - k) /\ k + (j - k) = j
      BY <1>2, <3>1
    <3>3. waiters'[j - k] = waiters[j]
      BY <1>3, <3>2
    <3> QED  BY <1>3, <3>2, <3>3 DEF Waiting
  <2> QED  BY <2>1, <2>2, <2>3 DEF Waiting
<1> QED  BY <1>1, <1>3, <1>4, <1>5 DEF InLock

-----------------------------------------------------------------------------

(* The inductive invariant holds in every state of the semaphore. *)
LEMMA LockAlwaysInv == LockSafeSpec => []LockInv
BY LockInitInv, LockStepInv, PTL DEF LockSafeSpec

(* Acquire, CancelAcquire and Release keep the counter within the capacity.  *)
THEOREM LockTypes == LockSafeSpec => []LockTypeOK
<1>1. LockInv => LockTypeOK
  BY DEF LockInv
<1> QED  BY <1>1, LockAlwaysInv, PTL

(* The counter is the tokens of the holders: Release never finds fewer held  *)
(* than it gives back, which is what its panic is for.                      *)
THEOREM LockCountsTokens == LockSafeSpec => []TokensAccounted
<1>1. LockInv => TokensAccounted
  BY DEF LockInv
<1> QED  BY <1>1, LockAlwaysInv, PTL

(* lock() excludes every other lock() and rlock(). *)
THEOREM LockExcludes == LockSafeSpec => []WriterExclusive
BY InvExcludes, LockAlwaysInv, PTL

(* Nobody waits for tokens that are free: Release wakes all there is room    *)
(* for, and a CancelAcquire, which wakes nobody, makes room for nobody: only *)
(* rlock is cancelled, and it waits only when every token is out.           *)
THEOREM LockWakes == LockSafeSpec => []NoLostWakeup
<1>1. LockInv => NoLostWakeup
  BY DEF LockInv
<1> QED  BY <1>1, LockAlwaysInv, PTL

(* Waiters are served in the order of the queue, and newcomers do not pass    *)
(* them.                                                                     *)
THEOREM LockFIFO == LockSafeSpec => NoOvertaking
<1> DEFINE Ordered ==
      /\ \A i, j \in 1..Len(waiters) :
           i < j /\ waiters[j] \in holders' => waiters[i] \in holders'
      /\ waiters # <<>> => holders' \ holders \subseteq Waiting
<1>1. LockInv /\ [LockNext]_lockVars => [Ordered]_lockVars
  <2> SUFFICES ASSUME LockInv, LockNext PROVE Ordered
    OBVIOUS
  <2>1. \A j \in 1..Len(waiters) : waiters[j] \notin holders
    BY DEF LockInv, QueueDistinct, Waiting
  <2>2. CASE \E p \in Callers : Acquire(p)
    BY <2>1, <2>2 DEF Acquire, Waiting
  <2>3. CASE \E p \in Readers : CancelAcquire(p)
    BY <2>1, <2>3 DEF CancelAcquire
  <2>4. CASE \E p \in Callers : Release(p)
    <3>1. PICK p \in Callers, k \in 0..Len(waiters) :
            holders' = (holders \ {p}) \cup Oldest(waiters, k)
      BY <2>4 DEF Release
    <3>2. Len(waiters) \in Nat
      BY DEF LockInv, LockTypeOK
    <3>3. \A j \in 1..Len(waiters) : waiters[j] \in holders' => j <= k
      BY <2>1, <3>1, <3>2 DEF Oldest, LockInv, QueueDistinct
    <3>4. \A j \in 1..Len(waiters) : j <= k => waiters[j] \in holders'
      BY <3>1, <3>2 DEF Oldest
    <3>5. holders' \ holders \subseteq Waiting
      BY <3>1, <3>2 DEF Oldest, Waiting
    <3> QED  BY <3>2, <3>3, <3>4, <3>5
  <2> QED  BY <2>2, <2>3, <2>4 DEF LockNext
<1> QED  BY <1>1, LockAlwaysInv, PTL DEF LockSafeSpec, NoOvertaking
=============================================================================
