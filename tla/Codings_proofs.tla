--------------------------- MODULE Codings_proofs ---------------------------
(***************************************************************************)
(* What is coded is what is read back, for any byte base: numbers and      *)
(* lists, at once or by an iterator that skips, and the sections of a      *)
(* shard's file; and the search for the document of a posting.             *)
(***************************************************************************)
EXTENDS PostingIterator, IndexSections, SequenceTheorems, WellFoundedInduction, TLAPS

Byte == 0..(byteBase - 1)

UInt32 == 0..maxUInt32

(* A set of natural numbers that is not empty has a least element: the form  *)
(* in which the proofs below are inductions.                                *)
LEMMA LeastNat ==
  ASSUME NEW S, S \subseteq Nat, S # {}
  PROVE  \E m \in S : \A k \in S : m <= k
<1> DEFINE R == {p \in Nat \X Nat : p[1] < p[2]}
<1>1. IsWellFoundedOn(R, Nat)
  <2>1. R = OpToRel(<, Nat)
    BY Zenon DEF OpToRel
  <2> QED  BY <2>1, NatLessThanWellFounded, Zenon
<1> HIDE DEF R
<1>2. PICK x \in S : \A y \in S : ~(<<y, x>> \in R)
  BY <1>1, WFMin, Zenon
<1>3. \A y \in S : ~(y < x)
  BY <1>2, Zenon DEF R
<1> QED  BY <1>2, <1>3

\* Induction up to m, with a set for what holds.
LEMMA UpTo ==
  ASSUME NEW m \in Nat, NEW G, 0 \in G, \A i \in 1..m : i - 1 \in G => i \in G
  PROVE  \A i \in 0..m : i \in G
<1> DEFINE Bad == {i \in 0..m : i \notin G}
<1> SUFFICES ASSUME Bad # {}  PROVE FALSE
  BY Zenon
<1>1. PICK k \in Bad : \A j \in Bad : k <= j
  <2>1. Bad \subseteq Nat
    BY SMT
  <2> HIDE DEF Bad
  <2>. QED  BY <2>1, LeastNat, Zenon
<1>2. k # 0 /\ k \in 0..m
  BY <1>1, Zenon
<1>3. k \in 1..m /\ k - 1 \in 0..m /\ ~(k <= k - 1)
  BY <1>2, SMT
<1>4. k - 1 \in G
  BY <1>1, <1>3, Zenon
<1>. QED  BY <1>1, <1>3, <1>4, Zenon

LEMMA Bases ==
  /\ varintBase \in Nat /\ varintBase >= 2 /\ byteBase = 2 * varintBase
  /\ wordBase \in Nat /\ wordBase > 0
<1>1. byteBase \in Nat /\ byteBase >= 4 /\ byteBase % 2 = 0
  BY CodingsAssumption, Zenon
<1>2. varintBase \in Nat /\ varintBase >= 2 /\ byteBase = 2 * varintBase
  BY <1>1 DEF varintBase
<1>3. ASSUME NEW m \in Nat, m > 0
      PROVE  m * byteBase \in Nat /\ m * byteBase > 0
  BY <1>1, <1>3
<1>4. byteBase * byteBase \in Nat /\ byteBase * byteBase > 0
  BY <1>1, <1>3
<1>5. byteBase * byteBase * byteBase \in Nat /\ byteBase * byteBase * byteBase > 0
  BY <1>3, <1>4, Zenon
<1> QED  BY <1>2, <1>3, <1>5, Zenon DEF wordBase

LEMMA WordsAreNatural == \A u \in UInt32 : u \in Nat
BY Bases DEF UInt32, maxUInt32

(* Division with remainder by the base of varints. *)
LEMMA Digits ==
  ASSUME NEW n \in Nat
  PROVE  /\ n \div varintBase \in Nat
         /\ n % varintBase \in 0..(varintBase - 1)
         /\ n = varintBase * (n \div varintBase) + (n % varintBase)
         /\ n > 0 => n \div varintBase < n
<1>1. varintBase \in Nat /\ varintBase >= 2
  BY Bases, Zenon
<1> DEFINE q == n \div varintBase
<1>2. q \in Nat /\ n % varintBase \in 0..(varintBase - 1)
  BY <1>1
<1>3. n = varintBase * q + (n % varintBase)
  BY <1>1
<1> HIDE DEF q
<1>4. varintBase * q >= 2 * q
  BY <1>1, <1>2
<1>5. n > 0 => q < n
  BY <1>1, <1>2, <1>3, <1>4
<1> QED  BY <1>2, <1>3, <1>5, Zenon DEF q

-----------------------------------------------------------------------------
(* Varints *)

LEMMA ShiftedTurns ==
  ASSUME NEW n \in Nat
  PROVE  Shifted(n) = [i \in 0..n |-> IF i = 0 THEN n ELSE Shifted(n)[i - 1] \div varintBase]
<1> DEFINE Step(p, i) == p \div varintBase
           Turns(m, g) == g = [i \in 0..m |-> IF i = 0 THEN n ELSE Step(g[i - 1], i)]
           Never == {m \in Nat : ~\E g : Turns(m, g)}
<1> HIDE DEF Step
<1>1. Never = {}
  <2> SUFFICES ASSUME Never # {} PROVE FALSE
    BY Zenon
  <2>1. PICK m \in Never : \A k \in Never : m <= k
    <3>1. Never \subseteq Nat
      BY Zenon
    <3> HIDE DEF Never
    <3> QED  BY <3>1, LeastNat, Zenon
  <2>2. m # 0
    <3>1. Turns(0, [i \in 0..0 |-> n])
      OBVIOUS
    <3> HIDE DEF Turns
    <3> QED  BY <2>1, <3>1, Zenon
  <2>3. PICK g : Turns(m - 1, g)
    <3>1. m - 1 \in Nat /\ ~(m <= m - 1)
      BY <2>1, <2>2
    <3> HIDE DEF Turns
    <3> QED  BY <2>1, <3>1, Zenon
  <2>4. Turns(m, [i \in 0..m |-> IF i = m THEN Step(g[m - 1], m) ELSE g[i]])
    BY <2>1, <2>2, <2>3
  <2> HIDE DEF Turns
  <2> QED  BY <2>1, <2>4, Zenon
<1>2. n \in Nat
  BY Zenon
<1>3. PICK g : Turns(n, g)
  BY <1>1, <1>2, Zenon
<1> QED  BY <1>3, Zenon DEF Shifted, Step

(* Every turn shifts a digit out. *)
LEMMA ShiftedStep ==
  ASSUME NEW n \in Nat
  PROVE  /\ Shifted(n)[0] = n
         /\ \A i \in 1..n : Shifted(n)[i] = Shifted(n)[i - 1] \div varintBase
         /\ \A i \in 0..n : Shifted(n)[i] \in 0..(n - i)
<1>1. Shifted(n)[0] = n /\ \A i \in 1..n : Shifted(n)[i] = Shifted(n)[i - 1] \div varintBase
  BY ShiftedTurns
<1> DEFINE Large == {i \in 0..n : Shifted(n)[i] \notin 0..(n - i)}
<1>2. Large = {}
  <2> SUFFICES ASSUME Large # {} PROVE FALSE
    BY Zenon
  <2>1. PICK i \in Large : \A k \in Large : i <= k
    <3>1. Large \subseteq Nat
      OBVIOUS
    <3> HIDE DEF Large
    <3> QED  BY <3>1, LeastNat, Zenon
  <2>2. i \in 1..n
    BY <1>1, <2>1
  <2>3. Shifted(n)[i - 1] \in 0..(n - (i - 1))
    BY <2>1, <2>2
  <2> DEFINE x == Shifted(n)[i - 1]
  <2>4. x \in Nat /\ x <= n - i + 1
    BY <2>2, <2>3
  <2> HIDE DEF x
  <2>5. x \div varintBase \in Nat /\ (x > 0 => x \div varintBase < x)
    BY <2>4, Digits, Zenon
  <2>6. x = 0 => x \div varintBase = 0
    BY Bases
  <2>7. x \div varintBase \in 0..(n - i)
    BY <2>2, <2>4, <2>5, <2>6
  <2>8. Shifted(n)[i] = x \div varintBase
    BY <1>1, <2>2, Zenon DEF x
  <2> QED  BY <2>1, <2>7, <2>8, Zenon
<1> QED  BY <1>1, <1>2, Zenon

LEMMA MarkedBytesLeast ==
  ASSUME NEW n \in Nat
  PROVE  /\ MarkedBytes(n) \in 0..n
         /\ Shifted(n)[MarkedBytes(n)] < varintBase
         /\ \A i \in 0..(MarkedBytes(n) - 1) : Shifted(n)[i] >= varintBase
<1> DEFINE Small == {k \in 0..n : Shifted(n)[k] < varintBase}
<1>1. n \in Small
  <2>1. Shifted(n)[n] = 0
    BY ShiftedStep
  <2> QED  BY <2>1, Bases
<1>2. PICK k \in Small : \A i \in Small : k <= i
  <2>1. Small \subseteq Nat
    OBVIOUS
  <2> HIDE DEF Small
  <2> QED  BY <1>1, <2>1, LeastNat, Zenon
<1>3. \A i \in 0..(k - 1) : Shifted(n)[i] >= varintBase
  <2> SUFFICES ASSUME NEW i \in 0..(k - 1) PROVE Shifted(n)[i] >= varintBase
    BY Zenon
  <2>1. i \in 0..n /\ ~(k <= i)
    OBVIOUS
  <2>2. Shifted(n)[i] \in Int
    BY <2>1, ShiftedStep
  <2> QED  BY <1>2, <2>1, <2>2, Bases
<1> QED  BY <1>2, <1>3, Zenon DEF MarkedBytes

LEMMA DigitsTurns ==
  ASSUME NEW b, NEW sz \in Nat \ {0}
  PROVE  DigitsValue(b, sz) = [i \in 0..(sz - 1) |-> IF i = 0 THEN b[sz] ELSE b[sz - i] - varintBase + varintBase * DigitsValue(b, sz)[i - 1]]
<1> DEFINE Step(p, i) == b[sz - i] - varintBase + varintBase * p
           Turns(m, g) == g = [i \in 0..m |-> IF i = 0 THEN b[sz] ELSE Step(g[i - 1], i)]
           Never == {m \in Nat : ~\E g : Turns(m, g)}
<1> HIDE DEF Step
<1>1. Never = {}
  <2> SUFFICES ASSUME Never # {} PROVE FALSE
    BY Zenon
  <2>1. PICK m \in Never : \A k \in Never : m <= k
    <3>1. Never \subseteq Nat
      BY Zenon
    <3> HIDE DEF Never
    <3> QED  BY <3>1, LeastNat, Zenon
  <2>2. m # 0
    <3>1. Turns(0, [i \in 0..0 |-> b[sz]])
      OBVIOUS
    <3> HIDE DEF Turns
    <3> QED  BY <2>1, <3>1, Zenon
  <2>3. PICK g : Turns(m - 1, g)
    <3>1. m - 1 \in Nat /\ ~(m <= m - 1)
      BY <2>1, <2>2
    <3> HIDE DEF Turns
    <3> QED  BY <2>1, <3>1, Zenon
  <2>4. Turns(m, [i \in 0..m |-> IF i = m THEN Step(g[m - 1], m) ELSE g[i]])
    BY <2>1, <2>2, <2>3
  <2> HIDE DEF Turns
  <2> QED  BY <2>1, <2>4, Zenon
<1>2. (sz - 1) \in Nat
  OBVIOUS
<1>3. PICK g : Turns((sz - 1), g)
  BY <1>1, <1>2, Zenon
<1> QED  BY <1>3, Zenon DEF DigitsValue, Step

LEMMA PutUvarintBytes ==
  ASSUME NEW n \in Nat, NEW k, k = MarkedBytes(n)
  PROVE  /\ PutUvarint(n) \in Seq(Byte)
         /\ Len(PutUvarint(n)) = k + 1
         /\ \A i \in 1..k : /\ PutUvarint(n)[i] = (Shifted(n)[i - 1] % varintBase) + varintBase
                            /\ PutUvarint(n)[i] >= varintBase
         /\ PutUvarint(n)[k + 1] = Shifted(n)[k]
         /\ PutUvarint(n)[k + 1] < varintBase
<1>1. k \in 0..n /\ Shifted(n)[k] < varintBase
  BY MarkedBytesLeast, Zenon
<1>2. \A i \in 0..n : Shifted(n)[i] \in Nat
  BY ShiftedStep
<1>3. \A i \in 1..k : (Shifted(n)[i - 1] % varintBase) + varintBase \in varintBase..(byteBase - 1)
  <2> SUFFICES ASSUME NEW i \in 1..k
               PROVE  (Shifted(n)[i - 1] % varintBase) + varintBase \in varintBase..(byteBase - 1)
    BY Zenon
  <2> DEFINE x == Shifted(n)[i - 1]
  <2>1. x \in Nat
    BY <1>1, <1>2
  <2> HIDE DEF x
  <2>2. x % varintBase \in 0..(varintBase - 1)
    BY <2>1, Digits, Zenon
  <2>3. (x % varintBase) + varintBase \in varintBase..(byteBase - 1)
    BY <2>2, Bases
  <2> QED  BY <2>3, Zenon DEF x
<1>4. Shifted(n)[k] \in Nat /\ Shifted(n)[k] \in Byte
  BY <1>1, <1>2, Bases DEF Byte
<1>5. PutUvarint(n) = [i \in 1..(k + 1) |-> IF i <= k THEN (Shifted(n)[i - 1] % varintBase) + varintBase
                                           ELSE Shifted(n)[k]]
  BY Zenon DEF PutUvarint
<1>6. \A i \in 1..(k + 1) : PutUvarint(n)[i] \in Byte
  <2>1. \A i \in varintBase..(byteBase - 1) : i \in Byte
    BY Bases DEF Byte
  <2> QED  BY <1>1, <1>3, <1>4, <1>5, <2>1
<1>7. PutUvarint(n) \in Seq(Byte) /\ Len(PutUvarint(n)) = k + 1
  BY <1>1, <1>5, <1>6
<1>8. \A i \in 1..k : /\ PutUvarint(n)[i] = (Shifted(n)[i - 1] % varintBase) + varintBase
                     /\ PutUvarint(n)[i] >= varintBase
  BY <1>1, <1>3, <1>5, Bases
<1>9. PutUvarint(n)[k + 1] = Shifted(n)[k]
  BY <1>1, <1>5
<1> QED  BY <1>1, <1>7, <1>8, <1>9, Zenon

(* A varint ends with its first byte without a mark, whatever follows. *)
LEMMA UvarintEnds ==
  ASSUME NEW n \in Nat, NEW rest \in Seq(Byte)
  PROVE  UvarintSize(PutUvarint(n) \o rest) = Len(PutUvarint(n))
<1> DEFINE k == MarkedBytes(n)
           b == PutUvarint(n) \o rest
<1>1. k \in Nat
  BY MarkedBytesLeast
<1> HIDE DEF k
<1>2. /\ PutUvarint(n) \in Seq(Byte) /\ Len(PutUvarint(n)) = k + 1
      /\ \A i \in 1..k : PutUvarint(n)[i] >= varintBase
      /\ PutUvarint(n)[k + 1] < varintBase
  BY PutUvarintBytes, Zenon DEF k
<1>3. b \in Seq(Byte) /\ k + 1 \in DOMAIN b /\ \A i \in 1..(k + 1) : b[i] = PutUvarint(n)[i]
  BY <1>1, <1>2
<1> HIDE DEF b
<1>4. b[k + 1] < varintBase /\ \A i \in 1..k : b[i] >= varintBase
  BY <1>1, <1>2, <1>3
<1>5. ASSUME NEW j \in DOMAIN b, b[j] < varintBase, \A i \in 1..(j - 1) : b[i] >= varintBase
      PROVE  j = k + 1
  <2>1. j \in Nat \ {0} /\ b[j] \in Int /\ b[k + 1] \in Int /\ varintBase \in Int
    BY <1>3, Bases DEF Byte
  <2>2. j \notin 1..k
    BY <1>4, <1>5, <2>1
  <2>3. k + 1 \notin 1..(j - 1)
    BY <1>4, <1>5, <2>1
  <2> QED  BY <1>1, <2>1, <2>2, <2>3
<1>6. \A i \in 1..((k + 1) - 1) : b[i] >= varintBase
  BY <1>1, <1>4
<1>7. UvarintSize(b) = k + 1
  BY <1>3, <1>4, <1>5, <1>6, Zenon DEF UvarintSize
<1> QED  BY <1>2, <1>7, Zenon DEF b

(* Uvarint reads the number that PutUvarint wrote, and no byte more. *)
LEMMA UvarintReads ==
  ASSUME NEW n \in Nat, NEW rest \in Seq(Byte)
  PROVE  /\ Uvarint(PutUvarint(n) \o rest).n = n
         /\ Uvarint(PutUvarint(n) \o rest).sz = Len(PutUvarint(n))
<1> DEFINE k == MarkedBytes(n)
           b == PutUvarint(n) \o rest
           v == DigitsValue(b, k + 1)
<1>1. k \in 0..n
  BY MarkedBytesLeast, Zenon
<1> HIDE DEF k
<1>2. /\ PutUvarint(n) \in Seq(Byte) /\ Len(PutUvarint(n)) = k + 1
      /\ \A i \in 1..k : PutUvarint(n)[i] = (Shifted(n)[i - 1] % varintBase) + varintBase
      /\ PutUvarint(n)[k + 1] = Shifted(n)[k]
  BY PutUvarintBytes, Zenon DEF k
<1>3. \A i \in 1..(k + 1) : b[i] = PutUvarint(n)[i]
  BY <1>1, <1>2
<1>4. UvarintSize(b) = k + 1
  BY <1>2, UvarintEnds, Zenon
<1> HIDE DEF b
<1>5. v = [j \in 0..k |-> IF j = 0 THEN b[k + 1]
                          ELSE b[(k + 1) - j] - varintBase + varintBase * v[j - 1]]
  <2>1. k + 1 \in Nat \ {0} /\ (k + 1) - 1 = k
    BY <1>1
  <2>2. v = [j \in 0..((k + 1) - 1) |-> IF j = 0 THEN b[k + 1]
                                       ELSE b[(k + 1) - j] - varintBase + varintBase * v[j - 1]]
    BY <2>1, DigitsTurns, Zenon
  <2> HIDE DEF v
  <2> QED  BY <2>1, <2>2, Zenon
<1> HIDE DEF v
<1> DEFINE Wrong == {j \in 0..k : v[j] # Shifted(n)[k - j]}
<1>6. Wrong = {}
  <2> SUFFICES ASSUME Wrong # {} PROVE FALSE
    BY Zenon
  <2>1. PICK j \in Wrong : \A i \in Wrong : j <= i
    <3>1. Wrong \subseteq Nat
      BY <1>1
    <3> HIDE DEF Wrong
    <3> QED  BY <3>1, LeastNat, Zenon
  <2>2. j \in 1..k
    BY <1>1, <1>2, <1>3, <1>5, <2>1
  <2> DEFINE x == Shifted(n)[k - j]
  <2>3. x \in Nat
    BY <1>1, <2>2, ShiftedStep
  <2>4. v[j - 1] = x \div varintBase
    <3>1. j - 1 \in 0..k /\ j - 1 \notin Wrong
      BY <1>1, <2>1, <2>2
    <3>2. v[j - 1] = Shifted(n)[k - (j - 1)]
      BY <3>1, Zenon
    <3>3. k - (j - 1) \in 1..n /\ (k - (j - 1)) - 1 = k - j
      BY <1>1, <2>2
    <3>4. Shifted(n)[k - (j - 1)] = Shifted(n)[(k - (j - 1)) - 1] \div varintBase
      BY <3>3, ShiftedStep, Zenon
    <3> QED  BY <3>2, <3>3, <3>4, Zenon
  <2>5. b[(k + 1) - j] = (x % varintBase) + varintBase
    <3>1. (k + 1) - j \in 1..k /\ ((k + 1) - j) - 1 = k - j
      BY <1>1, <2>2
    <3> QED  BY <1>2, <1>3, <3>1
  <2>6. v[j] = b[(k + 1) - j] - varintBase + varintBase * v[j - 1]
    BY <1>1, <1>5, <2>2
  <2> HIDE DEF x
  <2>7. v[j] = x
    <3> DEFINE q == x \div varintBase
               m == x % varintBase
    <3>1. q \in Nat /\ m \in 0..(varintBase - 1) /\ x = varintBase * q + m
      BY <2>3, Digits, Zenon
    <3>2. v[j] = (m + varintBase) - varintBase + varintBase * q
      BY <2>4, <2>5, <2>6, Zenon
    <3> HIDE DEF q, m
    <3>3. varintBase \in Int /\ varintBase * q \in Int /\ m \in Int
      BY <3>1, Bases
    <3> QED  BY <3>1, <3>2, <3>3
  <2> QED  BY <2>1, <2>7, Zenon DEF x
<1>7. v[k] = n
  <2>1. k \in 0..k /\ k - k = 0
    BY <1>1
  <2>2. v[k] = Shifted(n)[0]
    BY <1>6, <2>1, Zenon
  <2> QED  BY <2>2, ShiftedStep, Zenon
<1>8. Uvarint(b).n = n /\ Uvarint(b).sz = k + 1
  <2>1. (k + 1) - 1 = k
    BY <1>1
  <2> QED  BY <1>4, <1>7, <2>1, Zenon DEF Uvarint, v
<1> QED  BY <1>2, <1>8, Zenon DEF b

-----------------------------------------------------------------------------
(* Lists of uint32 *)

(* The offset that comes before the i-th, and the bytes of the i-th. *)
Previous(offsets, i) == IF i = 1 THEN 0 ELSE offsets[i - 1]
Coded(offsets, i) == PutUvarint(Delta(offsets[i], Previous(offsets, i)))

(* Adding a difference in uint32 undoes the subtraction, in whatever        *)
(* direction the offsets go.                                                *)
LEMMA DeltaAdds ==
  ASSUME NEW n \in UInt32, NEW last \in UInt32
  PROVE  /\ Delta(n, last) \in Nat
         /\ (last + Delta(n, last)) % wordBase = n
<1> DEFINE w == wordBase
<1>1. w \in Nat /\ w > 0 /\ n \in 0..(w - 1) /\ last \in 0..(w - 1)
  BY Bases, Zenon DEF UInt32, maxUInt32
<1> HIDE DEF w
<1>2. ASSUME NEW a \in 0..(w - 1) PROVE a % w = a
  BY <1>1
<1>3. ASSUME NEW a \in 0..(w - 1) PROVE (a + w) % w = a
  BY <1>1
<1>4. ASSUME NEW a \in Int, a < 0, 0 <= a + w PROVE a % w = a + w
  BY <1>1, <1>4
<1>5. CASE last <= n
  <2>1. (n - last) \in 0..(w - 1) /\ last + (n - last) = n
    BY <1>1, <1>5
  <2>2. (n - last) % w = n - last
    BY <1>2, <2>1, Zenon
  <2> QED  BY <1>1, <1>2, <2>1, <2>2 DEF Delta, w
<1>6. CASE n < last
  <2>1. (n - last) \in Int /\ n - last < 0 /\ 0 <= (n - last) + w
    BY <1>1, <1>6
  <2>2. (n - last) % w = (n - last) + w
    BY <1>4, <2>1, Zenon
  <2>3. (n - last) + w \in Nat /\ last + ((n - last) + w) = n + w
    BY <1>1, <2>1
  <2> QED  BY <1>1, <1>3, <2>2, <2>3, Zenon DEF Delta, w
<1> QED  BY <1>1, <1>5, <1>6

LEMMA CodedBytes ==
  ASSUME NEW offsets \in Seq(UInt32), NEW i \in 1..Len(offsets)
  PROVE  /\ offsets[i] \in UInt32 /\ Previous(offsets, i) \in UInt32
         /\ Delta(offsets[i], Previous(offsets, i)) \in Nat
         /\ Coded(offsets, i) \in Seq(Byte)
         /\ Len(Coded(offsets, i)) >= 1
<1>1. offsets[i] \in UInt32
  OBVIOUS
<1>2. Previous(offsets, i) \in UInt32
  <2>1. 0 \in UInt32
    BY Bases DEF UInt32, maxUInt32
  <2>2. i # 1 => offsets[i - 1] \in UInt32
    OBVIOUS
  <2> QED  BY <2>1, <2>2, Zenon DEF Previous
<1> DEFINE n == Delta(offsets[i], Previous(offsets, i))
<1>3. n \in Nat
  BY <1>1, <1>2, DeltaAdds, Zenon
<1> HIDE DEF n
<1>4. PutUvarint(n) \in Seq(Byte) /\ Len(PutUvarint(n)) >= 1
  <2>1. MarkedBytes(n) \in Nat
    BY <1>3, MarkedBytesLeast
  <2> QED  BY <1>3, <2>1, PutUvarintBytes
<1> QED  BY <1>1, <1>2, <1>3, <1>4, Zenon DEF Coded, n

LEMMA DeltasTurns ==
  ASSUME NEW offsets \in Seq(UInt32)
  PROVE  DeltasLoop(offsets) = [i \in 0..Len(offsets) |-> IF i = 0 THEN <<>> ELSE DeltasLoop(offsets)[i - 1] \o Coded(offsets, i)]
<1> DEFINE Step(p, i) == p \o Coded(offsets, i)
           Turns(m, g) == g = [i \in 0..m |-> IF i = 0 THEN <<>> ELSE Step(g[i - 1], i)]
           Never == {m \in Nat : ~\E g : Turns(m, g)}
<1> HIDE DEF Step
<1>1. Never = {}
  <2> SUFFICES ASSUME Never # {} PROVE FALSE
    BY Zenon
  <2>1. PICK m \in Never : \A k \in Never : m <= k
    <3>1. Never \subseteq Nat
      BY Zenon
    <3> HIDE DEF Never
    <3> QED  BY <3>1, LeastNat, Zenon
  <2>2. m # 0
    <3>1. Turns(0, [i \in 0..0 |-> <<>>])
      OBVIOUS
    <3> HIDE DEF Turns
    <3> QED  BY <2>1, <3>1, Zenon
  <2>3. PICK g : Turns(m - 1, g)
    <3>1. m - 1 \in Nat /\ ~(m <= m - 1)
      BY <2>1, <2>2
    <3> HIDE DEF Turns
    <3> QED  BY <2>1, <3>1, Zenon
  <2>4. Turns(m, [i \in 0..m |-> IF i = m THEN Step(g[m - 1], m) ELSE g[i]])
    BY <2>1, <2>2, <2>3
  <2> HIDE DEF Turns
  <2> QED  BY <2>1, <2>4, Zenon
<1>2. Len(offsets) \in Nat
  OBVIOUS
<1>3. PICK g : Turns(Len(offsets), g)
  BY <1>1, <1>2, Zenon
<1> QED  BY <1>3, Zenon DEF DeltasLoop, Coded, Previous, Step

LEMMA ReadTurns ==
  ASSUME NEW data \in Seq(Byte)
  PROVE  ReadLoop(data) = [i \in 0..Len(data) |-> IF i = 0 THEN [data |-> data, last |-> 0, ps |-> <<>>] ELSE ReadDelta(ReadLoop(data)[i - 1])]
<1> DEFINE Step(p, i) == ReadDelta(p)
           Turns(m, g) == g = [i \in 0..m |-> IF i = 0 THEN [data |-> data, last |-> 0, ps |-> <<>>] ELSE Step(g[i - 1], i)]
           Never == {m \in Nat : ~\E g : Turns(m, g)}
<1> HIDE DEF Step
<1>1. Never = {}
  <2> SUFFICES ASSUME Never # {} PROVE FALSE
    BY Zenon
  <2>1. PICK m \in Never : \A k \in Never : m <= k
    <3>1. Never \subseteq Nat
      BY Zenon
    <3> HIDE DEF Never
    <3> QED  BY <3>1, LeastNat, Zenon
  <2>2. m # 0
    <3>1. Turns(0, [i \in 0..0 |-> [data |-> data, last |-> 0, ps |-> <<>>]])
      OBVIOUS
    <3> HIDE DEF Turns
    <3> QED  BY <2>1, <3>1, Zenon
  <2>3. PICK g : Turns(m - 1, g)
    <3>1. m - 1 \in Nat /\ ~(m <= m - 1)
      BY <2>1, <2>2
    <3> HIDE DEF Turns
    <3> QED  BY <2>1, <3>1, Zenon
  <2>4. Turns(m, [i \in 0..m |-> IF i = m THEN Step(g[m - 1], m) ELSE g[i]])
    BY <2>1, <2>2, <2>3
  <2> HIDE DEF Turns
  <2> QED  BY <2>1, <2>4, Zenon
<1>2. Len(data) \in Nat
  OBVIOUS
<1>3. PICK g : Turns(Len(data), g)
  BY <1>1, <1>2, Zenon
<1> QED  BY <1>3, Zenon DEF ReadLoop, Step

LEMMA ConcatThree ==
  ASSUME NEW s \in Seq(Byte), NEW t \in Seq(Byte), NEW u \in Seq(Byte)
  PROVE  (s \o t) \o u = s \o (t \o u)
BY ConcatAssociative

(* An offset takes a byte or more. *)
LEMMA DeltasGrow ==
  ASSUME NEW offsets \in Seq(UInt32)
  PROVE  \A i \in 0..Len(offsets) : DeltasLoop(offsets)[i] \in Seq(Byte) /\ Len(DeltasLoop(offsets)[i]) >= i
<1> DEFINE n == Len(offsets)
           f == DeltasLoop(offsets)
           Bad == {i \in 0..n : ~(f[i] \in Seq(Byte) /\ Len(f[i]) >= i)}
<1>1. n \in Nat
  OBVIOUS
<1>2. f[0] = <<>> /\ \A i \in 1..n : f[i] = f[i - 1] \o Coded(offsets, i)
  BY <1>1, DeltasTurns
<1>3. \A i \in 1..n : Coded(offsets, i) \in Seq(Byte) /\ Len(Coded(offsets, i)) >= 1
  BY CodedBytes, Zenon
<1> HIDE DEF n, f
<1>4. Bad = {}
  <2> SUFFICES ASSUME Bad # {} PROVE FALSE
    BY Zenon
  <2>1. PICK i \in Bad : \A j \in Bad : i <= j
    <3>1. Bad \subseteq Nat
      BY <1>1
    <3> HIDE DEF Bad
    <3> QED  BY <3>1, LeastNat, Zenon
  <2>2. i # 0
    BY <1>2, <2>1, EmptySeq, Zenon
  <2>3. i \in 1..n /\ i - 1 \in 0..n /\ i - 1 \notin Bad
    BY <1>1, <2>1, <2>2
  <2>4. f[i - 1] \in Seq(Byte) /\ Len(f[i - 1]) >= i - 1
    BY <2>3, Zenon
  <2> DEFINE c == Coded(offsets, i)
  <2>5. f[i] = f[i - 1] \o c /\ c \in Seq(Byte) /\ Len(c) >= 1
    BY <1>2, <1>3, <2>3, Zenon
  <2> HIDE DEF c
  <2>6. f[i] \in Seq(Byte) /\ Len(f[i]) = Len(f[i - 1]) + Len(c)
    BY <2>4, <2>5
  <2>7. Len(f[i]) >= i
    <3>1. Len(f[i - 1]) \in Nat /\ Len(c) \in Nat /\ i \in Nat
      BY <2>3, <2>4, <2>5
    <3> QED  BY <2>4, <2>5, <2>6, <3>1
  <2> QED  BY <2>1, <2>6, <2>7, Zenon
<1> QED  BY <1>4, Zenon DEF n, f

(* What a turn has written stays at the front. *)
LEMMA DeltasPrefix ==
  ASSUME NEW offsets \in Seq(UInt32)
  PROVE  \A i \in 0..Len(offsets) : \E rest \in Seq(Byte) : Deltas(offsets) = DeltasLoop(offsets)[i] \o rest
<1> DEFINE n == Len(offsets)
           f == DeltasLoop(offsets)
           Bad == {j \in 0..n : ~\E rest \in Seq(Byte) : f[n] = f[n - j] \o rest}
<1>1. n \in Nat
  OBVIOUS
<1>2. \A i \in 1..n : f[i] = f[i - 1] \o Coded(offsets, i) /\ Coded(offsets, i) \in Seq(Byte)
  BY <1>1, DeltasTurns, CodedBytes
<1>3. \A i \in 0..n : f[i] \in Seq(Byte)
  BY DeltasGrow, Zenon
<1>4. Deltas(offsets) = f[n]
  BY Zenon DEF Deltas
<1> HIDE DEF n, f
<1>5. Bad = {}
  <2> SUFFICES ASSUME Bad # {} PROVE FALSE
    BY Zenon
  <2>1. PICK j \in Bad : \A i \in Bad : j <= i
    <3>1. Bad \subseteq Nat
      BY <1>1
    <3> HIDE DEF Bad
    <3> QED  BY <3>1, LeastNat, Zenon
  <2>2. j # 0
    <3>1. n \in 0..n /\ n - 0 = n
      BY <1>1
    <3>2. f[n] = f[n] \o <<>> /\ <<>> \in Seq(Byte)
      BY <1>3, <3>1, ConcatEmptySeq, EmptySeq, Zenon
    <3> QED  BY <2>1, <3>1, <3>2, Zenon
  <2> DEFINE i == n - (j - 1)
             c == Coded(offsets, i)
  <2>3. j \in 1..n
    BY <1>1, <2>1, <2>2
  <2>4. i \in 1..n /\ i - 1 = n - j /\ i - 1 \in 0..n /\ j - 1 \in 0..n
    BY <1>1, <2>3
  <2>5. j - 1 \notin Bad
    <3>1. ~(j <= j - 1)
      BY <2>3
    <3> HIDE DEF Bad
    <3> QED  BY <2>1, <3>1, Zenon
  <2>6. PICK rest \in Seq(Byte) : f[n] = f[i] \o rest
    BY <2>4, <2>5, Zenon
  <2> HIDE DEF i
  <2>7. f[i] = f[i - 1] \o c /\ c \in Seq(Byte) /\ f[i - 1] \in Seq(Byte)
    BY <1>2, <1>3, <2>4, Zenon
  <2> HIDE DEF c
  <2>8. f[n] = f[i - 1] \o (c \o rest)
    <3>1. (f[i - 1] \o c) \o rest = f[i - 1] \o (c \o rest)
      BY <2>7, ConcatThree, Zenon
    <3> QED  BY <2>6, <2>7, <3>1, Zenon
  <2>9. c \o rest \in Seq(Byte)
    BY <2>7
  <2> QED  BY <2>1, <2>4, <2>8, <2>9, Zenon
<1>6. \A i \in 0..n : \E rest \in Seq(Byte) : f[n] = f[i] \o rest
  <2> SUFFICES ASSUME NEW i \in 0..n PROVE \E rest \in Seq(Byte) : f[n] = f[i] \o rest
    BY Zenon
  <2>1. n - i \in 0..n /\ n - (n - i) = i
    BY <1>1
  <2> QED  BY <1>5, <2>1, Zenon
<1> QED  BY <1>4, <1>6, Zenon DEF n, f

(* What is left behind a prefix. *)
LEMMA SliceOff ==
  ASSUME NEW c \in Seq(Byte), NEW rest \in Seq(Byte)
  PROVE  Slice(c \o rest, Len(c), Len(c \o rest)) = rest
<1> DEFINE b == c \o rest
           t == SubSeq(b, Len(c) + 1, Len(b))
<1>1. b \in Seq(Byte) /\ Len(b) = Len(c) + Len(rest) /\ Len(c) \in Nat /\ Len(rest) \in Nat
  OBVIOUS
<1>2. \A j \in 1..Len(rest) : b[Len(c) + j] = rest[j]
  OBVIOUS
<1> HIDE DEF b
<1>3. t \in Seq(Byte) /\ Len(t) = Len(rest)
  BY <1>1
<1>4. \A j \in 1..Len(rest) : t[j] = b[Len(c) + j]
  BY <1>1
<1> HIDE DEF t
<1>5. t = rest
  BY <1>2, <1>3, <1>4, SeqEqual, Zenon
<1> QED  BY <1>5, Zenon DEF Slice, b, t

(* A turn of fromDeltas takes the bytes of one offset off the front. *)
LEMMA ReadDeltaStep ==
  ASSUME NEW offsets \in Seq(UInt32), NEW i \in 1..Len(offsets), NEW rest \in Seq(Byte),
         NEW s, s = [data |-> Coded(offsets, i) \o rest, last |-> Previous(offsets, i),
                     ps |-> SubSeq(offsets, 1, i - 1)]
  PROVE  ReadDelta(s) = [data |-> rest, last |-> offsets[i], ps |-> SubSeq(offsets, 1, i)]
<1> DEFINE c == Coded(offsets, i)
           delta == Delta(offsets[i], Previous(offsets, i))
           b == c \o rest
<1>1. /\ offsets[i] \in UInt32 /\ Previous(offsets, i) \in UInt32
      /\ delta \in Nat /\ c \in Seq(Byte) /\ Len(c) >= 1
  BY CodedBytes, Zenon
<1>2. c = PutUvarint(delta)
  BY Zenon DEF Coded
<1>3. (Previous(offsets, i) + delta) % wordBase = offsets[i]
  BY <1>1, DeltaAdds, Zenon
<1> HIDE DEF c, delta
<1>4. Uvarint(b).n = delta /\ Uvarint(b).sz = Len(c)
  BY <1>1, <1>2, UvarintReads, Zenon
<1>5. b \in Seq(Byte) /\ Len(b) = Len(c) + Len(rest) /\ b # <<>>
  BY <1>1
<1>6. Slice(b, Len(c), Len(b)) = rest
  BY <1>1, SliceOff, Zenon
<1>7. Append(SubSeq(offsets, 1, i - 1), offsets[i]) = SubSeq(offsets, 1, i)
  OBVIOUS
<1> HIDE DEF b
<1>8. s.data = b /\ s.last = Previous(offsets, i) /\ s.ps = SubSeq(offsets, 1, i - 1)
  BY Zenon DEF b, c
<1> QED  BY <1>3, <1>4, <1>5, <1>6, <1>7, <1>8, Zenon DEF ReadDelta

(* After i turns fromDeltas has the first i offsets and what Deltas wrote    *)
(* after them.                                                              *)
LEMMA ReadLoopReads ==
  ASSUME NEW offsets \in Seq(UInt32), NEW i \in 0..Len(offsets)
  PROVE  /\ i <= Len(Deltas(offsets))
         /\ \E rest \in Seq(Byte) :
              /\ Deltas(offsets) = DeltasLoop(offsets)[i] \o rest
              /\ ReadLoop(Deltas(offsets))[i] =
                   [data |-> rest, last |-> Previous(offsets, i + 1), ps |-> SubSeq(offsets, 1, i)]
<1> DEFINE n == Len(offsets)
           data == Deltas(offsets)
           f == DeltasLoop(offsets)
           turn == ReadLoop(data)
           Reads(k) == \E rest \in Seq(Byte) :
                         /\ data = f[k] \o rest
                         /\ turn[k] = [data |-> rest, last |-> Previous(offsets, k + 1),
                                       ps |-> SubSeq(offsets, 1, k)]
           Bad == {k \in 0..n : ~Reads(k)}
<1>1. n \in Nat
  OBVIOUS
<1>2. \A k \in 1..n : f[k] = f[k - 1] \o Coded(offsets, k) /\ Coded(offsets, k) \in Seq(Byte)
  BY <1>1, DeltasTurns, CodedBytes
<1>3. f[0] = <<>> /\ \A k \in 0..n : f[k] \in Seq(Byte)
  BY <1>1, DeltasTurns, DeltasGrow
<1>4. data \in Seq(Byte) /\ Len(data) \in Nat /\ n <= Len(data)
  <2>1. data = f[n] /\ n \in 0..n
    BY <1>1 DEF Deltas
  <2>2. f[n] \in Seq(Byte) /\ Len(f[n]) >= n
    BY <2>1, DeltasGrow, Zenon
  <2>3. Len(f[n]) \in Nat
    BY <2>2
  <2> QED  BY <1>1, <2>1, <2>2, <2>3, Zenon
<1>5. \A k \in 0..n : \E rest \in Seq(Byte) : data = f[k] \o rest
  BY DeltasPrefix, Zenon
<1> HIDE DEF data, f
<1>6. /\ turn[0] = [data |-> data, last |-> 0, ps |-> <<>>]
      /\ \A k \in 1..n : turn[k] = ReadDelta(turn[k - 1])
  <2>1. turn = [k \in 0..Len(data) |-> IF k = 0 THEN [data |-> data, last |-> 0, ps |-> <<>>]
                                       ELSE ReadDelta(turn[k - 1])]
    BY <1>4, ReadTurns, Zenon
  <2> HIDE DEF turn
  <2>2. 0 \in 0..Len(data) /\ \A k \in 1..n : k \in 0..Len(data) /\ k # 0
    BY <1>1, <1>4
  <2> QED  BY <2>1, <2>2, Zenon
<1> HIDE DEF n, turn
<1>7. Bad = {}
  <2> SUFFICES ASSUME Bad # {} PROVE FALSE
    BY Zenon
  <2>1. PICK k \in Bad : \A j \in Bad : k <= j
    <3>1. Bad \subseteq Nat
      BY <1>1
    <3> HIDE DEF Bad
    <3> QED  BY <3>1, LeastNat, Zenon
  <2>2. Reads(0)
    <3>1. data = f[0] \o data
      BY <1>3, <1>4, ConcatEmptySeq, Zenon
    <3>2. Previous(offsets, 0 + 1) = 0
      BY DEF Previous
    <3>3. SubSeq(offsets, 1, 0) = <<>>
      BY SubSeqEmpty
    <3> QED  BY <1>4, <1>6, <3>1, <3>2, <3>3, Zenon
  <2>3. k \in 1..n /\ k \in 0..n /\ k - 1 \in 0..n
    <3>1. k \in 0..n /\ k # 0
      BY <2>1, <2>2, Zenon
    <3> QED  BY <1>1, <3>1
  <2>4. Reads(k - 1)
    <3>1. ~(k <= k - 1)
      BY <2>3
    <3> HIDE DEF Reads
    <3> QED  BY <2>1, <2>3, <3>1, Zenon
  <2> DEFINE c == Coded(offsets, k)
  <2>5. PICK r0 \in Seq(Byte) :
          /\ data = f[k - 1] \o r0
          /\ turn[k - 1] = [data |-> r0, last |-> Previous(offsets, (k - 1) + 1),
                            ps |-> SubSeq(offsets, 1, k - 1)]
    BY <2>4, Zenon
  <2>6. PICK r1 \in Seq(Byte) : data = f[k] \o r1
    BY <1>5, <2>3, Zenon
  <2>7. f[k] = f[k - 1] \o c /\ c \in Seq(Byte) /\ f[k - 1] \in Seq(Byte)
    BY <1>2, <1>3, <2>3, Zenon
  <2> HIDE DEF c
  <2>8. c \o r1 \in Seq(Byte)
    BY <2>7
  <2>9. data = f[k - 1] \o (c \o r1)
    <3>1. (f[k - 1] \o c) \o r1 = f[k - 1] \o (c \o r1)
      BY <2>7, ConcatThree, Zenon
    <3> QED  BY <2>6, <2>7, <3>1, Zenon
  <2>10. r0 = c \o r1
    BY <2>5, <2>7, <2>8, <2>9, ConcatSimplifications, Zenon
  <2>11. turn[k] = [data |-> r1, last |-> offsets[k], ps |-> SubSeq(offsets, 1, k)]
    <3>1. (k - 1) + 1 = k
      BY <2>3
    <3>2. turn[k - 1] = [data |-> Coded(offsets, k) \o r1, last |-> Previous(offsets, k),
                         ps |-> SubSeq(offsets, 1, k - 1)]
      BY <2>5, <2>10, <3>1, Zenon DEF c
    <3>3. k \in 1..Len(offsets)
      BY <2>3, Zenon DEF n
    <3>4. ReadDelta(turn[k - 1]) = [data |-> r1, last |-> offsets[k], ps |-> SubSeq(offsets, 1, k)]
      BY <3>2, <3>3, ReadDeltaStep, Zenon
    <3> QED  BY <1>6, <2>3, <3>4, Zenon
  <2>12. Previous(offsets, k + 1) = offsets[k]
    <3>1. k + 1 # 1 /\ (k + 1) - 1 = k
      BY <2>3
    <3> QED  BY <3>1, Zenon DEF Previous
  <2>13. Reads(k)
    BY <2>6, <2>11, <2>12, Zenon
  <2> QED  BY <2>1, <2>13, Zenon
<1>8. i \in 0..n /\ i <= Len(data)
  BY <1>1, <1>4 DEF n
<1>9. Reads(i)
  BY <1>7, <1>8, Zenon
<1> QED  BY <1>8, <1>9, Zenon DEF data, f, turn

(* Without data the loop is over: its state stays as it is. *)
LEMMA ReadLoopRests ==
  ASSUME NEW data \in Seq(Byte), NEW n \in 0..Len(data), ReadLoop(data)[n].data = <<>>
  PROVE  ReadLoop(data)[Len(data)] = ReadLoop(data)[n]
<1> DEFINE turn == ReadLoop(data)
           Bad == {k \in n..Len(data) : turn[k] # turn[n]}
<1>1. Len(data) \in Nat /\ n \in Nat /\ n <= Len(data)
  OBVIOUS
<1>2. \A k \in 1..Len(data) : turn[k] = ReadDelta(turn[k - 1])
  BY <1>1, ReadTurns
<1>3. ReadDelta(turn[n]) = turn[n]
  BY Zenon DEF ReadDelta
<1> HIDE DEF turn
<1>4. Bad = {}
  <2> SUFFICES ASSUME Bad # {} PROVE FALSE
    BY Zenon
  <2>1. PICK k \in Bad : \A j \in Bad : k <= j
    <3>1. Bad \subseteq Nat
      BY <1>1
    <3> HIDE DEF Bad
    <3> QED  BY <3>1, LeastNat, Zenon
  <2>2. k \in 1..Len(data) /\ k - 1 \in n..Len(data) /\ ~(k <= k - 1)
    <3>1. k # n
      BY <2>1, Zenon
    <3> QED  BY <1>1, <2>1, <3>1
  <2>3. turn[k - 1] = turn[n]
    BY <2>1, <2>2, Zenon
  <2> QED  BY <1>2, <1>3, <2>1, <2>2, <2>3, Zenon
<1> QED  BY <1>1, <1>4 DEF turn

(* Posting lists: fromDeltas gives back the offsets whose differences were   *)
(* written, of any list, ascending or not, of any length.                   *)
THEOREM DeltasReadBack == \A offsets \in Seq(UInt32) : fromDeltas(Deltas(offsets)) = offsets
<1> SUFFICES ASSUME NEW offsets \in Seq(UInt32)
             PROVE  fromDeltas(Deltas(offsets)) = offsets
  BY Zenon
<1> DEFINE n == Len(offsets)
           data == Deltas(offsets)
<1>1. n \in 0..n
  OBVIOUS
<1>2. data = DeltasLoop(offsets)[n] /\ data \in Seq(Byte)
  BY <1>1, DeltasGrow, Zenon DEF Deltas
<1>3. n \in 0..Len(data)
  <2>1. n <= Len(data)
    BY <1>1, ReadLoopReads, Zenon
  <2> QED  BY <1>1, <2>1
<1>4. PICK rest \in Seq(Byte) :
        /\ data = DeltasLoop(offsets)[n] \o rest
        /\ ReadLoop(data)[n] =
             [data |-> rest, last |-> Previous(offsets, n + 1), ps |-> SubSeq(offsets, 1, n)]
  BY <1>1, ReadLoopReads, Zenon
<1> HIDE DEF data
<1>5. rest = <<>>
  <2>1. data = data \o rest
    BY <1>2, <1>4, Zenon
  <2> QED  BY <1>2, <2>1, ConcatEqualIffEmpty
<1>6. ReadLoop(data)[Len(data)] = ReadLoop(data)[n]
  BY <1>2, <1>3, <1>4, <1>5, ReadLoopRests
<1>7. SubSeq(offsets, 1, n) = offsets
  BY SubSeqFull, Zenon
<1> QED  BY <1>4, <1>6, <1>7 DEF fromDeltas, data

LEMMA SizedDeltasBytes ==
  ASSUME NEW offsets \in Seq(UInt32)
  PROVE  fromSizedDeltas(toSizedDeltas(offsets)) = offsets
<1> DEFINE size == PutUvarint(Len(offsets))
           data == Deltas(offsets)
<1>1. Len(offsets) \in Nat /\ Len(offsets) \in 0..Len(offsets)
  OBVIOUS
<1>2. size \in Seq(Byte)
  BY <1>1, PutUvarintBytes, Zenon
<1>3. data \in Seq(Byte)
  BY <1>1, DeltasGrow, Zenon DEF Deltas
<1>4. Uvarint(size \o data).sz = Len(size)
  BY <1>1, <1>3, UvarintReads, Zenon
<1>5. fromDeltas(data) = offsets
  BY DeltasReadBack, Zenon
<1>6. toSizedDeltas(offsets) = size \o data
  BY Zenon DEF toSizedDeltas
<1> HIDE DEF size, data
<1>7. Slice(size \o data, Len(size), Len(size \o data)) = data
  BY <1>2, <1>3, SliceOff, Zenon
<1> QED  BY <1>4, <1>5, <1>6, <1>7, Zenon DEF fromSizedDeltas

(* Newlines, rune offsets, ends of documents and repositories of documents   *)
(* are read back by fromSizedDeltas as toSizedDeltas was given them.        *)
THEOREM SizedDeltasReadBack ==
  \A offsets \in Seq(UInt32) : fromSizedDeltas(toSizedDeltas(offsets)) = offsets
BY SizedDeltasBytes, Zenon

(* The sections of a document, symbols for instance, come back from their    *)
(* bytes with the starts and ends they had.                                 *)
THEOREM DocSectionsReadBack ==
  \A secs \in Seq([Start : UInt32, End : UInt32]) : unmarshalDocSections(marshalDocSections(secs)) = secs
<1> SUFFICES ASSUME NEW secs \in Seq([Start : UInt32, End : UInt32])
             PROVE  unmarshalDocSections(marshalDocSections(secs)) = secs
  BY Zenon
<1> DEFINE n == Len(secs)
           ints == [i \in 1..(2 * n) |-> IF i % 2 = 1 THEN secs[(i + 1) \div 2].Start
                                         ELSE secs[i \div 2].End]
<1>1. n \in Nat
  OBVIOUS
<1>2. \A i \in 1..n : secs[i].Start \in UInt32 /\ secs[i].End \in UInt32
                     /\ secs[i] = [Start |-> secs[i].Start, End |-> secs[i].End]
  <2> SUFFICES ASSUME NEW i \in 1..n
               PROVE  /\ secs[i].Start \in UInt32 /\ secs[i].End \in UInt32
                      /\ secs[i] = [Start |-> secs[i].Start, End |-> secs[i].End]
    BY Zenon
  <2>1. secs[i] \in [Start : UInt32, End : UInt32]
    BY ElementOfSeq, Zenon
  <2> DEFINE sec == secs[i]
  <2> HIDE DEF sec
  <2>2. sec \in [Start : UInt32, End : UInt32]
    BY <2>1, Zenon DEF sec
  <2>3. sec.Start \in UInt32 /\ sec.End \in UInt32 /\ sec = [Start |-> sec.Start, End |-> sec.End]
    BY <2>2, Zenon
  <2> QED  BY <2>3, Zenon DEF sec
<1>3. secs = [i \in 1..n |-> secs[i]]
  OBVIOUS
<1> HIDE DEF n
<1>4. \A i \in 1..(2 * n) : ints[i] \in UInt32
  <2> SUFFICES ASSUME NEW i \in 1..(2 * n) PROVE ints[i] \in UInt32
    BY Zenon
  <2>1. CASE i % 2 = 1
    <3>1. (i + 1) \div 2 \in 1..n
      BY <1>1, <2>1
    <3> QED  BY <1>2, <2>1, <3>1, Zenon
  <2>2. CASE i % 2 # 1
    <3>1. i \div 2 \in 1..n
      BY <1>1, <2>2
    <3> QED  BY <1>2, <2>2, <3>1, Zenon
  <2> QED  BY <2>1, <2>2, Zenon
<1>5. ints \in Seq(UInt32) /\ Len(ints) = 2 * n
  BY <1>1, <1>4
<1>6. \A i \in 1..n : ints[2 * i - 1] = secs[i].Start /\ ints[2 * i] = secs[i].End
  <2> SUFFICES ASSUME NEW i \in 1..n
               PROVE  ints[2 * i - 1] = secs[i].Start /\ ints[2 * i] = secs[i].End
    BY Zenon
  <2>1. /\ 2 * i - 1 \in 1..(2 * n) /\ (2 * i - 1) % 2 = 1 /\ ((2 * i - 1) + 1) \div 2 = i
        /\ 2 * i \in 1..(2 * n) /\ (2 * i) % 2 # 1 /\ (2 * i) \div 2 = i
    BY <1>1
  <2> QED  BY <2>1, Zenon
<1>7. marshalDocSections(secs) = toSizedDeltas(ints)
  BY Zenon DEF marshalDocSections, n
<1> HIDE DEF ints
<1>8. fromSizedDeltas(marshalDocSections(secs)) = ints
  BY <1>5, <1>7, SizedDeltasBytes, Zenon
<1>9. Len(ints) \div 2 = n
  BY <1>1, <1>5
<1>10. unmarshalDocSections(marshalDocSections(secs)) =
         [i \in 1..n |-> [Start |-> ints[2 * i - 1], End |-> ints[2 * i]]]
  BY <1>8, <1>9, Zenon DEF unmarshalDocSections
<1> QED  BY <1>2, <1>3, <1>6, <1>10, Zenon

(* newSearchableString appends to a posting list the difference from the     *)
(* last offset of its ngram: the list is always that of all its offsets, so *)
(* that DeltasReadBack holds of it.                                         *)
THEOREM PostingsExtend ==
  \A offsets \in Seq(UInt32), p \in UInt32 :
    Deltas(Append(offsets, p)) =
      Deltas(offsets) \o PutUvarint(Delta(p, IF offsets = <<>> THEN 0 ELSE offsets[Len(offsets)]))
<1> SUFFICES ASSUME NEW offsets \in Seq(UInt32), NEW p \in UInt32
             PROVE  Deltas(Append(offsets, p)) =
                      Deltas(offsets) \o PutUvarint(Delta(p, IF offsets = <<>> THEN 0 ELSE offsets[Len(offsets)]))
  BY Zenon
<1> DEFINE n == Len(offsets)
           longer == Append(offsets, p)
           f == DeltasLoop(offsets)
           g == DeltasLoop(longer)
           Bad == {k \in 0..n : g[k] # f[k]}
<1>1. n \in Nat /\ longer \in Seq(UInt32) /\ Len(longer) = n + 1
  OBVIOUS
<1>2. longer[n + 1] = p /\ \A k \in 1..n : longer[k] = offsets[k]
  OBVIOUS
<1>3. f[0] = <<>> /\ \A k \in 1..n : f[k] = f[k - 1] \o Coded(offsets, k)
  BY <1>1, DeltasTurns
<1>4. g[0] = <<>> /\ \A k \in 1..(n + 1) : g[k] = g[k - 1] \o Coded(longer, k)
  <2> HIDE DEF n, longer
  <2>1. g = [k \in 0..(n + 1) |-> IF k = 0 THEN <<>> ELSE g[k - 1] \o Coded(longer, k)]
    BY <1>1, DeltasTurns, Zenon
  <2> HIDE DEF g
  <2> DEFINE Step(q, k) == q \o Coded(longer, k)
  <2>2. g = [k \in 0..(n + 1) |-> IF k = 0 THEN <<>> ELSE Step(g[k - 1], k)]
    BY <2>1, Zenon
  <2> HIDE DEF Step
  <2>3. g[0] = <<>> /\ \A k \in 1..(n + 1) : g[k] = Step(g[k - 1], k)
    BY <1>1, <2>2
  <2> QED  BY <2>3, Zenon DEF Step
<1>5. Deltas(offsets) = f[n] /\ Deltas(longer) = g[n + 1]
  BY <1>1, Zenon DEF Deltas
<1>6. offsets = <<>> <=> n = 0
  BY EmptySeq, Zenon
<1> HIDE DEF n, longer, f, g
<1>7. \A k \in 1..n : Coded(longer, k) = Coded(offsets, k)
  <2> SUFFICES ASSUME NEW k \in 1..n PROVE Coded(longer, k) = Coded(offsets, k)
    BY Zenon
  <2>1. k # 1 => k - 1 \in 1..n
    BY <1>1
  <2> QED  BY <1>2, <2>1, Zenon DEF Coded, Previous
<1>8. Bad = {}
  <2> SUFFICES ASSUME Bad # {} PROVE FALSE
    BY Zenon
  <2>1. PICK k \in Bad : \A j \in Bad : k <= j
    <3>1. Bad \subseteq Nat
      BY <1>1
    <3> HIDE DEF Bad
    <3> QED  BY <3>1, LeastNat, Zenon
  <2>2. k # 0
    BY <1>3, <1>4, <2>1, Zenon
  <2>3. k \in 1..n /\ k \in 1..(n + 1) /\ k - 1 \in 0..n /\ ~(k <= k - 1)
    BY <1>1, <2>1, <2>2
  <2>4. g[k - 1] = f[k - 1]
    BY <2>1, <2>3, Zenon
  <2>5. g[k] = f[k]
    BY <1>3, <1>4, <1>7, <2>3, <2>4, Zenon
  <2> QED  BY <2>1, <2>5, Zenon
<1>9. g[n + 1] = f[n] \o Coded(longer, n + 1)
  <2>1. n \in 0..n /\ n + 1 \in 1..(n + 1) /\ (n + 1) - 1 = n
    BY <1>1
  <2>2. g[n] = f[n]
    BY <1>8, <2>1, Zenon
  <2> QED  BY <1>4, <2>1, <2>2, Zenon
<1>10. Coded(longer, n + 1) = PutUvarint(Delta(p, IF offsets = <<>> THEN 0 ELSE offsets[n]))
  <2>1. (n + 1 = 1 <=> n = 0) /\ (n + 1) - 1 = n /\ (n # 0 => n \in 1..n)
    BY <1>1
  <2>2. Previous(longer, n + 1) = IF offsets = <<>> THEN 0 ELSE offsets[n]
    BY <1>2, <1>6, <2>1, Zenon DEF Previous
  <2> QED  BY <1>2, <2>2, Zenon DEF Coded
<1> QED  BY <1>5, <1>9, <1>10, Zenon DEF n, longer

\* A part of a sequence.
LEMMA SliceParts ==
  ASSUME NEW S, NEW in \in Seq(S), NEW from \in Nat, NEW to \in from..Len(in)
  PROVE  /\ Slice(in, from, to) \in Seq(S) /\ Len(Slice(in, from, to)) = to - from
         /\ \A i \in 1..(to - from) : Slice(in, from, to)[i] = in[from + i]
<1> DEFINE t == SubSeq(in, from + 1, to)
<1>1. t \in Seq(S) /\ Len(t) = to - from
  BY SMT
<1>2. \A i \in 1..(to - from) : t[i] = in[from + i]
  BY SMT
<1>. QED  BY <1>1, <1>2, Zenon DEF Slice

-----------------------------------------------------------------------------
(***************************************************************************)
(* Loops as functions from the number of turns.                            *)
(***************************************************************************)
Steps(S, m, step) == m \in Nat /\ step \in [1..m -> [S -> S]]

IsRun(g, S, s0, m, step) == g \in [0..m -> S] /\ g[0] = s0 /\ \A i \in 1..m : g[i] = step[i][g[i - 1]]

\* A loop whose states stay in S has a state after each of its turns.
LEMMA TurnsExist ==
  ASSUME NEW S, NEW s0 \in S, NEW m, NEW step, Steps(S, m, step)
  PROVE  \E g : IsRun(g, S, s0, m, step)
<1>0. m \in Nat /\ step \in [1..m -> [S -> S]]
  BY Zenon DEF Steps
<1> DEFINE Runs(k, g) == g \in [0..m -> S] /\ g[0] = s0 /\ \A i \in 1..k : g[i] = step[i][g[i - 1]]
           G == {k \in 0..m : \E g : Runs(k, g)}
<1>1. 0 \in G
  <2>1. Runs(0, [i \in 0..m |-> s0])
    BY <1>0, SMT
  <2>2. 0 \in 0..m
    BY <1>0, SMT
  <2> HIDE DEF Runs
  <2>. QED  BY <2>1, <2>2, Zenon
<1>2. ASSUME NEW k \in 1..m, k - 1 \in G  PROVE k \in G
  <2>1. PICK g : Runs(k - 1, g)
    BY <1>2, Zenon
  <2>2. k \in 0..m /\ k - 1 \in 0..m /\ 0 \in 0..m /\ k # 0
    BY <1>0, SMT
  <2>3. step[k] \in [S -> S] /\ g[k - 1] \in S
    BY <1>0, <2>1, <2>2, Zenon
  <2>4. step[k][g[k - 1]] \in S
    BY <2>3, Zenon
  <2> DEFINE h == [i \in 0..m |-> IF i = k THEN step[k][g[k - 1]] ELSE g[i]]
  <2>5. h \in [0..m -> S] /\ h[0] = s0
    BY <2>1, <2>2, <2>4, Zenon
  <2>6. ASSUME NEW i \in 1..k  PROVE h[i] = step[i][h[i - 1]]
    <3>1. i - 1 \in 0..m /\ i - 1 # k /\ i \in 0..m /\ (i # k => i \in 1..(k - 1))
      BY <1>0, SMT
    <3>2. h[i - 1] = g[i - 1]
      BY <3>1, Zenon
    <3>3. CASE i = k
      BY <3>1, <3>2, <3>3, Zenon
    <3>4. CASE i # k
      <4>1. h[i] = g[i] /\ g[i] = step[i][g[i - 1]]
        BY <3>1, <3>4, <2>1, Zenon
      <4>. QED  BY <4>1, <3>2, Zenon
    <3>. QED  BY <3>3, <3>4, Zenon
  <2> HIDE DEF h
  <2>7. Runs(k, h)
    BY <2>5, <2>6, Zenon
  <2> HIDE DEF Runs
  <2>. QED  BY <2>2, <2>7, Zenon
<1>3. m \in 0..m
  BY <1>0, SMT
<1>4. m \in G
  <2> HIDE DEF G
  <2>. QED  BY <1>0, <1>1, <1>2, <1>3, UpTo, Zenon
<1>. QED  BY <1>4, Zenon DEF IsRun

Descends(S, mu, step, m, g) ==
  /\ mu \in [S -> Nat] /\ step \in [S -> S] /\ m \in Nat /\ g \in [0..m -> S]
  /\ \A i \in 1..m : g[i] = step[g[i - 1]]
  /\ \A s \in S : step[s] = s \/ mu[step[s]] < mu[s]
  /\ mu[g[0]] <= m

Ended(step, m, g) == step[g[m]] = g[m]

\* A loop in which every turn that changes the state brings a measure down
\* has ended after as many turns as the measure says.
LEMMA LoopEnds ==
  ASSUME NEW S, NEW mu, NEW step, NEW m, NEW g, Descends(S, mu, step, m, g)
  PROVE  Ended(step, m, g)
<1>0. /\ mu \in [S -> Nat] /\ step \in [S -> S] /\ m \in Nat /\ g \in [0..m -> S]
      /\ \A i \in 1..m : g[i] = step[g[i - 1]]
      /\ \A s \in S : step[s] = s \/ mu[step[s]] < mu[s]
      /\ mu[g[0]] <= m
  BY Zenon DEF Descends
<1> DEFINE Fixed(i) == step[g[i]] = g[i]
           G == {i \in 0..m : Fixed(i) \/ mu[g[i]] <= m - i}
<1>1. 0 \in G
  <2>1. 0 \in 0..m /\ m - 0 = m
    BY <1>0, SMT
  <2>. QED  BY <1>0, <2>1, Zenon
<1>2. ASSUME NEW i \in 1..m, i - 1 \in G  PROVE i \in G
  <2>1. i \in 0..m /\ i - 1 \in 0..m
    BY <1>0, SMT
  <2>2. g[i - 1] \in S /\ g[i] \in S /\ g[i] = step[g[i - 1]]
    BY <1>0, <2>1, Zenon
  <2>3. CASE Fixed(i - 1)
    BY <2>1, <2>2, <2>3, Zenon
  <2>4. CASE ~Fixed(i - 1)
    <3>1. mu[g[i - 1]] <= m - (i - 1) /\ mu[g[i]] < mu[g[i - 1]]
      BY <1>0, <1>2, <2>2, <2>4, Zenon
    <3>2. mu[g[i - 1]] \in Nat /\ mu[g[i]] \in Nat
      BY <1>0, <2>2, Zenon
    <3>3. mu[g[i]] <= m - i
      BY <1>0, <3>1, <3>2, SMT
    <3>. QED  BY <2>1, <3>3, Zenon
  <2>. QED  BY <2>3, <2>4
<1>3. m \in 0..m
  BY <1>0, SMT
<1>4. m \in G
  <2> HIDE DEF G
  <2>. QED  BY <1>0, <1>1, <1>2, <1>3, UpTo, Zenon
<1>5. CASE ~Fixed(m)
  <2>1. mu[g[m]] <= m - m /\ g[m] \in S
    BY <1>0, <1>3, <1>4, <1>5, Zenon
  <2>2. mu[g[m]] \in Nat /\ step[g[m]] \in S
    BY <1>0, <2>1, Zenon
  <2>3. mu[step[g[m]]] \in Nat
    BY <1>0, <2>2, Zenon
  <2>4. ~(mu[step[g[m]]] < mu[g[m]])
    BY <1>0, <2>1, <2>2, <2>3, SMT
  <2>. QED  BY <1>0, <1>5, <2>1, <2>4, Zenon
<1>. QED  BY <1>5, Zenon DEF Ended

-----------------------------------------------------------------------------
(***************************************************************************)
(* nextFileIndex.                                                          *)
(***************************************************************************)
Ascending(ends) == \A i, j \in 1..Len(ends) : i <= j => ends[i] <= ends[j]

\* The documents from f0 on that end before the offset, up to s.f.
Passed(s, f0, offset, ends) ==
  /\ s \in [f : f0..Len(ends), d : Nat \ {0}]
  /\ \A i \in f0..(s.f - 1) : ends[i + 1] <= offset

LEMMA GallopNumbers ==
  ASSUME NEW n \in Nat, NEW f0 \in 0..n, NEW a \in f0..n, NEW b \in Nat \ {0}
  PROVE  /\ a \in Nat
         /\ a + b < n => /\ a + b \in f0..n /\ b * 2 \in Nat \ {0} /\ a + b + 1 \in 1..n /\ a + b # a
                        /\ 2 * (n - (a + b)) + b * 2 < 2 * (n - a) + b
                        /\ \A i \in f0..((a + b) - 1) : i + 1 \in 1..n /\ i + 1 <= a + b + 1
         /\ b > 1 => /\ b \div 4 + 1 \in Nat \ {0} /\ b \div 4 + 1 # b
                    /\ 2 * (n - a) + (b \div 4 + 1) < 2 * (n - a) + b
         /\ a < n => /\ a + 1 \in f0..n /\ a + 1 \in 1..n /\ a + 1 # a
                    /\ 2 * (n - (a + 1)) + b < 2 * (n - a) + b
                    /\ \A i \in f0..((a + 1) - 1) : i = a \/ i \in f0..(a - 1)
OBVIOUS

LEMMA StepRecord ==
  ASSUME NEW F, NEW D, NEW x \in F, NEW y \in D, NEW s, s = [f |-> x, d |-> y]
  PROVE  s.f = x /\ s.d = y /\ s \in [f : F, d : D]
OBVIOUS

LEMMA GallopStep ==
  ASSUME NEW ends \in Seq(Nat), Ascending(ends), NEW offset \in Nat, NEW f0 \in 0..Len(ends),
         NEW s, Passed(s, f0, offset, ends), NEW t, t = Gallop(s, offset, ends)
  PROVE  /\ Passed(t, f0, offset, ends)
         /\ t = s => s.f >= Len(ends) \/ ends[s.f + 1] > offset
         /\ t = s \/ 2 * (Len(ends) - t.f) + t.d < 2 * (Len(ends) - s.f) + s.d
<1> DEFINE n == Len(ends)
           a == s.f
           b == s.d
<1>1. n \in Nat /\ a \in f0..n /\ b \in Nat \ {0} /\ f0 \in 0..n
  BY DEF Passed
<1>2. s = [f |-> a, d |-> b]
  BY DEF Passed
<1>3. \A i \in f0..(a - 1) : ends[i + 1] <= offset
  BY Zenon DEF Passed
<1>4. \A i \in 1..n : ends[i] \in Nat
  OBVIOUS
<1>5. \A i, j \in 1..n : i <= j => ends[i] <= ends[j]
  BY Zenon DEF Ascending
<1>6. t = IF a >= n \/ ends[a + 1] > offset THEN s
          ELSE IF a + b < n /\ ends[a + b + 1] <= offset THEN [f |-> a + b, d |-> b * 2]
          ELSE IF b > 1 THEN [f |-> a, d |-> b \div 4 + 1] ELSE [f |-> a + 1, d |-> b]
  <2>1. [s EXCEPT !.d = s.d \div 4 + 1] = [f |-> a, d |-> b \div 4 + 1] /\ [s EXCEPT !.f = s.f + 1] = [f |-> a + 1, d |-> b]
    BY <1>2
  <2>. QED  BY <2>1 DEF Gallop
<1>7. ASSUME NEW c \in f0..n, NEW e \in Nat \ {0}, t = [f |-> c, d |-> e], c # a \/ e # b,
             2 * (n - c) + e < 2 * (n - a) + b, \A i \in f0..(c - 1) : ends[i + 1] <= offset
      PROVE  Passed(t, f0, offset, ends) /\ t # s /\ 2 * (n - t.f) + t.d < 2 * (n - a) + b
  <2>1. t.f = c /\ t.d = e /\ t \in [f : f0..n, d : Nat \ {0}]
    <3>1. c \in f0..n /\ e \in Nat \ {0} /\ t = [f |-> c, d |-> e]
      BY <1>7
    <3> DEFINE F == f0..n
               D == Nat \ {0}
    <3> HIDE DEF F, D
    <3>. QED  BY <3>1, StepRecord DEF F, D
  <2>2. Passed(t, f0, offset, ends)
    BY <1>7, <2>1, Zenon DEF Passed
  <2>3. t # s
    BY <1>7, <2>1, Zenon
  <2>. QED  BY <1>7, <2>1, <2>2, <2>3
<1>8. CASE a >= n \/ ends[a + 1] > offset
  BY <1>6, <1>8, Zenon
<1>9. CASE ~(a >= n \/ ends[a + 1] > offset) /\ a + b < n /\ ends[a + b + 1] <= offset
  <2>1. t = [f |-> a + b, d |-> b * 2]
    BY <1>6, <1>9, Zenon
  <2> HIDE DEF n, a, b
  <2>2. /\ a + b \in f0..n /\ b * 2 \in Nat \ {0} /\ a + b + 1 \in 1..n /\ a + b # a
        /\ 2 * (n - (a + b)) + b * 2 < 2 * (n - a) + b
        /\ \A i \in f0..((a + b) - 1) : i + 1 \in 1..n /\ i + 1 <= a + b + 1
    BY <1>1, <1>9, GallopNumbers, Zenon
  <2>3. ASSUME NEW i \in f0..((a + b) - 1)  PROVE ends[i + 1] <= offset
    <3>1. ends[i + 1] <= ends[a + b + 1] /\ ends[i + 1] \in Nat /\ ends[a + b + 1] \in Nat
      BY <2>2, <1>4, <1>5, Zenon
    <3>. QED  BY <3>1, <1>9, SMT
  <2>4. Passed(t, f0, offset, ends) /\ t # s /\ 2 * (n - t.f) + t.d < 2 * (n - a) + b
    <3> DEFINE c == a + b
               e == b * 2
    <3>1. /\ c \in f0..n /\ e \in Nat \ {0} /\ t = [f |-> c, d |-> e] /\ c # a
          /\ 2 * (n - c) + e < 2 * (n - a) + b /\ \A i \in f0..(c - 1) : ends[i + 1] <= offset
      BY <2>1, <2>2, <2>3
    <3> HIDE DEF c, e
    <3>. QED  BY <1>7, <3>1, Zenon
  <2>. QED  BY <2>4, Zenon DEF n, a, b
<1>10. CASE ~(a >= n \/ ends[a + 1] > offset) /\ ~(a + b < n /\ ends[a + b + 1] <= offset) /\ b > 1
  <2>1. t = [f |-> a, d |-> b \div 4 + 1]
    BY <1>6, <1>10, Zenon
  <2> HIDE DEF n, a, b
  <2>2. b \div 4 + 1 \in Nat \ {0} /\ b \div 4 + 1 # b /\ 2 * (n - a) + (b \div 4 + 1) < 2 * (n - a) + b
    BY <1>1, <1>10, GallopNumbers, Zenon
  <2>3. Passed(t, f0, offset, ends) /\ t # s /\ 2 * (n - t.f) + t.d < 2 * (n - a) + b
    BY <1>1, <1>3, <1>7, <2>1, <2>2, Zenon
  <2>. QED  BY <2>3, Zenon DEF n, a, b
<1>11. CASE ~(a >= n \/ ends[a + 1] > offset) /\ ~(a + b < n /\ ends[a + b + 1] <= offset) /\ ~(b > 1)
  <2>1. t = [f |-> a + 1, d |-> b]
    BY <1>6, <1>11, Zenon
  <2> HIDE DEF n, a, b
  <2>2. a < n
    BY <1>1, <1>11, SMT
  <2>3. /\ a + 1 \in f0..n /\ a + 1 \in 1..n /\ a + 1 # a
        /\ 2 * (n - (a + 1)) + b < 2 * (n - a) + b
        /\ \A i \in f0..((a + 1) - 1) : i = a \/ i \in f0..(a - 1)
    BY <1>1, <2>2, GallopNumbers, Zenon
  <2>4. ends[a + 1] <= offset
    <3>1. ends[a + 1] \in Nat
      BY <1>4, <2>3, Zenon
    <3>. QED  BY <3>1, <1>11, SMT
  <2>5. \A i \in f0..((a + 1) - 1) : ends[i + 1] <= offset
    BY <2>3, <2>4, <1>3, Zenon
  <2>6. Passed(t, f0, offset, ends) /\ t # s /\ 2 * (n - t.f) + t.d < 2 * (n - a) + b
    <3> DEFINE c == a + 1
    <3>1. /\ c \in f0..n /\ t = [f |-> c, d |-> b] /\ c # a
          /\ 2 * (n - c) + b < 2 * (n - a) + b /\ \A i \in f0..(c - 1) : ends[i + 1] <= offset
      BY <2>1, <2>3, <2>5
    <3> HIDE DEF c
    <3>. QED  BY <1>1, <1>7, <3>1, Zenon
  <2>. QED  BY <2>6, Zenon DEF n, a, b
<1>. QED  BY <1>8, <1>9, <1>10, <1>11, Zenon

PassedStates(f0, offset, ends) == {s \in [f : f0..Len(ends), d : Nat \ {0}] : Passed(s, f0, offset, ends)}

LEMMA GallopTurns ==
  ASSUME NEW ends \in Seq(Nat), Ascending(ends), NEW offset \in Nat, NEW f0 \in 0..Len(ends),
         NEW m, m = 2 * Len(ends) + 1
  PROVE  /\ m \in Nat /\ GallopLoop(offset, f0, ends) \in [0..m -> PassedStates(f0, offset, ends)]
         /\ GallopLoop(offset, f0, ends)[0] = [f |-> f0, d |-> 1]
         /\ \A k \in 1..m : GallopLoop(offset, f0, ends)[k] = Gallop(GallopLoop(offset, f0, ends)[k - 1], offset, ends)
<1> DEFINE S == PassedStates(f0, offset, ends)
           h == GallopLoop(offset, f0, ends)
           s0 == [f |-> f0, d |-> 1]
           G(s) == Gallop(s, offset, ends)
           step == [k \in 1..m |-> [s \in S |-> G(s)]]
           Turns(g) == g = [k \in 0..m |-> IF k = 0 THEN s0 ELSE G(g[k - 1])]
<1>1. m \in Nat /\ m \in 0..m /\ f0 \in f0..Len(ends) /\ 1 \in Nat \ {0}
  OBVIOUS
<1>2. s0 \in S
  <2>1. s0.f = f0 /\ s0 \in [f : f0..Len(ends), d : Nat \ {0}]
    BY <1>1, StepRecord
  <2>2. \A i \in f0..(f0 - 1) : FALSE
    OBVIOUS
  <2>. QED  BY <2>1, <2>2, Zenon DEF Passed, PassedStates
<1>3. \A s \in S : G(s) \in S
  <2> SUFFICES ASSUME NEW s \in S  PROVE G(s) \in S
    BY Zenon
  <2>1. Passed(G(s), f0, offset, ends)
    BY GallopStep, Zenon DEF PassedStates
  <2>. QED  BY <2>1, Zenon DEF Passed, PassedStates
<1> HIDE DEF s0, G, S
<1>4. Steps(S, m, step)
  BY <1>1, <1>3, Zenon DEF Steps
<1>5. PICK g : g \in [0..m -> S] /\ g[0] = s0 /\ \A k \in 1..m : g[k] = step[k][g[k - 1]]
  <2>1. \E g : IsRun(g, S, s0, m, step)
    <3> HIDE DEF step
    <3>. QED  BY <1>2, <1>4, TurnsExist, Zenon
  <2>. QED  BY <2>1, Zenon DEF IsRun
<1>6. Turns(g)
  <2>1. \A k \in 0..m : k = 0 \/ (k \in 1..m /\ k - 1 \in 0..m)
    BY <1>1
  <2>2. \A k \in 1..m : k - 1 \in 0..m
    BY <1>1
  <2>3. \A k \in 1..m : g[k] = G(g[k - 1])
    BY <1>5, <2>2, Zenon
  <2>. QED  BY <1>5, <2>1, <2>3, Zenon
<1>7. Turns(h)
  <2>1. h = CHOOSE x : Turns(x)
    BY Zenon DEF GallopLoop, s0, G, h
  <2> HIDE DEF Turns
  <2>. QED  BY <2>1, <1>6, Zenon
<1> HIDE DEF h
<1>8. h[0] = s0 /\ \A k \in 1..m : h[k] = G(h[k - 1])
  <2>1. 0 \in 0..m /\ \A k \in 1..m : k \in 0..m /\ k # 0
    BY <1>1
  <2>. QED  BY <1>7, <2>1, Zenon
<1>9. \A k \in 0..m : h[k] \in S
  <2> DEFINE H == {k \in 0..m : h[k] \in S}
  <2>1. 0 \in H
    BY <1>1, <1>2, <1>8
  <2>2. \A k \in 1..m : k - 1 \in H => k \in H
    <3>1. \A k \in 1..m : k \in 0..m
      BY <1>1
    <3>. QED  BY <1>3, <1>8, <3>1, Zenon
  <2>3. \A k \in 0..m : k \in H
    <3> HIDE DEF H
    <3>. QED  BY <1>1, <2>1, <2>2, UpTo, Zenon
  <2>. QED  BY <2>3, Zenon
<1>10. h \in [0..m -> S]
  <2>1. h = [k \in 0..m |-> h[k]]
    BY <1>7, Zenon
  <2>. QED  BY <2>1, <1>9, Zenon
<1>. QED  BY <1>1, <1>8, <1>10, Zenon DEF s0, G, S, h

(***************************************************************************)
(* nextFileIndex of matchiter.go, however its steps grow and shrink, stops *)
(* at the first document from f on that ends after the offset: it passes   *)
(* over none that does, and it does not stop before.                       *)
(***************************************************************************)
THEOREM NextFileFound ==
  ASSUME NEW ends \in Seq(Nat), Ascending(ends), NEW offset \in Nat, NEW f0 \in 0..Len(ends),
         NEW j, j = nextFileIndex(offset, f0, ends)
  PROVE  /\ j \in f0..Len(ends)
         /\ \A i \in f0..(j - 1) : ends[i + 1] <= offset
         /\ j < Len(ends) => ends[j + 1] > offset
<1> DEFINE n == Len(ends)
           m == 2 * n + 1
           S == PassedStates(f0, offset, ends)
           h == GallopLoop(offset, f0, ends)
           step == [s \in S |-> Gallop(s, offset, ends)]
           mu == [s \in S |-> 2 * (n - s.f) + s.d]
<1>1. /\ m \in Nat /\ h \in [0..m -> S] /\ h[0] = [f |-> f0, d |-> 1]
      /\ \A k \in 1..m : h[k] = Gallop(h[k - 1], offset, ends)
  BY GallopTurns, Zenon
<1>2. n \in Nat /\ f0 \in 0..n /\ m \in 0..m /\ 0 \in 0..m /\ \A k \in 1..m : k - 1 \in 0..m
  BY <1>1
<1>3. \A s \in S : /\ Gallop(s, offset, ends) \in S
                   /\ Gallop(s, offset, ends) = s => s.f >= n \/ ends[s.f + 1] > offset
                   /\ Gallop(s, offset, ends) = s \/ 2 * (n - Gallop(s, offset, ends).f) + Gallop(s, offset, ends).d < 2 * (n - s.f) + s.d
  <2> SUFFICES ASSUME NEW s \in S
               PROVE  /\ Gallop(s, offset, ends) \in S
                      /\ Gallop(s, offset, ends) = s => s.f >= n \/ ends[s.f + 1] > offset
                      /\ Gallop(s, offset, ends) = s \/ 2 * (n - Gallop(s, offset, ends).f) + Gallop(s, offset, ends).d < 2 * (n - s.f) + s.d
    BY Zenon
  <2>1. Passed(s, f0, offset, ends)
    BY Zenon DEF PassedStates
  <2>2. /\ Passed(Gallop(s, offset, ends), f0, offset, ends)
        /\ Gallop(s, offset, ends) = s => s.f >= n \/ ends[s.f + 1] > offset
        /\ Gallop(s, offset, ends) = s \/ 2 * (n - Gallop(s, offset, ends).f) + Gallop(s, offset, ends).d < 2 * (n - s.f) + s.d
    BY <2>1, GallopStep, Zenon
  <2>3. Gallop(s, offset, ends) \in [f : f0..n, d : Nat \ {0}]
    BY <2>2, Zenon DEF Passed
  <2>. QED  BY <2>2, <2>3, Zenon DEF PassedStates
<1>4. \A s \in S : s.f \in f0..n /\ s.d \in Nat /\ Passed(s, f0, offset, ends)
  BY DEF PassedStates
<1> HIDE DEF h
<1>5. step \in [S -> S]
  BY <1>3, Zenon
<1>6. mu \in [S -> Nat]
  <2>1. \A s \in S : 2 * (n - s.f) + s.d \in Nat
    <3> HIDE DEF S, n
    <3>. QED  BY <1>2, <1>4, SMT
  <2> HIDE DEF S
  <2>. QED  BY <2>1, Zenon
<1>7. \A s \in S : step[s] = s \/ mu[step[s]] < mu[s]
  <2> HIDE DEF S, n
  <2>. QED  BY <1>3, Zenon
<1>8. \A k \in 1..m : h[k] = step[h[k - 1]]
  <2> HIDE DEF S, m
  <2>. QED  BY <1>1, <1>2, Zenon
<1>9. mu[h[0]] <= m
  <2>1. h[0] \in S /\ h[0].f = f0 /\ h[0].d = 1
    BY <1>1, <1>2
  <2>2. mu[h[0]] = 2 * (n - f0) + 1
    <3> HIDE DEF S, n
    <3>. QED  BY <2>1
  <2>3. 2 * (n - f0) + 1 <= m
    <3> HIDE DEF n
    <3>. QED  BY <1>2
  <2>. QED  BY <2>2, <2>3, Zenon
<1>10. step[h[m]] = h[m]
  <2> HIDE DEF S, m, step, mu
  <2>1. Descends(S, mu, step, m, h)
    BY <1>1, <1>5, <1>6, <1>7, <1>8, <1>9, Zenon DEF Descends
  <2>2. Ended(step, m, h)
    BY <2>1, LoopEnds, Zenon
  <2>. QED  BY <2>2, Zenon DEF Ended
<1>11. h[m] \in S /\ Gallop(h[m], offset, ends) = h[m] /\ j = h[m].f
  <2>1. h[m] \in S
    <3> HIDE DEF S, m
    <3>. QED  BY <1>1, <1>2, Zenon
  <2>2. Gallop(h[m], offset, ends) = h[m]
    <3> HIDE DEF S, m
    <3>. QED  BY <2>1, <1>10, Zenon
  <2>3. j = h[m].f
    BY Zenon DEF nextFileIndex, h
  <2>. QED  BY <2>1, <2>2, <2>3, Zenon
<1>12. Passed(h[m], f0, offset, ends) /\ j \in f0..n /\ (j >= n \/ ends[j + 1] > offset)
  BY <1>3, <1>4, <1>11, Zenon
<1>13. j < n => ends[j + 1] > offset
  <2> HIDE DEF n, m
  <2>. QED  BY <1>2, <1>12
<1>. QED  BY <1>11, <1>12, <1>13, Zenon DEF Passed

-----------------------------------------------------------------------------
(***************************************************************************)
(* compressedPostingIterator.                                              *)
(***************************************************************************)
Iterators == [it : {"compressed"}, first : UInt32, blob : Seq(Byte)]

\* The iterator has decoded the j-th of the postings ps, and not the later ones.
Stands(i, ps, j) ==
  /\ i \in Iterators /\ j \in 1..Len(ps)
  /\ i.first = ps[j]
  /\ Deltas(ps) = DeltasLoop(ps)[j] \o i.blob

\* What follows the j-th posting starts with the bytes of the next.
LEMMA NextCoded ==
  ASSUME NEW ps \in Seq(UInt32), NEW j \in 0..Len(ps), NEW blob \in Seq(Byte), Deltas(ps) = DeltasLoop(ps)[j] \o blob
  PROVE  /\ j = Len(ps) => blob = <<>>
         /\ j < Len(ps) => \E rest \in Seq(Byte) : /\ blob = Coded(ps, j + 1) \o rest
                                                   /\ Deltas(ps) = DeltasLoop(ps)[j + 1] \o rest
<1> DEFINE f == DeltasLoop(ps)
           n == Len(ps)
<1>1. n \in Nat /\ j \in Nat /\ (j < n => j + 1 \in 1..n /\ j + 1 \in 0..n /\ j + 1 # 0 /\ (j + 1) - 1 = j)
  OBVIOUS
<1>2. f[j] \in Seq(Byte)
  BY DeltasGrow, Zenon
<1>3. j = n => blob = <<>>
  <2> SUFFICES ASSUME j = n  PROVE blob = <<>>
    BY Zenon
  <2>1. f[j] = f[j] \o blob
    BY Zenon DEF Deltas
  <2> HIDE DEF f
  <2>. QED  BY <1>2, <2>1, ConcatEqualIffEmpty
<1>4. ASSUME j < n
      PROVE  \E rest \in Seq(Byte) : blob = Coded(ps, j + 1) \o rest /\ Deltas(ps) = f[j + 1] \o rest
  <2>1. PICK rest \in Seq(Byte) : Deltas(ps) = f[j + 1] \o rest
    BY <1>1, <1>4, DeltasPrefix, Zenon
  <2>2. f[j + 1] = f[j] \o Coded(ps, j + 1)
    <3>1. f[j + 1] = f[(j + 1) - 1] \o Coded(ps, j + 1)
      BY <1>1, <1>4, DeltasTurns, Zenon
    <3>. QED  BY <3>1, <1>1, <1>4, Zenon
  <2> DEFINE c == Coded(ps, j + 1)
  <2>3. c \in Seq(Byte)
    BY <1>1, <1>4, CodedBytes, Zenon
  <2> HIDE DEF f, c
  <2>4. Deltas(ps) = f[j] \o (c \o rest)
    <3>1. (f[j] \o c) \o rest = f[j] \o (c \o rest)
      BY <1>2, <2>3, ConcatThree, Zenon
    <3>2. f[j + 1] = f[j] \o c
      BY <2>2, Zenon DEF c
    <3>. QED  BY <2>1, <3>1, <3>2, Zenon
  <2>5. c \o rest \in Seq(Byte)
    BY <2>3
  <2> DEFINE t == c \o rest
  <2> HIDE DEF t
  <2>6. Deltas(ps) = f[j] \o t /\ Deltas(ps) = f[j] \o blob
    BY <2>4, Zenon DEF t, f
  <2>7. Slice(f[j] \o t, Len(f[j]), Len(f[j] \o t)) = t /\ Slice(f[j] \o blob, Len(f[j]), Len(f[j] \o blob)) = blob
    BY <1>2, <2>5, SliceOff, Zenon DEF t
  <2>8. blob = t
    BY <2>6, <2>7, Zenon
  <2>. QED  BY <2>1, <2>8, Zenon DEF t, c
<1>. QED  BY <1>3, <1>4, Zenon

LEMMA IteratorRecord ==
  ASSUME NEW x \in UInt32, NEW y \in Seq(Byte), NEW i, i = compressedPostingIterator(x, y)
  PROVE  i \in Iterators /\ i.first = x /\ i.blob = y
BY DEF Iterators, compressedPostingIterator

\* A turn of the loop of next brings the iterator to the next posting.
LEMMA SkipStep ==
  ASSUME NEW ps \in Seq(UInt32), NEW i, NEW j, Stands(i, ps, j), NEW limit, i.first <= limit, i.blob # <<>>
  PROVE  /\ j < Len(ps) /\ Stands(SkipPosting(i, limit), ps, j + 1)
         /\ Len(SkipPosting(i, limit).blob) < Len(i.blob)
<1>1. /\ i \in Iterators /\ j \in 1..Len(ps) /\ i.first = ps[j] /\ Deltas(ps) = DeltasLoop(ps)[j] \o i.blob
  BY Zenon DEF Stands
<1>2. i.blob \in Seq(Byte)
  BY <1>1 DEF Iterators
<1>3. j \in 0..Len(ps) /\ (j # Len(ps) => j < Len(ps))
  BY <1>1
<1>4. j < Len(ps)
  BY <1>1, <1>2, <1>3, NextCoded, Zenon
<1>5. PICK rest \in Seq(Byte) : i.blob = Coded(ps, j + 1) \o rest /\ Deltas(ps) = DeltasLoop(ps)[j + 1] \o rest
  BY <1>1, <1>2, <1>3, <1>4, NextCoded, Zenon
<1> DEFINE c == Coded(ps, j + 1)
           delta == Delta(ps[j + 1], Previous(ps, j + 1))
<1>6. j + 1 \in 1..Len(ps) /\ (j + 1) - 1 = j /\ j + 1 # 1
  BY <1>1, <1>4
<1>7. ps[j + 1] \in UInt32 /\ Previous(ps, j + 1) \in UInt32 /\ delta \in Nat /\ c \in Seq(Byte) /\ Len(c) >= 1
  BY <1>6, CodedBytes, Zenon
<1>8. Previous(ps, j + 1) = ps[j]
  BY <1>6, Zenon DEF Previous
<1>9. (ps[j] + delta) % wordBase = ps[j + 1]
  BY <1>7, <1>8, DeltaAdds, Zenon
<1>10. c = PutUvarint(delta)
  BY Zenon DEF Coded
<1> HIDE DEF c, delta
<1>11. Uvarint(c \o rest).n = delta /\ Uvarint(c \o rest).sz = Len(c)
  BY <1>7, <1>10, UvarintReads, Zenon
<1>12. Slice(c \o rest, Len(c), Len(c \o rest)) = rest
  BY <1>7, SliceOff, Zenon
<1>13. i.blob = c \o rest
  BY <1>5, Zenon DEF c
<1>14. SkipPosting(i, limit) = compressedPostingIterator(ps[j + 1], rest)
  BY <1>1, <1>9, <1>11, <1>12, <1>13, Zenon DEF SkipPosting
<1>15. Len(rest) < Len(i.blob)
  <2>1. Len(c \o rest) = Len(c) + Len(rest) /\ Len(rest) \in Nat /\ Len(c) \in Nat
    BY <1>7
  <2>. QED  BY <1>7, <1>13, <2>1
<1> DEFINE r == SkipPosting(i, limit)
<1> HIDE DEF r
<1>16. r \in Iterators /\ r.first = ps[j + 1] /\ r.blob = rest
  <2>1. r = compressedPostingIterator(ps[j + 1], rest)
    BY <1>14, Zenon DEF r
  <2>. QED  BY <1>7, <2>1, IteratorRecord
<1>. QED  BY <1>4, <1>5, <1>6, <1>15, <1>16, Zenon DEF Stands, r


\* The iterator stands no later than the first posting, from j on, after the limit.
Skipped(ps, j, limit) ==
  {s \in Iterators : \E m \in j..Len(ps) : Stands(s, ps, m) /\ \A x \in j..(m - 1) : ps[x] <= limit}

\* A turn keeps to that, and shortens what is left unless the loop has ended.
LEMMA SkipTurn ==
  ASSUME NEW ps \in Seq(UInt32), NEW j \in 1..Len(ps), NEW limit \in UInt32, NEW s \in Skipped(ps, j, limit)
  PROVE  /\ SkipPosting(s, limit) \in Skipped(ps, j, limit)
         /\ SkipPosting(s, limit) = s \/ Len(SkipPosting(s, limit).blob) < Len(s.blob)
         /\ SkipPosting(s, limit) = s => ~(s.first <= limit /\ s.blob # <<>>)
<1>1. PICK m \in j..Len(ps) : Stands(s, ps, m) /\ \A x \in j..(m - 1) : ps[x] <= limit
  BY Zenon DEF Skipped
<1>2. s.first = ps[m] /\ s \in Iterators
  BY <1>1, Zenon DEF Stands
<1>3. CASE s.first <= limit /\ s.blob # <<>>
  <2> DEFINE r == SkipPosting(s, limit)
  <2>1. m < Len(ps) /\ Stands(r, ps, m + 1) /\ Len(r.blob) < Len(s.blob)
    BY <1>1, <1>3, SkipStep, Zenon
  <2>2. r \in Iterators
    BY <2>1, Zenon DEF Stands
  <2> HIDE DEF r
  <2>3. m + 1 \in j..Len(ps) /\ \A x \in j..((m + 1) - 1) : x = m \/ x \in j..(m - 1)
    BY <2>1
  <2>4. \A x \in j..((m + 1) - 1) : ps[x] <= limit
    BY <1>1, <1>2, <1>3, <2>3, Zenon
  <2>5. r \in Skipped(ps, j, limit)
    <3> DEFINE k == m + 1
    <3>1. k \in j..Len(ps) /\ Stands(r, ps, k) /\ \A x \in j..(k - 1) : ps[x] <= limit
      BY <2>1, <2>3, <2>4, Zenon
    <3> HIDE DEF k
    <3>. QED  BY <2>2, <3>1, Zenon DEF Skipped
  <2>6. r # s
    <3>1. Len(s.blob) \in Nat
      BY <1>2 DEF Iterators
    <3>2. ~(Len(s.blob) < Len(s.blob))
      BY <3>1, SMT
    <3>. QED  BY <2>1, <3>2, Zenon
  <2>. QED  BY <2>1, <2>5, <2>6, Zenon DEF r
<1>4. CASE ~(s.first <= limit /\ s.blob # <<>>)
  <2>1. SkipPosting(s, limit) = s
    BY <1>4, Zenon DEF SkipPosting
  <2>. QED  BY <1>4, <2>1, Zenon
<1>. QED  BY <1>3, <1>4, Zenon

LEMMA SkipTurns ==
  ASSUME NEW ps \in Seq(UInt32), NEW j \in 1..Len(ps), NEW limit \in UInt32, NEW i, Stands(i, ps, j),
         NEW n, n = Len(i.blob)
  PROVE  /\ n \in Nat /\ SkipPostings(i, limit) \in [0..n -> Skipped(ps, j, limit)]
         /\ SkipPostings(i, limit)[0] = i
         /\ \A k \in 1..n : SkipPostings(i, limit)[k] = SkipPosting(SkipPostings(i, limit)[k - 1], limit)
<1> DEFINE S == Skipped(ps, j, limit)
           h == SkipPostings(i, limit)
           G(s) == SkipPosting(s, limit)
           step == [k \in 1..n |-> [s \in S |-> G(s)]]
           Turns(g) == g = [k \in 0..n |-> IF k = 0 THEN i ELSE G(g[k - 1])]
<1>1. n \in Nat
  <2>1. i \in Iterators
    BY Zenon DEF Stands
  <2>. QED  BY <2>1 DEF Iterators
<1>2. i \in S
  <2>1. i \in Iterators
    BY Zenon DEF Stands
  <2>2. j \in j..Len(ps) /\ \A x \in j..(j - 1) : FALSE
    OBVIOUS
  <2>. QED  BY <2>1, <2>2, Zenon DEF Skipped
<1>3. \A s \in S : G(s) \in S
  BY SkipTurn, Zenon
<1>4. h = CHOOSE g : Turns(g)
  BY Zenon DEF SkipPostings
<1> HIDE DEF G, S, h
<1>5. Steps(S, n, step)
  BY <1>1, <1>3, Zenon DEF Steps
<1>6. PICK g : g \in [0..n -> S] /\ g[0] = i /\ \A k \in 1..n : g[k] = step[k][g[k - 1]]
  <2>1. \E g : IsRun(g, S, i, n, step)
    <3> HIDE DEF step
    <3>. QED  BY <1>2, <1>5, TurnsExist, Zenon
  <2>. QED  BY <2>1, Zenon DEF IsRun
<1>7. Turns(g)
  <2>1. \A k \in 0..n : k = 0 \/ k \in 1..n
    BY <1>1
  <2>2. \A k \in 1..n : k - 1 \in 0..n
    BY <1>1
  <2>3. \A k \in 1..n : g[k] = G(g[k - 1])
    BY <1>6, <2>2, Zenon
  <2>. QED  BY <1>6, <2>1, <2>3, Zenon
<1>8. Turns(h)
  <2> HIDE DEF Turns
  <2>. QED  BY <1>4, <1>7, Zenon
<1>9. h[0] = i /\ \A k \in 1..n : h[k] = G(h[k - 1])
  <2>1. 0 \in 0..n /\ \A k \in 1..n : k \in 0..n /\ k # 0
    BY <1>1
  <2>. QED  BY <1>8, <2>1, Zenon
<1>10. \A k \in 0..n : h[k] \in S
  <2> DEFINE H == {k \in 0..n : h[k] \in S}
  <2>1. 0 \in H
    BY <1>1, <1>2, <1>9
  <2>2. \A k \in 1..n : k - 1 \in H => k \in H
    <3>1. \A k \in 1..n : k \in 0..n
      BY <1>1
    <3>. QED  BY <1>3, <1>9, <3>1, Zenon
  <2>3. \A k \in 0..n : k \in H
    <3> HIDE DEF H
    <3>. QED  BY <1>1, <2>1, <2>2, UpTo, Zenon
  <2>. QED  BY <2>3, Zenon
<1>11. h \in [0..n -> S]
  <2>1. h = [k \in 0..n |-> h[k]]
    BY <1>8, Zenon
  <2>. QED  BY <2>1, <1>10, Zenon
<1>. QED  BY <1>1, <1>9, <1>11, Zenon DEF G, S, h

\* A new iterator stands at the first posting.
LEMMA StandsAtFirst ==
  ASSUME NEW ps \in Seq(UInt32), ps # <<>>
  PROVE  Stands(newCompressedPostingIterator(Deltas(ps)), ps, 1)
<1> DEFINE b == Deltas(ps)
           c == Coded(ps, 1)
           delta == Delta(ps[1], Previous(ps, 1))
<1>1. 1 \in 1..Len(ps) /\ 0 \in 0..Len(ps) /\ 0 < Len(ps) /\ 0 + 1 = 1 /\ 1 - 1 = 0
  OBVIOUS
<1>2. b \in Seq(Byte)
  <2>1. Len(ps) \in 0..Len(ps)
    OBVIOUS
  <2>. QED  BY <2>1, DeltasGrow, Zenon DEF Deltas
<1>3. b = DeltasLoop(ps)[0] \o b
  <2>1. DeltasLoop(ps)[0] = <<>>
    BY <1>1, DeltasTurns, Zenon
  <2> HIDE DEF b
  <2>2. <<>> \o b = b
    BY <1>2
  <2>. QED  BY <2>1, <2>2, Zenon
<1>4. PICK rest \in Seq(Byte) : b = Coded(ps, 0 + 1) \o rest /\ b = DeltasLoop(ps)[0 + 1] \o rest
  BY <1>1, <1>2, <1>3, NextCoded, Zenon
<1>5. b = c \o rest /\ b = DeltasLoop(ps)[1] \o rest
  BY <1>1, <1>4, Zenon
<1>6. ps[1] \in UInt32 /\ Previous(ps, 1) \in UInt32 /\ delta \in Nat /\ c \in Seq(Byte)
  BY <1>1, CodedBytes, Zenon
<1>7. Previous(ps, 1) = 0 /\ (0 + delta) % wordBase = ps[1]
  BY <1>6, DeltaAdds, Zenon DEF Previous
<1>8. delta = ps[1]
  <2>1. delta = (ps[1] - 0) % wordBase
    BY <1>7, Zenon DEF Delta
  <2>2. (ps[1] - 0) = ps[1] /\ 0 + ps[1] = ps[1]
    BY <1>6 DEF UInt32
  <2>3. ps[1] % wordBase = ps[1]
    <3>1. wordBase \in Nat /\ wordBase > 0 /\ ps[1] \in 0..(wordBase - 1)
      BY <1>6, Bases DEF UInt32, maxUInt32
    <3> HIDE DEF delta
    <3>. QED  BY <3>1, SMT
  <2>. QED  BY <2>1, <2>2, <2>3, Zenon
<1>9. c = PutUvarint(delta)
  BY Zenon DEF Coded
<1> HIDE DEF b, c, delta
<1>10. Uvarint(c \o rest).n = delta /\ Uvarint(c \o rest).sz = Len(c)
  BY <1>6, <1>9, UvarintReads, Zenon
<1>11. Slice(c \o rest, Len(c), Len(c \o rest)) = rest
  BY <1>6, SliceOff, Zenon
<1> DEFINE i == newCompressedPostingIterator(b)
<1>12. i = compressedPostingIterator(ps[1], rest)
  BY <1>5, <1>8, <1>10, <1>11, Zenon DEF newCompressedPostingIterator
<1> HIDE DEF i
<1>13. i \in Iterators /\ i.first = ps[1] /\ i.blob = rest
  BY <1>6, <1>12, IteratorRecord
<1>14. Stands(i, ps, 1)
  BY <1>1, <1>5, <1>13, Zenon DEF Stands, b
<1>. QED  BY <1>14, Zenon DEF i, b

\* nextPosting, while postings are left or the one decoded is after the limit.
LEMMA SkipsToLimit ==
  ASSUME NEW ps \in Seq(UInt32), NEW j \in 1..Len(ps), NEW limit \in UInt32, NEW i, Stands(i, ps, j),
         limit # maxUInt32, ~(i.first <= limit /\ i.blob = <<>>)
  PROVE  \E m \in j..Len(ps) : /\ Stands(nextPosting(i, limit), ps, m)
                               /\ \A x \in j..(m - 1) : ps[x] <= limit
                               /\ m < Len(ps) => ps[m] > limit
<1> DEFINE S == Skipped(ps, j, limit)
           n == Len(i.blob)
           h == SkipPostings(i, limit)
           step == [s \in S |-> SkipPosting(s, limit)]
           mu == [s \in S |-> Len(s.blob)]
<1>0. n = Len(i.blob)
  OBVIOUS
<1> HIDE DEF n
<1>1. /\ n \in Nat /\ h \in [0..n -> S] /\ h[0] = i
      /\ \A k \in 1..n : h[k] = SkipPosting(h[k - 1], limit)
  <2>1. \A nn : nn = Len(i.blob) =>
          /\ nn \in Nat /\ SkipPostings(i, limit) \in [0..nn -> Skipped(ps, j, limit)]
          /\ SkipPostings(i, limit)[0] = i
          /\ \A k \in 1..nn : SkipPostings(i, limit)[k] = SkipPosting(SkipPostings(i, limit)[k - 1], limit)
    BY SkipTurns
  <2>. QED  BY <1>0, <2>1, Zenon
<1>2. nextPosting(i, limit) = h[n]
  BY <1>0, Zenon DEF nextPosting
<1>3. \A s \in S : Len(s.blob) \in Nat
  BY DEF Skipped, Iterators
<1>4. \A s \in S : /\ SkipPosting(s, limit) \in S
                   /\ SkipPosting(s, limit) = s \/ Len(SkipPosting(s, limit).blob) < Len(s.blob)
                   /\ SkipPosting(s, limit) = s => ~(s.first <= limit /\ s.blob # <<>>)
  BY SkipTurn, Zenon
<1> HIDE DEF S, h
<1>5. n \in 0..n /\ 0 \in 0..n /\ n <= n /\ \A k \in 1..n : k - 1 \in 0..n
  BY <1>1
<1>6. Descends(S, mu, step, n, h)
  <2>1. mu \in [S -> Nat] /\ step \in [S -> S]
    BY <1>3, <1>4, Zenon
  <2>2. \A k \in 1..n : h[k] = step[h[k - 1]]
    BY <1>1, <1>5, Zenon
  <2>3. \A s \in S : step[s] = s \/ mu[step[s]] < mu[s]
    BY <1>4, Zenon
  <2>4. mu[h[0]] <= n
    BY <1>0, <1>1, <1>5, Zenon
  <2> HIDE DEF mu, step
  <2>. QED  BY <1>1, <2>1, <2>2, <2>3, <2>4, Zenon DEF Descends
<1>7. step[h[n]] = h[n]
  <2>1. Ended(step, n, h)
    <3> HIDE DEF mu, step
    <3>. QED  BY <1>6, LoopEnds, Zenon
  <2>. QED  BY <2>1, Zenon DEF Ended
<1>8. h[n] \in S
  BY <1>1, <1>5, Zenon
<1> DEFINE r == h[n]
<1>9. ~(r.first <= limit /\ r.blob # <<>>)
  BY <1>4, <1>7, <1>8, Zenon
<1>10. PICK m \in j..Len(ps) : Stands(r, ps, m) /\ \A x \in j..(m - 1) : ps[x] <= limit
  BY <1>8, Zenon DEF S, Skipped
<1>11. r.first = ps[m] /\ r \in Iterators /\ m \in 1..Len(ps) /\ Deltas(ps) = DeltasLoop(ps)[m] \o r.blob
  BY <1>10, Zenon DEF Stands
<1>12. r.blob \in Seq(Byte)
  BY <1>11 DEF Iterators
<1>13. ASSUME m < Len(ps)  PROVE ps[m] > limit
  <2> HIDE DEF r
  <2>1. m \in 0..Len(ps) /\ m + 1 \in 1..Len(ps)
    BY <1>11, <1>13
  <2>2. PICK rest \in Seq(Byte) : r.blob = Coded(ps, m + 1) \o rest
    BY <1>11, <1>12, <1>13, <2>1, NextCoded, Zenon
  <2>3. Coded(ps, m + 1) \in Seq(Byte) /\ Len(Coded(ps, m + 1)) >= 1
    BY <2>1, CodedBytes, Zenon
  <2>4. r.blob # <<>>
    <3> DEFINE c == Coded(ps, m + 1)
    <3> HIDE DEF c
    <3>1. c \o rest # <<>>
      BY <2>3 DEF c
    <3>. QED  BY <2>2, <3>1, Zenon DEF c
  <2>5. ~(ps[m] <= limit)
    BY <1>9, <1>11, <2>4, Zenon
  <2>6. ps[m] \in Nat /\ limit \in Nat
    <3>1. m \in 1..Len(ps)
      BY <1>11, Zenon
    <3>2. ps[m] \in UInt32
      BY <3>1, ElementOfSeq, Zenon
    <3>. QED  BY <3>2, WordsAreNatural, Zenon
  <2>. QED  BY <2>5, <2>6, SMT
<1>. QED  BY <1>2, <1>10, <1>13, Zenon

\* What a call of next gives, from posting j on.
SkipsTo(i, ps, j, limit) ==
  IF limit = maxUInt32 \/ (j = Len(ps) /\ ps[j] <= limit)
  THEN nextPosting(i, limit).first = maxUInt32
  ELSE \E m \in j..Len(ps) : /\ Stands(nextPosting(i, limit), ps, m)
                             /\ \A x \in j..(m - 1) : ps[x] <= limit
                             /\ m < Len(ps) => ps[m] > limit

LEMMA NextSkips ==
  ASSUME NEW ps \in Seq(UInt32), NEW limit \in UInt32, NEW j \in 1..Len(ps), NEW i \in Iterators,
         Stands(i, ps, j)
  PROVE  SkipsTo(i, ps, j, limit)
<1> SUFFICES IF limit = maxUInt32 \/ (j = Len(ps) /\ ps[j] <= limit)
             THEN nextPosting(i, limit).first = maxUInt32
             ELSE \E m \in j..Len(ps) : /\ Stands(nextPosting(i, limit), ps, m)
                                        /\ \A x \in j..(m - 1) : ps[x] <= limit
                                        /\ m < Len(ps) => ps[m] > limit
  BY Zenon DEF SkipsTo
<1>1. i.first = ps[j] /\ i.blob \in Seq(Byte) /\ Deltas(ps) = DeltasLoop(ps)[j] \o i.blob
  BY DEF Stands, Iterators
<1>2. j \in 0..Len(ps)
  OBVIOUS
<1>3. CASE limit = maxUInt32 \/ (j = Len(ps) /\ ps[j] <= limit)
  <2>1. j = Len(ps) => i.blob = <<>>
    BY <1>1, <1>2, NextCoded, Zenon
  <2>2. nextPosting(i, limit) = compressedPostingIterator(maxUInt32, <<>>)
    BY <1>1, <1>3, <2>1, Zenon DEF nextPosting
  <2>3. nextPosting(i, limit).first = maxUInt32
    BY <2>2 DEF compressedPostingIterator
  <2>. QED  BY <1>3, <2>3, Zenon
<1>4. CASE limit # maxUInt32 /\ ~(j = Len(ps) /\ ps[j] <= limit)
  <2>1. j < Len(ps) => i.blob # <<>>
    <3> SUFFICES ASSUME j < Len(ps)  PROVE i.blob # <<>>
      BY Zenon
    <3>1. PICK rest \in Seq(Byte) : i.blob = Coded(ps, j + 1) \o rest
      BY <1>1, <1>2, NextCoded, Zenon
    <3> DEFINE c == Coded(ps, j + 1)
    <3>2. j + 1 \in 1..Len(ps)
      OBVIOUS
    <3>3. c \in Seq(Byte) /\ Len(c) >= 1
      BY <3>2, CodedBytes, Zenon
    <3> HIDE DEF c
    <3>4. c \o rest # <<>>
      BY <3>3
    <3>. QED  BY <3>1, <3>4, Zenon DEF c
  <2>2. j = Len(ps) \/ j < Len(ps)
    OBVIOUS
  <2>3. ~(i.first <= limit /\ i.blob = <<>>)
    BY <1>1, <1>4, <2>1, <2>2, Zenon
  <2>4. \E m \in j..Len(ps) : /\ Stands(nextPosting(i, limit), ps, m)
                              /\ \A x \in j..(m - 1) : ps[x] <= limit
                              /\ m < Len(ps) => ps[m] > limit
    BY <1>4, <2>3, SkipsToLimit, Zenon
  <2>. QED  BY <1>4, <2>4, Zenon
<1>. QED  BY <1>3, <1>4, Zenon

(***************************************************************************)
(* next of compressedPostingIterator, which decodes no more of the posting *)
(* list than it must.  A new iterator has the first posting; next(limit)   *)
(* passes over postings up to the limit only, and stops at the first one   *)
(* after the limit.  When there is none it keeps the last posting, and     *)
(* says maxUInt32 only when it is asked again.                             *)
(***************************************************************************)
THEOREM IteratorSkips ==
  \A ps \in Seq(UInt32), limit \in UInt32 :
    /\ ps # <<>> => Stands(newCompressedPostingIterator(Deltas(ps)), ps, 1)
    /\ \A j \in 1..Len(ps) : \A i \in {i \in Iterators : Stands(i, ps, j)} : SkipsTo(i, ps, j, limit)
<1> TAKE ps \in Seq(UInt32), limit \in UInt32
<1>1. ps # <<>> => Stands(newCompressedPostingIterator(Deltas(ps)), ps, 1)
  BY StandsAtFirst, Zenon
<1>2. ASSUME NEW j \in 1..Len(ps), NEW i \in {x \in Iterators : Stands(x, ps, j)}
      PROVE  SkipsTo(i, ps, j, limit)
  <2>1. i \in Iterators /\ Stands(i, ps, j)
    BY Zenon
  <2>. QED  BY <2>1, NextSkips, Zenon
<1>. QED  BY <1>1, <1>2, Zenon

-----------------------------------------------------------------------------
(***************************************************************************)
(* Sections: numbers as four bytes.                                        *)
(***************************************************************************)
LEMMA UnputTurns ==
  ASSUME NEW n, NEW w \in Nat
  PROVE  Unput(n, w) = [i \in 0..w |-> IF i = 0 THEN n ELSE Unput(n, w)[i - 1] \div byteBase]
<1> DEFINE First == n
           Step(p, i) == p \div byteBase
           Turns(m, g) == g = [i \in 0..m |-> IF i = 0 THEN First ELSE Step(g[i - 1], i)]
           Never == {m \in Nat : ~\E g : Turns(m, g)}
<1> HIDE DEF First, Step
<1>1. Never = {}
  <2> SUFFICES ASSUME Never # {}  PROVE FALSE
    BY Zenon
  <2>1. PICK m \in Never : \A j \in Never : m <= j
    <3>1. Never \subseteq Nat
      BY Zenon
    <3> HIDE DEF Never
    <3>. QED  BY <3>1, LeastNat, Zenon
  <2>2. m # 0
    <3>1. Turns(0, [i \in 0..0 |-> First])
      OBVIOUS
    <3> HIDE DEF Turns
    <3>. QED  BY <2>1, <3>1, Zenon
  <2>3. PICK g : Turns(m - 1, g)
    <3>1. m - 1 \in Nat /\ ~(m <= m - 1)
      BY <2>1, <2>2
    <3> HIDE DEF Turns
    <3>. QED  BY <2>1, <3>1, Zenon
  <2>4. Turns(m, [i \in 0..m |-> IF i = m THEN Step(g[m - 1], m) ELSE g[i]])
    BY <2>1, <2>2, <2>3
  <2> HIDE DEF Turns
  <2>. QED  BY <2>1, <2>4, Zenon
<1>2. w \in Nat
  BY Zenon
<1>3. PICK g : Turns(w, g)
  BY <1>1, <1>2, Zenon
<1>. QED  BY <1>3, Zenon DEF Unput, First, Step

LEMMA ValueTurns ==
  ASSUME NEW b, Len(b) \in Nat
  PROVE  BytesValue(b) = [i \in 0..Len(b) |-> IF i = 0 THEN 0 ELSE BytesValue(b)[i - 1] * byteBase + b[i]]
<1> DEFINE First == 0
           Step(p, i) == p * byteBase + b[i]
           Turns(m, g) == g = [i \in 0..m |-> IF i = 0 THEN First ELSE Step(g[i - 1], i)]
           Never == {m \in Nat : ~\E g : Turns(m, g)}
<1> HIDE DEF First, Step
<1>1. Never = {}
  <2> SUFFICES ASSUME Never # {}  PROVE FALSE
    BY Zenon
  <2>1. PICK m \in Never : \A j \in Never : m <= j
    <3>1. Never \subseteq Nat
      BY Zenon
    <3> HIDE DEF Never
    <3>. QED  BY <3>1, LeastNat, Zenon
  <2>2. m # 0
    <3>1. Turns(0, [i \in 0..0 |-> First])
      OBVIOUS
    <3> HIDE DEF Turns
    <3>. QED  BY <2>1, <3>1, Zenon
  <2>3. PICK g : Turns(m - 1, g)
    <3>1. m - 1 \in Nat /\ ~(m <= m - 1)
      BY <2>1, <2>2
    <3> HIDE DEF Turns
    <3>. QED  BY <2>1, <3>1, Zenon
  <2>4. Turns(m, [i \in 0..m |-> IF i = m THEN Step(g[m - 1], m) ELSE g[i]])
    BY <2>1, <2>2, <2>3
  <2> HIDE DEF Turns
  <2>. QED  BY <2>1, <2>4, Zenon
<1>2. Len(b) \in Nat
  BY Zenon
<1>3. PICK g : Turns(Len(b), g)
  BY <1>1, <1>2, Zenon
<1>. QED  BY <1>3, Zenon DEF BytesValue, First, Step

\* Division with remainder by the values of a byte.
LEMMA ByteDigits ==
  ASSUME NEW u \in Nat
  PROVE  u \div byteBase \in Nat /\ u % byteBase \in Byte /\ u = (u \div byteBase) * byteBase + (u % byteBase)
<1>1. byteBase \in Nat /\ byteBase > 0
  BY CodingsAssumption
<1>. QED  BY <1>1 DEF Byte

LEMMA DivBelow ==
  ASSUME NEW x \in Nat, NEW y \in Nat, x < y * byteBase
  PROVE  x \div byteBase < y
<1> DEFINE q == x \div byteBase
           m == x % byteBase
<1>0. byteBase \in Nat /\ byteBase > 0
  BY CodingsAssumption
<1>1. q \in Nat /\ m \in Byte /\ x = q * byteBase + m
  BY ByteDigits, Zenon
<1> HIDE DEF q, m
<1>2. ~(y <= q)
  <2> SUFFICES ASSUME y <= q  PROVE FALSE
    BY Zenon
  <2>1. y * byteBase <= q * byteBase
    BY <1>0, <1>1
  <2>2. q * byteBase \in Nat /\ y * byteBase \in Nat
    BY <1>0, <1>1
  <2> DEFINE a == q * byteBase
             b == y * byteBase
  <2>3. x = a + m /\ b <= a /\ x < b /\ a \in Nat /\ b \in Nat
    BY <1>1, <2>1, <2>2, Zenon
  <2> HIDE DEF a, b
  <2>. QED  BY <1>0, <1>1, <2>3 DEF Byte
<1>3. q < y
  BY <1>1, <1>2
<1>. QED  BY <1>3, Zenon DEF q

\* What is left of a number, after each byte put.
LEMMA UnputStep ==
  ASSUME NEW n \in Nat, NEW w \in Nat
  PROVE  /\ Unput(n, w)[0] = n
         /\ \A i \in 0..w : Unput(n, w)[i] \in Nat
         /\ \A i \in 1..w : Unput(n, w)[i] = Unput(n, w)[i - 1] \div byteBase
<1> DEFINE x == Unput(n, w)
<1>1. x = [i \in 0..w |-> IF i = 0 THEN n ELSE x[i - 1] \div byteBase]
  BY UnputTurns, Zenon
<1> HIDE DEF x
<1>2. 0 \in 0..w /\ \A i \in 1..w : i \in 0..w /\ i # 0
  OBVIOUS
<1>3. x[0] = n
  BY <1>1, <1>2, Zenon
<1>4. \A i \in 1..w : x[i] = x[i - 1] \div byteBase
  BY <1>1, <1>2, Zenon
<1> DEFINE G == {i \in 0..w : x[i] \in Nat}
<1>5. \A i \in 0..w : i \in G
  <2>1. 0 \in G
    BY <1>2, <1>3, Zenon
  <2>2. \A i \in 1..w : i - 1 \in G => i \in G
    BY <1>2, <1>4, ByteDigits, Zenon
  <2> HIDE DEF G
  <2>. QED  BY <2>1, <2>2, UpTo, Zenon
<1>. QED  BY <1>3, <1>4, <1>5, Zenon DEF x

\* BigEndian of binary.
LEMMA BigEndianBytes ==
  ASSUME NEW n \in Nat, NEW w \in Nat
  PROVE  BigEndian(n, w) \in Seq(Byte) /\ Len(BigEndian(n, w)) = w
<1> DEFINE x == Unput(n, w)
           b == BigEndian(n, w)
           Y(i) == x[w - i] % byteBase
<1>1. \A i \in 0..w : x[i] \in Nat
  BY UnputStep, Zenon
<1>2. b = [i \in 1..w |-> Y(i)]
  BY Zenon DEF BigEndian
<1>3. \A i \in 1..w : Y(i) \in Byte
  <2>1. \A i \in 1..w : w - i \in 0..w
    OBVIOUS
  <2> HIDE DEF x
  <2>. QED  BY <1>1, <2>1, ByteDigits, Zenon
<1> HIDE DEF Y, b
<1>4. b \in Seq(Byte) /\ Len(b) = w
  BY <1>2, <1>3
<1>. QED  BY <1>4, Zenon DEF b

\* It reads back if the bytes are enough.
LEMMA BigEndianReads ==
  ASSUME NEW n \in Nat, NEW w \in Nat, Unput(n, w)[w] = 0
  PROVE  FromBigEndian(BigEndian(n, w)) = n
<1> DEFINE x == Unput(n, w)
           b == BigEndian(n, w)
           v == BytesValue(b)
<1>1. x[0] = n /\ (\A i \in 0..w : x[i] \in Nat) /\ x[w] = 0
  BY UnputStep, Zenon
<1>2. \A i \in 1..w : x[i] = x[i - 1] \div byteBase
  BY UnputStep, Zenon
<1>3. b = [i \in 1..w |-> x[w - i] % byteBase]
  BY Zenon DEF BigEndian
<1>5. b \in Seq(Byte) /\ Len(b) = w
  BY BigEndianBytes, Zenon
<1> HIDE DEF x, b
<1>6. v = [i \in 0..w |-> IF i = 0 THEN 0 ELSE v[i - 1] * byteBase + b[i]]
  BY <1>5, ValueTurns, Zenon
<1> HIDE DEF v
<1> DEFINE G == {i \in 0..w : v[i] = x[w - i]}
<1>7. 0 \in G
  <2>1. 0 \in 0..w /\ w - 0 = w
    OBVIOUS
  <2>. QED  BY <1>1, <1>6, <2>1, Zenon
<1>8. ASSUME NEW i \in 1..w, i - 1 \in G  PROVE i \in G
  <2>1. i \in 0..w /\ i # 0 /\ w - i \in 0..w /\ w - (i - 1) \in 1..w /\ (w - (i - 1)) - 1 = w - i
    OBVIOUS
  <2>2. v[i] = v[i - 1] * byteBase + b[i]
    BY <1>6, <2>1, Zenon
  <2>3. v[i - 1] = x[w - (i - 1)]
    BY <1>8, Zenon
  <2>4. x[w - (i - 1)] = x[w - i] \div byteBase
    BY <1>2, <2>1, Zenon
  <2>5. b[i] = x[w - i] % byteBase
    BY <1>3, Zenon
  <2>6. x[w - i] = (x[w - i] \div byteBase) * byteBase + (x[w - i] % byteBase)
    BY <1>1, <2>1, ByteDigits, Zenon
  <2>7. v[i] = x[w - i]
    BY <2>2, <2>3, <2>4, <2>5, <2>6, Zenon
  <2>. QED  BY <2>1, <2>7, Zenon
<1>9. w \in G
  <2>1. w \in 0..w
    OBVIOUS
  <2> HIDE DEF G
  <2>. QED  BY <1>7, <1>8, <2>1, UpTo, Zenon
<1>10. v[w] = n
  <2>1. w - w = 0
    OBVIOUS
  <2>. QED  BY <1>1, <1>9, <2>1, Zenon
<1>. QED  BY <1>5, <1>10, Zenon DEF FromBigEndian, b, v

\* A uint32 is four bytes.
LEMMA WordReads ==
  ASSUME NEW n \in UInt32
  PROVE  FromBigEndian(BigEndian(n, 4)) = n
<1> DEFINE B == byteBase
           x == Unput(n, 4)
<1>0. B \in Nat /\ B > 0
  BY CodingsAssumption
<1>1. n \in Nat /\ n < wordBase
  BY Bases DEF UInt32, maxUInt32
<1>2. B * B \in Nat
  BY <1>0
<1>3. B * B * B \in Nat
  BY <1>0, <1>2
<1>4. 1 * B = B /\ 1 \in Nat
  BY <1>0
<1>5. 4 \in Nat /\ 1 \in 1..4 /\ 2 \in 1..4 /\ 3 \in 1..4 /\ 4 \in 1..4 /\ \A i \in 1..4 : i \in 0..4
  OBVIOUS
<1>6. 1 - 1 = 0 /\ 2 - 1 = 1 /\ 3 - 1 = 2 /\ 4 - 1 = 3
  OBVIOUS
<1>7. /\ x[0] = n /\ \A i \in 0..4 : x[i] \in Nat
      /\ \A i \in 1..4 : x[i] = x[i - 1] \div B
  BY <1>1, <1>5, UnputStep, Zenon
<1> HIDE DEF x
<1>8. x[1] = x[0] \div B /\ x[2] = x[1] \div B /\ x[3] = x[2] \div B /\ x[4] = x[3] \div B
  BY <1>5, <1>6, <1>7, Zenon
<1>9. x[1] \in Nat /\ x[2] \in Nat /\ x[3] \in Nat /\ x[4] \in Nat
  BY <1>5, <1>7, Zenon
<1>10. n < B * B * B * B
  BY <1>1, Zenon DEF wordBase
<1>11. x[1] < B * B * B
  BY <1>1, <1>3, <1>7, <1>8, <1>10, DivBelow, Zenon
<1>12. x[2] < B * B
  BY <1>2, <1>8, <1>9, <1>11, DivBelow, Zenon
<1>13. x[3] < B
  BY <1>0, <1>8, <1>9, <1>12, DivBelow, Zenon
<1>14. x[4] < 1
  BY <1>4, <1>8, <1>9, <1>13, DivBelow, Zenon
<1>15. x[4] = 0
  BY <1>9, <1>14
<1>. QED  BY <1>1, <1>5, <1>15, BigEndianReads, Zenon DEF x

-----------------------------------------------------------------------------
(***************************************************************************)
(* What is where in a file.                                                *)
(***************************************************************************)
CONSTANT JsonCells   \* cells of the two blobs of JSON, whatever they hold

Cell == Byte \cup JsonCells

LEMMA BytesAreCells ==
  ASSUME NEW b \in Seq(Byte)
  PROVE  b \in Seq(Cell)
<1>1. Byte \subseteq Cell
  BY Zenon DEF Cell
<1>. QED  BY <1>1

\* The bytes b are in f at off.
At(f, off, b) ==
  /\ f \in Seq(Cell) /\ b \in Seq(Cell) /\ off \in Nat /\ off + Len(b) <= Len(f)
  /\ \A i \in 1..Len(b) : f[off + i] = b[i]

LEMMA AtSlice ==
  ASSUME NEW f, NEW off, NEW b, At(f, off, b)
  PROVE  Slice(f, off, off + Len(b)) = b
<1> DEFINE n == Len(b)
           t == Slice(f, off, off + n)
<1>1. f \in Seq(Cell) /\ b \in Seq(Cell) /\ off \in Nat /\ off + n <= Len(f) /\ \A i \in 1..n : f[off + i] = b[i]
  BY Zenon DEF At
<1>2. n \in Nat /\ off + n \in off..Len(f) /\ (off + n) - off = n
  BY <1>1
<1>3. /\ t \in Seq(Cell) /\ Len(t) = (off + n) - off
      /\ \A i \in 1..((off + n) - off) : t[i] = f[off + i]
  <2> DEFINE e == off + n
  <2>1. e \in off..Len(f)
    BY <1>2, Zenon
  <2> HIDE DEF e
  <2>2. /\ Slice(f, off, e) \in Seq(Cell) /\ Len(Slice(f, off, e)) = e - off
        /\ \A i \in 1..(e - off) : Slice(f, off, e)[i] = f[off + i]
    BY <1>1, <2>1, SliceParts, Zenon
  <2>. QED  BY <2>2, Zenon DEF e
<1> HIDE DEF t
<1>4. Len(t) = Len(b) /\ \A i \in 1..Len(b) : t[i] = b[i]
  BY <1>1, <1>2, <1>3, Zenon
<1>5. t = b
  <2>1. b \in Seq(Cell)
    BY <1>1, Zenon
  <2>. QED  BY <1>3, <1>4, <2>1
<1>. QED  BY <1>5, Zenon DEF t, n

LEMMA AtPart ==
  ASSUME NEW f, NEW off, NEW b, At(f, off, b), NEW o, NEW c, At(b, o, c)
  PROVE  At(f, off + o, c)
<1> DEFINE n == Len(c)
<1>1. f \in Seq(Cell) /\ b \in Seq(Cell) /\ off \in Nat /\ off + Len(b) <= Len(f) /\ \A i \in 1..Len(b) : f[off + i] = b[i]
  BY Zenon DEF At
<1>2. c \in Seq(Cell) /\ o \in Nat /\ o + n <= Len(b) /\ \A i \in 1..n : b[o + i] = c[i]
  BY Zenon DEF At
<1>3. n \in Nat /\ Len(b) \in Nat /\ Len(f) \in Nat
  BY <1>1, <1>2
<1>4. off + o \in Nat /\ (off + o) + n <= Len(f)
  <2> DEFINE x == Len(b)
             y == Len(f)
  <2>1. off \in Nat /\ off + x <= y /\ o \in Nat /\ o + n <= x /\ x \in Nat /\ y \in Nat
    BY <1>1, <1>2, <1>3, Zenon
  <2> HIDE DEF n, x, y
  <2>2. off + o \in Nat /\ (off + o) + n <= y
    BY <1>3, <2>1
  <2>. QED  BY <2>2, Zenon DEF y
<1>5. \A i \in 1..n : o + i \in 1..Len(b) /\ off + (o + i) = (off + o) + i
  <2> DEFINE x == Len(b)
  <2>1. off \in Nat /\ o \in Nat /\ o + n <= x /\ x \in Nat
    BY <1>1, <1>2, <1>3, Zenon
  <2> HIDE DEF n, x
  <2>2. \A i \in 1..n : o + i \in 1..x /\ off + (o + i) = (off + o) + i
    BY <1>3, <2>1
  <2>. QED  BY <2>2, Zenon DEF x
<1>6. \A i \in 1..n : f[(off + o) + i] = c[i]
  BY <1>1, <1>2, <1>5, Zenon
<1>. QED  BY <1>1, <1>2, <1>4, <1>6, Zenon DEF At

LEMMA AtJoin ==
  ASSUME NEW a \in Seq(Cell), NEW b \in Seq(Cell)
  PROVE  /\ a \o b \in Seq(Cell) /\ Len(a \o b) = Len(a) + Len(b)
         /\ At(a \o b, 0, a) /\ At(a \o b, Len(a), b)
<1> DEFINE c == a \o b
<1>1. c \in Seq(Cell) /\ Len(c) = Len(a) + Len(b) /\ Len(a) \in Nat /\ Len(b) \in Nat
  OBVIOUS
<1>2. \A i \in 1..Len(a) : c[i] = a[i]
  OBVIOUS
<1>3. \A i \in 1..Len(b) : c[Len(a) + i] = b[i]
  OBVIOUS
<1> HIDE DEF c
<1>4. 0 + Len(a) <= Len(c) /\ Len(a) + Len(b) <= Len(c) /\ \A i \in 1..Len(a) : 0 + i = i
  BY <1>1
<1>5. At(c, 0, a)
  BY <1>1, <1>2, <1>4, Zenon DEF At
<1>6. At(c, Len(a), b)
  BY <1>1, <1>3, <1>4, Zenon DEF At
<1>. QED  BY <1>1, <1>5, <1>6, Zenon DEF c

\* What was at the end of b is still there when more is written.
LEMMA AtKept ==
  ASSUME NEW f, NEW b, At(f, 0, b), NEW o, NEW c, At(b, o, c)
  PROVE  At(f, o, c)
<1>1. At(f, 0 + o, c)
  BY AtPart, Zenon
<1>2. o \in Nat
  BY Zenon DEF At
<1>3. 0 + o = o
  BY <1>2
<1>. QED  BY <1>1, <1>3, Zenon

\* Numbers written one after the other.
LEMMA U32sBytes ==
  ASSUME NEW ns \in Seq(Nat)
  PROVE  /\ U32s(ns) \in Seq(Cell) /\ Len(U32s(ns)) = 4 * Len(ns)
         /\ \A i \in 1..Len(ns) : At(U32s(ns), 4 * (i - 1), BigEndian(ns[i], 4))
<1> DEFINE n == Len(ns)
           b == U32s(ns)
           Y(k) == BigEndian(ns[(k - 1) \div 4 + 1], 4)[((k - 1) % 4) + 1]
<1>0. n \in Nat
  OBVIOUS
<1>1. 4 \in Nat /\ \A i \in 1..n : ns[i] \in Nat
  OBVIOUS
<1>2. \A i \in 1..n : BigEndian(ns[i], 4) \in Seq(Cell) /\ Len(BigEndian(ns[i], 4)) = 4
  BY <1>1, BigEndianBytes, BytesAreCells, Zenon
<1>3. b = [k \in 1..(4 * n) |-> Y(k)]
  BY Zenon DEF U32s
<1>4. ASSUME NEW i \in 1..n, NEW j \in 1..4
      PROVE  4 * (i - 1) + j \in 1..(4 * n) /\ Y(4 * (i - 1) + j) = BigEndian(ns[i], 4)[j]
  <2> DEFINE k == 4 * (i - 1) + j
  <2>1. k \in 1..(4 * n) /\ (k - 1) \div 4 + 1 = i /\ ((k - 1) % 4) + 1 = j
    BY <1>0
  <2> HIDE DEF k
  <2>2. Y(k) = BigEndian(ns[i], 4)[j]
    BY <2>1, Zenon
  <2>. QED  BY <2>1, <2>2, Zenon DEF k
<1>5. \A k \in 1..(4 * n) : Y(k) \in Cell
  <2> SUFFICES ASSUME NEW k \in 1..(4 * n)  PROVE Y(k) \in Cell
    BY Zenon
  <2> DEFINE i == (k - 1) \div 4 + 1
             j == ((k - 1) % 4) + 1
             c == BigEndian(ns[i], 4)
  <2>1. i \in 1..n /\ j \in 1..4
    BY <1>0
  <2> HIDE DEF i, j
  <2>2. c \in Seq(Cell) /\ Len(c) = 4
    BY <1>2, <2>1, Zenon
  <2> HIDE DEF c
  <2>3. c[j] \in Cell
    <3>1. j \in 1..Len(c)
      BY <2>1, <2>2, Zenon
    <3>. QED  BY <2>2, <3>1, ElementOfSeq, Zenon
  <2>. QED  BY <2>3, Zenon DEF c, i, j
<1> HIDE DEF Y, b, n
<1>6. b \in Seq(Cell) /\ Len(b) = 4 * n
  BY <1>0, <1>3, <1>5
<1>7. ASSUME NEW i \in 1..n  PROVE At(b, 4 * (i - 1), BigEndian(ns[i], 4))
  <2> DEFINE c == BigEndian(ns[i], 4)
             o == 4 * (i - 1)
  <2>1. o \in Nat /\ o + 4 <= 4 * n
    BY <1>0
  <2>2. \A j \in 1..4 : b[o + j] = c[j]
    BY <1>3, <1>4, Zenon
  <2>3. c \in Seq(Cell) /\ Len(c) = 4
    BY <1>2, Zenon
  <2> HIDE DEF c, o
  <2>4. At(b, o, c)
    BY <1>6, <2>1, <2>2, <2>3, Zenon DEF At
  <2>. QED  BY <2>4, Zenon DEF c, o
<1>. QED  BY <1>6, <1>7, Zenon DEF b, n

\* Reading one of them.
LEMMA U32Reads ==
  ASSUME NEW f, NEW off, NEW ns \in Seq(Nat), At(f.data, off, U32s(ns)), NEW i \in 1..Len(ns), ns[i] \in UInt32
  PROVE  U32(f, off + 4 * (i - 1)) = ns[i]
<1> DEFINE c == BigEndian(ns[i], 4)
           o == off + 4 * (i - 1)
<1>1. At(U32s(ns), 4 * (i - 1), c)
  BY U32sBytes, Zenon
<1>2. ns[i] \in Nat /\ 4 \in Nat
  OBVIOUS
<1>3. Len(c) = 4 /\ FromBigEndian(c) = ns[i]
  BY <1>2, BigEndianBytes, WordReads, Zenon
<1>4. At(f.data, o, c)
  BY <1>1, AtPart, Zenon
<1> HIDE DEF c, o
<1>5. Slice(f.data, o, o + 4) = c
  BY <1>3, <1>4, AtSlice, Zenon
<1>6. U32(f, o) = ns[i]
  BY <1>3, <1>5, Zenon DEF U32, Read
<1>. QED  BY <1>6, Zenon DEF o

LEMMA ItemsTurns ==
  ASSUME NEW items, Len(items) \in Nat
  PROVE  ItemsLoop(items) = [i \in 0..Len(items) |-> IF i = 0 THEN [data |-> <<>>, starts |-> <<>>] ELSE addItem(ItemsLoop(items)[i - 1], items[i])]
<1> DEFINE First == [data |-> <<>>, starts |-> <<>>]
           Step(p, i) == addItem(p, items[i])
           Turns(m, g) == g = [i \in 0..m |-> IF i = 0 THEN First ELSE Step(g[i - 1], i)]
           Never == {m \in Nat : ~\E g : Turns(m, g)}
<1> HIDE DEF First, Step
<1>1. Never = {}
  <2> SUFFICES ASSUME Never # {}  PROVE FALSE
    BY Zenon
  <2>1. PICK m \in Never : \A j \in Never : m <= j
    <3>1. Never \subseteq Nat
      BY Zenon
    <3> HIDE DEF Never
    <3>. QED  BY <3>1, LeastNat, Zenon
  <2>2. m # 0
    <3>1. Turns(0, [i \in 0..0 |-> First])
      OBVIOUS
    <3> HIDE DEF Turns
    <3>. QED  BY <2>1, <3>1, Zenon
  <2>3. PICK g : Turns(m - 1, g)
    <3>1. m - 1 \in Nat /\ ~(m <= m - 1)
      BY <2>1, <2>2
    <3> HIDE DEF Turns
    <3>. QED  BY <2>1, <3>1, Zenon
  <2>4. Turns(m, [i \in 0..m |-> IF i = m THEN Step(g[m - 1], m) ELSE g[i]])
    BY <2>1, <2>2, <2>3
  <2> HIDE DEF Turns
  <2>. QED  BY <2>1, <2>4, Zenon
<1>2. Len(items) \in Nat
  BY Zenon
<1>3. PICK g : Turns(Len(items), g)
  BY <1>1, <1>2, Zenon
<1>. QED  BY <1>3, Zenon DEF ItemsLoop, First, Step

LEMMA TocTurns ==
  ASSUME NEW toc, Len(tocSections) \in Nat
  PROVE  TocLoop(toc) = [i \in 0..Len(tocSections) |-> IF i = 0 THEN U32s(<<Len(tocSections)>>) ELSE TocLoop(toc)[i - 1] \o U32s(toc[tocSections[i]])]
<1> DEFINE First == U32s(<<Len(tocSections)>>)
           Step(p, i) == p \o U32s(toc[tocSections[i]])
           Turns(m, g) == g = [i \in 0..m |-> IF i = 0 THEN First ELSE Step(g[i - 1], i)]
           Never == {m \in Nat : ~\E g : Turns(m, g)}
<1> HIDE DEF First, Step
<1>1. Never = {}
  <2> SUFFICES ASSUME Never # {}  PROVE FALSE
    BY Zenon
  <2>1. PICK m \in Never : \A j \in Never : m <= j
    <3>1. Never \subseteq Nat
      BY Zenon
    <3> HIDE DEF Never
    <3>. QED  BY <3>1, LeastNat, Zenon
  <2>2. m # 0
    <3>1. Turns(0, [i \in 0..0 |-> First])
      OBVIOUS
    <3> HIDE DEF Turns
    <3>. QED  BY <2>1, <3>1, Zenon
  <2>3. PICK g : Turns(m - 1, g)
    <3>1. m - 1 \in Nat /\ ~(m <= m - 1)
      BY <2>1, <2>2
    <3> HIDE DEF Turns
    <3>. QED  BY <2>1, <3>1, Zenon
  <2>4. Turns(m, [i \in 0..m |-> IF i = m THEN Step(g[m - 1], m) ELSE g[i]])
    BY <2>1, <2>2, <2>3
  <2> HIDE DEF Turns
  <2>. QED  BY <2>1, <2>4, Zenon
<1>2. Len(tocSections) \in Nat
  BY Zenon
<1>3. PICK g : Turns(Len(tocSections), g)
  BY <1>1, <1>2, Zenon
<1>. QED  BY <1>3, Zenon DEF TocLoop, First, Step

LEMMA WriteTurns ==
  ASSUME NEW secs, Len(secs) \in Nat
  PROVE  WriteLoop(secs) = [i \in 0..Len(secs) |-> IF i = 0 THEN [buf |-> <<>>, toc |-> [name \in tocNames |-> <<>>]] ELSE writeSection(WriteLoop(secs)[i - 1], secs[i])]
<1> DEFINE First == [buf |-> <<>>, toc |-> [name \in tocNames |-> <<>>]]
           Step(p, i) == writeSection(p, secs[i])
           Turns(m, g) == g = [i \in 0..m |-> IF i = 0 THEN First ELSE Step(g[i - 1], i)]
           Never == {m \in Nat : ~\E g : Turns(m, g)}
<1> HIDE DEF First, Step
<1>1. Never = {}
  <2> SUFFICES ASSUME Never # {}  PROVE FALSE
    BY Zenon
  <2>1. PICK m \in Never : \A j \in Never : m <= j
    <3>1. Never \subseteq Nat
      BY Zenon
    <3> HIDE DEF Never
    <3>. QED  BY <3>1, LeastNat, Zenon
  <2>2. m # 0
    <3>1. Turns(0, [i \in 0..0 |-> First])
      OBVIOUS
    <3> HIDE DEF Turns
    <3>. QED  BY <2>1, <3>1, Zenon
  <2>3. PICK g : Turns(m - 1, g)
    <3>1. m - 1 \in Nat /\ ~(m <= m - 1)
      BY <2>1, <2>2
    <3> HIDE DEF Turns
    <3>. QED  BY <2>1, <3>1, Zenon
  <2>4. Turns(m, [i \in 0..m |-> IF i = m THEN Step(g[m - 1], m) ELSE g[i]])
    BY <2>1, <2>2, <2>3
  <2> HIDE DEF Turns
  <2>. QED  BY <2>1, <2>4, Zenon
<1>2. Len(secs) \in Nat
  BY Zenon
<1>3. PICK g : Turns(Len(secs), g)
  BY <1>1, <1>2, Zenon
<1>. QED  BY <1>3, Zenon DEF WriteLoop, First, Step

LEMMA EntryTurns ==
  ASSUME NEW toc, Len(tocSections) \in Nat
  PROVE  EntryLoop(toc) = [i \in 0..Len(tocSections) |-> IF i = 0 THEN toc + 4 ELSE EntryLoop(toc)[i - 1] + 4 * EntryLen(tocSections[i])]
<1> DEFINE First == toc + 4
           Step(p, i) == p + 4 * EntryLen(tocSections[i])
           Turns(m, g) == g = [i \in 0..m |-> IF i = 0 THEN First ELSE Step(g[i - 1], i)]
           Never == {m \in Nat : ~\E g : Turns(m, g)}
<1> HIDE DEF First, Step
<1>1. Never = {}
  <2> SUFFICES ASSUME Never # {}  PROVE FALSE
    BY Zenon
  <2>1. PICK m \in Never : \A j \in Never : m <= j
    <3>1. Never \subseteq Nat
      BY Zenon
    <3> HIDE DEF Never
    <3>. QED  BY <3>1, LeastNat, Zenon
  <2>2. m # 0
    <3>1. Turns(0, [i \in 0..0 |-> First])
      OBVIOUS
    <3> HIDE DEF Turns
    <3>. QED  BY <2>1, <3>1, Zenon
  <2>3. PICK g : Turns(m - 1, g)
    <3>1. m - 1 \in Nat /\ ~(m <= m - 1)
      BY <2>1, <2>2
    <3> HIDE DEF Turns
    <3>. QED  BY <2>1, <3>1, Zenon
  <2>4. Turns(m, [i \in 0..m |-> IF i = m THEN Step(g[m - 1], m) ELSE g[i]])
    BY <2>1, <2>2, <2>3
  <2> HIDE DEF Turns
  <2>. QED  BY <2>1, <2>4, Zenon
<1>2. Len(tocSections) \in Nat
  BY Zenon
<1>3. PICK g : Turns(Len(tocSections), g)
  BY <1>1, <1>2, Zenon
<1>. QED  BY <1>3, Zenon DEF EntryLoop, First, Step

\* The first i items lie one after the other in data, from their starts on.
Laid(items, i, data, starts) ==
  /\ data \in Seq(Cell) /\ starts \in Seq(Nat) /\ Len(starts) = i
  /\ \A j \in 1..i : At(data, starts[j], items[j])
  /\ i > 0 => starts[1] = 0
  /\ \A j \in 1..(i - 1) : starts[j + 1] = starts[j] + Len(items[j])
  /\ Len(data) = IF i = 0 THEN 0 ELSE starts[i] + Len(items[i])

LEMMA LaidStep ==
  ASSUME NEW items \in Seq(Seq(Cell)), NEW i \in 1..Len(items), NEW data, NEW starts, Laid(items, i - 1, data, starts)
  PROVE  Laid(items, i, data \o items[i], Append(starts, Len(data)))
<1> DEFINE item == items[i]
           all == data \o item
           t == Append(starts, Len(data))
           l == Len(data)
<1>1. data \in Seq(Cell) /\ starts \in Seq(Nat) /\ Len(starts) = i - 1
  BY Zenon DEF Laid
<1>2. \A j \in 1..(i - 1) : At(data, starts[j], items[j])
  BY Zenon DEF Laid
<1>3. /\ i - 1 > 0 => starts[1] = 0
      /\ \A j \in 1..((i - 1) - 1) : starts[j + 1] = starts[j] + Len(items[j])
      /\ l = IF i - 1 = 0 THEN 0 ELSE starts[i - 1] + Len(items[i - 1])
  BY Zenon DEF Laid
<1>4. item \in Seq(Cell)
  BY ElementOfSeq, Zenon
<1>5. l \in Nat /\ i \in Nat /\ i > 0 /\ i # 0
  BY <1>1
<1> HIDE DEF item, l
<1>6. /\ all \in Seq(Cell) /\ Len(all) = l + Len(item)
      /\ At(all, 0, data) /\ At(all, l, item)
  BY <1>1, <1>4, AtJoin, Zenon DEF l
<1>7. t = Append(starts, l)
  BY Zenon DEF l
<1> HIDE DEF all, t
<1>8. t \in Seq(Nat) /\ Len(t) = i /\ (\A j \in 1..(i - 1) : t[j] = starts[j]) /\ t[i] = l
  BY <1>1, <1>5, <1>7
<1>9. \A j \in 1..i : At(all, t[j], items[j])
  <2>1. \A j \in 1..i : j \in 1..(i - 1) \/ j = i
    OBVIOUS
  <2>2. \A j \in 1..(i - 1) : At(all, t[j], items[j])
    BY <1>2, <1>6, <1>8, AtKept, Zenon
  <2>. QED  BY <1>6, <1>8, <2>1, <2>2, Zenon DEF item
<1>10. t[1] = 0
  <2>1. CASE i = 1
    <3>1. i - 1 = 0
      BY <2>1
    <3>. QED  BY <1>3, <1>8, <2>1, <3>1, Zenon
  <2>2. CASE i # 1
    <3>1. i - 1 > 0 /\ 1 \in 1..(i - 1)
      BY <2>2
    <3>. QED  BY <1>3, <1>8, <3>1, Zenon
  <2>. QED  BY <2>1, <2>2, Zenon
<1>11. ASSUME NEW j \in 1..(i - 1)  PROVE t[j + 1] = t[j] + Len(items[j])
  <2>1. CASE j = i - 1
    <3>1. j + 1 = i /\ i - 1 # 0
      BY <2>1
    <3>. QED  BY <1>3, <1>8, <2>1, <3>1, Zenon
  <2>2. CASE j # i - 1
    <3>1. j \in 1..((i - 1) - 1) /\ j + 1 \in 1..(i - 1)
      BY <2>2
    <3>. QED  BY <1>3, <1>8, <3>1, Zenon
  <2>. QED  BY <2>1, <2>2, Zenon
<1>12. Len(all) = IF i = 0 THEN 0 ELSE t[i] + Len(items[i])
  BY <1>5, <1>6, <1>8, Zenon DEF item
<1>13. Laid(items, i, all, t)
  BY <1>6, <1>8, <1>9, <1>10, <1>11, <1>12, Zenon DEF Laid
<1>. QED  BY <1>13, Zenon DEF all, t, item

LEMMA ItemsLaid ==
  ASSUME NEW items \in Seq(Seq(Cell)), NEW s, s = ItemsLoop(items)[Len(items)]
  PROVE  Laid(items, Len(items), s.data, s.starts)
<1> DEFINE n == Len(items)
           h == ItemsLoop(items)
           s0 == [data |-> <<>>, starts |-> <<>>]
           G == {i \in 0..n : Laid(items, i, h[i].data, h[i].starts)}
<1>1. n \in Nat /\ n \in 0..n /\ 0 \in 0..n
  OBVIOUS
<1>2. h = [i \in 0..n |-> IF i = 0 THEN s0 ELSE addItem(h[i - 1], items[i])]
  BY <1>1, ItemsTurns, Zenon
<1>3. s = h[n]
  BY Zenon
<1> HIDE DEF h, n
<1>4. 0 \in G
  <2>1. h[0] = s0
    BY <1>1, <1>2, Zenon
  <2>2. h[0].data = <<>> /\ h[0].starts = <<>>
    BY <2>1
  <2>3. /\ <<>> \in Seq(Cell) /\ <<>> \in Seq(Nat) /\ Len(<<>>) = 0 /\ ~(0 > 0)
        /\ (\A j \in 1..0 : FALSE) /\ (\A j \in 1..(0 - 1) : FALSE)
    OBVIOUS
  <2>4. Laid(items, 0, <<>>, <<>>)
    BY <2>3 DEF Laid
  <2>. QED  BY <1>1, <2>2, <2>4, Zenon
<1>5. ASSUME NEW i \in 1..n, i - 1 \in G  PROVE i \in G
  <2>1. i \in 0..n /\ i # 0
    BY <1>1
  <2> DEFINE p == h[i - 1]
  <2>2. h[i] = addItem(p, items[i])
    BY <1>2, <2>1, Zenon
  <2> HIDE DEF p
  <2>3. h[i].data = p.data \o items[i] /\ h[i].starts = Append(p.starts, Len(p.data))
    <3> DEFINE a == p.data \o items[i]
               b == Append(p.starts, Len(p.data))
    <3>1. h[i] = [data |-> a, starts |-> b]
      BY <2>2, Zenon DEF addItem
    <3> HIDE DEF a, b
    <3>2. h[i].data = a /\ h[i].starts = b
      BY <3>1
    <3>. QED  BY <3>2, Zenon DEF a, b
  <2>4. Laid(items, i - 1, p.data, p.starts)
    BY <1>5, Zenon DEF p
  <2>5. Laid(items, i, p.data \o items[i], Append(p.starts, Len(p.data)))
    BY <2>4, LaidStep, Zenon DEF n
  <2>. QED  BY <2>1, <2>3, <2>5, Zenon
<1>6. n \in G
  <2> HIDE DEF G
  <2>. QED  BY <1>1, <1>4, <1>5, UpTo, Zenon
<1>. QED  BY <1>3, <1>6, Zenon DEF n

\* Where the items start in the file, the section starting at start.
StartsFrom(start, starts) == [j \in 1..Len(starts) |-> start + starts[j]]

\* What the entry e of the table of contents says of a section in the file.
SectionAt(buf, e, sec) ==
  /\ e \in Seq(0..Len(buf)) /\ Len(e) = IF sec.compound THEN 4 ELSE 2
  /\ \E data, starts :
       /\ Laid(sec.items, Len(sec.items), data, starts)
       /\ At(buf, e[1], data) /\ e[2] = Len(data)
       /\ sec.compound => At(buf, e[3], U32s(StartsFrom(e[1], starts))) /\ e[4] = 4 * Len(sec.items)

\* The section stays when more is written after it.
LEMMA SectionKept ==
  ASSUME NEW buf, NEW e, NEW sec, SectionAt(buf, e, sec), NEW f, At(f, 0, buf)
  PROVE  SectionAt(f, e, sec)
<1>1. PICK data, starts :
        /\ Laid(sec.items, Len(sec.items), data, starts)
        /\ At(buf, e[1], data) /\ e[2] = Len(data)
        /\ sec.compound => At(buf, e[3], U32s(StartsFrom(e[1], starts))) /\ e[4] = 4 * Len(sec.items)
  BY Zenon DEF SectionAt
<1>2. e \in Seq(0..Len(buf)) /\ Len(e) = IF sec.compound THEN 4 ELSE 2
  BY Zenon DEF SectionAt
<1>3. e \in Seq(0..Len(f))
  <2>1. f \in Seq(Cell) /\ buf \in Seq(Cell) /\ 0 + Len(buf) <= Len(f)
    BY Zenon DEF At
  <2>2. 0..Len(buf) \subseteq 0..Len(f)
    BY <2>1
  <2> DEFINE A == 0..Len(buf)
             B == 0..Len(f)
  <2>3. e \in Seq(A) /\ A \subseteq B
    BY <1>2, <2>2, Zenon
  <2> HIDE DEF A, B
  <2>4. e \in Seq(B)
    BY <2>3
  <2>. QED  BY <2>4, Zenon DEF B
<1>4. At(f, e[1], data)
  BY <1>1, AtKept, Zenon
<1>5. sec.compound => At(f, e[3], U32s(StartsFrom(e[1], starts)))
  BY <1>1, AtKept, Zenon
<1>. QED  BY <1>1, <1>2, <1>3, <1>4, <1>5, Zenon DEF SectionAt

Section == [name : tocNames, compound : BOOLEAN, items : Seq(Seq(Cell))]

\* The state of the writer.
Writer == [buf : Seq(Cell), toc : [tocNames -> Seq(Nat)]]

LEMMA TocUpdate ==
  ASSUME NEW toc \in [tocNames -> Seq(Nat)], NEW name \in tocNames, NEW v \in Seq(Nat), NEW t, t = [toc EXCEPT ![name] = v]
  PROVE  /\ t \in [tocNames -> Seq(Nat)] /\ t[name] = v
         /\ \A x \in tocNames : x # name => t[x] = toc[x]
<1> DEFINE N == tocNames
           V == Seq(Nat)
<1> HIDE DEF N, V
<1>1. toc \in [N -> V] /\ name \in N /\ v \in V
  BY Zenon DEF N, V
<1>2. t \in [N -> V] /\ t[name] = v /\ \A x \in N : x # name => t[x] = toc[x]
  BY <1>1
<1>. QED  BY <1>2, Zenon DEF N, V

LEMMA WriterRecord ==
  ASSUME NEW b \in Seq(Cell), NEW t \in [tocNames -> Seq(Nat)], NEW w, w = [buf |-> b, toc |-> t]
  PROVE  w \in Writer /\ w.buf = b /\ w.toc = t
BY DEF Writer

\* Entries are numbers, and offsets in what is written.
LEMMA Entry2 ==
  ASSUME NEW a \in Nat, NEW b \in Nat, NEW l \in Nat, a + b <= l, NEW e, e = <<a, b>>
  PROVE  e \in Seq(0..l) /\ e \in Seq(Nat) /\ Len(e) = 2 /\ e[1] = a /\ e[2] = b
<1>1. a \in 0..l /\ b \in 0..l
  OBVIOUS
<1>. QED  BY <1>1

LEMMA Entry4 ==
  ASSUME NEW S, NEW a \in S, NEW b \in S, NEW c \in S, NEW d \in S
  PROVE  /\ <<a, b, c, d>> \in Seq(S) /\ Len(<<a, b, c, d>>) = 4
         /\ <<a, b, c, d>>[1] = a /\ <<a, b, c, d>>[2] = b /\ <<a, b, c, d>>[3] = c /\ <<a, b, c, d>>[4] = d
  OBVIOUS

LEMMA LaidNumbers ==
  ASSUME NEW items, NEW n, NEW data, NEW starts, Laid(items, n, data, starts), NEW start \in Nat
  PROVE  /\ StartsFrom(start, starts) \in Seq(Nat) /\ Len(StartsFrom(start, starts)) = n
         /\ \A j \in 1..n : StartsFrom(start, starts)[j] = start + starts[j]
<1>1. starts \in Seq(Nat) /\ Len(starts) = n
  BY Zenon DEF Laid
<1>2. n \in Nat /\ \A j \in 1..n : starts[j] \in Nat
  BY <1>1
<1> DEFINE Y(j) == start + starts[j]
           t == StartsFrom(start, starts)
<1>3. \A j \in 1..n : Y(j) \in Nat
  BY <1>2
<1>4. t = [j \in 1..n |-> Y(j)]
  BY <1>1, Zenon DEF StartsFrom
<1> HIDE DEF Y, t
<1>5. t \in Seq(Nat) /\ Len(t) = n /\ \A j \in 1..n : t[j] = Y(j)
  BY <1>2, <1>3, <1>4
<1>. QED  BY <1>5, Zenon DEF Y, t

\* writeSection adds the section at the end of the file, and to the table of contents.
LEMMA SectionWritten ==
  ASSUME NEW w \in Writer, NEW sec \in Section, NEW w2, w2 = writeSection(w, sec)
  PROVE  /\ w2 \in Writer /\ At(w2.buf, 0, w.buf)
         /\ SectionAt(w2.buf, w2.toc[sec.name], sec)
         /\ \A x \in tocNames : x # sec.name => w2.toc[x] = w.toc[x]
<1> DEFINE items == sec.items
           n == Len(items)
           s == ItemsLoop(items)[n]
           data == s.data
           starts == s.starts
           buf == w.buf
           start == Len(buf)
           name == sec.name
           dl == Len(data)
           abs == [i \in DOMAIN starts |-> start + starts[i]]
           index == U32s(abs)
<1>1. buf \in Seq(Cell) /\ w.toc \in [tocNames -> Seq(Nat)]
  BY DEF Writer
<1>2. name \in tocNames /\ items \in Seq(Seq(Cell)) /\ sec.compound \in BOOLEAN
  BY DEF Section
<1>3. Laid(items, n, data, starts)
  BY <1>2, ItemsLaid
<1>4. w2 = EndSection(w, sec, s)
  BY Zenon DEF writeSection
<1> HIDE DEF s
<1>5. data \in Seq(Cell) /\ starts \in Seq(Nat) /\ Len(starts) = n
  BY <1>3, Zenon DEF Laid
<1>6. start \in Nat
  BY <1>1
<1>7. dl \in Nat
  BY <1>5
<1>8. n \in Nat
  BY <1>2
<1>9. DOMAIN starts = 1..Len(starts)
  BY <1>5
<1>10. abs = StartsFrom(start, starts)
  BY <1>9, Zenon DEF StartsFrom
<1> HIDE DEF abs, items, data, starts, name, dl, n, buf, start
<1>11. /\ abs \in Seq(Nat) /\ Len(abs) = n
  BY <1>3, <1>6, <1>10, LaidNumbers, Zenon
<1>12. index \in Seq(Cell) /\ Len(index) = 4 * n
  BY <1>11, U32sBytes, Zenon
<1> HIDE DEF index
<1>13. /\ buf \o data \in Seq(Cell) /\ Len(buf \o data) = start + dl
       /\ At(buf \o data, 0, buf) /\ At(buf \o data, start, data)
  BY <1>1, <1>5, AtJoin, Zenon DEF start, dl
<1>14. CASE ~sec.compound
  <2> DEFINE b == buf \o data
             e == <<start, dl>>
             toc == [w.toc EXCEPT ![name] = e]
  <2>1. w2 = [buf |-> b, toc |-> toc]
    BY <1>4, <1>14, Zenon DEF EndSection, buf, data, start, dl, name
  <2> HIDE DEF b, e, toc
  <2>2. e \in Seq(0..(start + dl)) /\ e \in Seq(Nat) /\ Len(e) = 2 /\ e[1] = start /\ e[2] = dl
    <3>1. start + dl \in Nat /\ start + dl <= start + dl
      BY <1>6, <1>7
    <3>. QED  BY <1>6, <1>7, <3>1, Entry2 DEF e
  <2>3. /\ toc \in [tocNames -> Seq(Nat)] /\ toc[name] = e
        /\ \A x \in tocNames : x # name => toc[x] = w.toc[x]
    BY <1>1, <1>2, <2>2, TocUpdate DEF toc
  <2>4. w2 \in Writer /\ w2.buf = b /\ w2.toc = toc
    <3>1. b \in Seq(Cell)
      BY <1>13, Zenon DEF b
    <3>. QED  BY <2>1, <2>3, <3>1, WriterRecord
  <2>5. SectionAt(b, e, sec)
    BY <1>3, <1>13, <1>14, <2>2, Zenon DEF SectionAt, b, items, n, dl
  <2>. QED  BY <1>13, <2>3, <2>4, <2>5, Zenon DEF b, name, buf
<1>15. CASE sec.compound
  <2> DEFINE b == buf \o data \o index
             end == start + dl
             e == <<start, dl, end, Len(index)>>
             toc == [w.toc EXCEPT ![name] = e]
  <2>1. w2 = [buf |-> b, toc |-> toc]
    BY <1>4, <1>15, Zenon DEF EndSection, buf, data, start, dl, name, index, abs, starts
  <2> HIDE DEF b, e, toc
  <2>2. /\ b \in Seq(Cell) /\ Len(b) = (start + dl) + Len(index)
        /\ At(b, 0, buf \o data) /\ At(b, start + dl, index)
    BY <1>12, <1>13, AtJoin, Zenon DEF b
  <2>3. At(b, 0, buf) /\ At(b, start, data)
    BY <1>13, <2>2, AtKept, Zenon
  <2>4. 4 * n \in Nat /\ end \in Nat /\ (start + dl) + (4 * n) \in Nat
    BY <1>6, <1>7, <1>8
  <2>5. /\ e \in Seq(0..Len(b)) /\ e \in Seq(Nat) /\ Len(e) = 4
        /\ e[1] = start /\ e[2] = dl /\ e[3] = end /\ e[4] = 4 * n
    <3> DEFINE x == 4 * n
               l == (start + dl) + x
    <3>1. e = <<start, dl, end, x>> /\ Len(b) = l
      BY <1>12, <2>2, Zenon DEF e
    <3>2. x \in Nat /\ l \in Nat
      BY <2>4, Zenon
    <3> HIDE DEF x
    <3>3. start + dl <= l /\ end + x <= l
      BY <1>6, <1>7, <3>2
    <3> HIDE DEF l, end
    <3>4. /\ e \in Seq(0..l) /\ e \in Seq(Nat) /\ Len(e) = 4
          /\ e[1] = start /\ e[2] = dl /\ e[3] = end /\ e[4] = x
      <4>1. end \in Nat
        BY <2>4, Zenon
      <4>2. start \in 0..l /\ dl \in 0..l /\ end \in 0..l /\ x \in 0..l
        BY <1>6, <1>7, <3>2, <3>3, <4>1
      <4>3. /\ <<start, dl, end, x>> \in Seq(0..l) /\ Len(<<start, dl, end, x>>) = 4
            /\ <<start, dl, end, x>>[1] = start /\ <<start, dl, end, x>>[2] = dl
            /\ <<start, dl, end, x>>[3] = end /\ <<start, dl, end, x>>[4] = x
        BY <4>2, Entry4, Zenon
      <4>4. <<start, dl, end, x>> \in Seq(Nat)
        BY <1>6, <1>7, <3>2, <4>1, Entry4, Zenon
      <4>. QED  BY <3>1, <4>3, <4>4, Zenon
    <3>. QED  BY <3>1, <3>4, Zenon DEF x
  <2>6. /\ toc \in [tocNames -> Seq(Nat)] /\ toc[name] = e
        /\ \A x \in tocNames : x # name => toc[x] = w.toc[x]
    BY <1>1, <1>2, <2>5, TocUpdate DEF toc
  <2>7. w2 \in Writer /\ w2.buf = b /\ w2.toc = toc
    BY <2>1, <2>2, <2>6, WriterRecord
  <2>8. At(b, e[1], data) /\ e[2] = Len(data)
    BY <2>3, <2>5, Zenon DEF dl
  <2>9. At(b, e[3], U32s(StartsFrom(e[1], starts)))
    BY <1>10, <2>2, <2>5, Zenon DEF index
  <2>10. SectionAt(b, e, sec)
    BY <1>3, <1>15, <2>5, <2>8, <2>9, Zenon DEF SectionAt, items, n
  <2>. QED  BY <2>3, <2>6, <2>7, <2>10, Zenon DEF name, buf
<1>. QED  BY <1>14, <1>15, Zenon

\* The sections of an index file, each of them once.
IsSections(secs) ==
  /\ secs \in Seq(Section)
  /\ \A j \in 1..Len(secs) : /\ secs[j].compound <=> isCompound(secs[j].name)
                             /\ ~secs[j].compound => Len(secs[j].items) = 1
  /\ \A j, k \in 1..Len(secs) : secs[j].name = secs[k].name => j = k
  /\ \A name \in tocNames : \E j \in 1..Len(secs) : secs[j].name = name

\* The first i sections are written.
Written(secs, i, w) ==
  w \in Writer /\ \A j \in 1..i : SectionAt(w.buf, w.toc[secs[j].name], secs[j])

LEMMA SectionsWritten ==
  ASSUME NEW secs, IsSections(secs)
  PROVE  Written(secs, Len(secs), WriteLoop(secs)[Len(secs)])
<1> DEFINE n == Len(secs)
           h == WriteLoop(secs)
           w0 == [buf |-> <<>>, toc |-> [name \in tocNames |-> <<>>]]
           G == {i \in 0..n : Written(secs, i, h[i])}
<1>1. secs \in Seq(Section) /\ \A j, k \in 1..n : secs[j].name = secs[k].name => j = k
  BY Zenon DEF IsSections
<1>2. n \in Nat
  BY <1>1
<1>3. n \in 0..n /\ 0 \in 0..n
  BY <1>2
<1>4. h = [i \in 0..n |-> IF i = 0 THEN w0 ELSE writeSection(h[i - 1], secs[i])]
  BY <1>2, WriteTurns, Zenon
<1> HIDE DEF h, n
<1>5. 0 \in G
  <2>1. h[0] = w0
    BY <1>3, <1>4, Zenon
  <2> DEFINE t == [name \in tocNames |-> <<>>]
  <2>2. <<>> \in Seq(Cell) /\ <<>> \in Seq(Nat)
    OBVIOUS
  <2>3. t \in [tocNames -> Seq(Nat)]
    BY <2>2, Zenon
  <2> HIDE DEF t
  <2>4. w0 \in Writer
    BY <2>2, <2>3, WriterRecord DEF t
  <2>5. \A j \in 1..0 : FALSE
    OBVIOUS
  <2> HIDE DEF w0
  <2>. QED  BY <1>3, <2>1, <2>4, <2>5, Zenon DEF Written
<1>6. ASSUME NEW i \in 1..n, i - 1 \in G  PROVE i \in G
  <2> DEFINE w == h[i - 1]
             sec == secs[i]
             w2 == h[i]
  <2>1. i \in 0..n /\ i # 0 /\ \A j \in 1..i : j \in 1..n /\ (j = i \/ j \in 1..(i - 1))
    BY <1>2
  <2>2. w2 = writeSection(w, sec)
    BY <1>4, <2>1, Zenon
  <2>3. w \in Writer /\ \A j \in 1..(i - 1) : SectionAt(w.buf, w.toc[secs[j].name], secs[j])
    BY <1>6, Zenon DEF Written
  <2>4. sec \in Section
    BY <1>1, ElementOfSeq, Zenon DEF n
  <2> HIDE DEF w, w2, sec
  <2>5. /\ w2 \in Writer /\ At(w2.buf, 0, w.buf)
        /\ SectionAt(w2.buf, w2.toc[sec.name], sec)
        /\ \A x \in tocNames : x # sec.name => w2.toc[x] = w.toc[x]
    BY <2>2, <2>3, <2>4, SectionWritten
  <2>6. ASSUME NEW j \in 1..(i - 1)  PROVE SectionAt(w2.buf, w2.toc[secs[j].name], secs[j])
    <3>1. j \in 1..n /\ j # i
      BY <1>2
    <3>2. secs[j] \in Section
      BY <1>1, <3>1, ElementOfSeq, Zenon DEF n
    <3>3. secs[j].name \in tocNames
      BY <3>2 DEF Section
    <3>4. secs[j].name # sec.name
      BY <1>1, <3>1, Zenon DEF sec
    <3>5. w2.toc[secs[j].name] = w.toc[secs[j].name]
      BY <2>5, <3>3, <3>4, Zenon
    <3>6. SectionAt(w2.buf, w.toc[secs[j].name], secs[j])
      BY <2>3, <2>5, SectionKept, Zenon
    <3>. QED  BY <3>5, <3>6, Zenon
  <2>7. \A j \in 1..i : SectionAt(w2.buf, w2.toc[secs[j].name], secs[j])
    BY <2>1, <2>5, <2>6, Zenon DEF sec
  <2>8. Written(secs, i, w2)
    BY <2>5, <2>7, Zenon DEF Written
  <2>. QED  BY <2>1, <2>8, Zenon DEF w2
<1>7. n \in G
  <2> HIDE DEF G
  <2>. QED  BY <1>2, <1>3, <1>5, <1>6, UpTo, Zenon
<1>. QED  BY <1>7, Zenon DEF h, n

(***************************************************************************)
(* The table of contents.                                                  *)
(***************************************************************************)
\* The code knows 19 sections.
LEMMA SectionCount ==
  /\ Len(tocSections) = 19 /\ DOMAIN tocSections = 1..Len(tocSections)
  /\ Len(tocSections) \in UInt32
  /\ \A k \in 1..Len(tocSections) : tocSections[k] \in tocNames
  /\ \A name : EntryLen(name) \in {2, 4}
<1>1. Len(tocSections) = 19 /\ DOMAIN tocSections = 1..19
  BY SMT DEF tocSections
<1>2. DOMAIN tocSections = 1..Len(tocSections)
  BY <1>1, Zenon
<1>3. \A k \in 1..Len(tocSections) : tocSections[k] \in tocNames
  BY <1>2, Zenon DEF tocNames
<1>4. \A name : EntryLen(name) \in {2, 4}
  BY Zenon DEF EntryLen
<1>5. 19 \in UInt32
  <2>1. byteBase \in Nat /\ byteBase >= 4
    BY Zenon, CodingsAssumption
  <2>2. ASSUME NEW b \in Nat, b >= 4  PROVE b * b \in Nat /\ b * b >= 16
    BY <2>2
  <2>3. ASSUME NEW b \in Nat, b >= 16, NEW c \in Nat, c >= 4  PROVE b * c \in Nat /\ b * c >= 64
    BY <2>3
  <2>4. byteBase * byteBase \in Nat /\ byteBase * byteBase >= 16
    BY <2>1, <2>2, Zenon
  <2>5. byteBase * byteBase * byteBase \in Nat /\ byteBase * byteBase * byteBase >= 64
    BY <2>1, <2>3, <2>4, Zenon
  <2>6. byteBase * byteBase * byteBase >= 16
    BY <2>5
  <2>7. wordBase \in Nat /\ wordBase >= 64
    BY <2>1, <2>3, <2>5, <2>6, Zenon DEF wordBase
  <2>. QED  BY <2>7 DEF UInt32, maxUInt32
<1>. QED  BY <1>1, <1>2, <1>3, <1>4, <1>5, Zenon

\* Each section has an entry of the right size.
IsToc(toc) ==
  \A k \in 1..Len(tocSections) : /\ toc[tocSections[k]] \in Seq(Nat)
                                 /\ Len(toc[tocSections[k]]) = EntryLen(tocSections[k])

\* The bytes t hold the first k entries, which a reader that starts at off passes one after the other.
Entries(toc, off, k, t) ==
  /\ t \in Seq(Cell) /\ EntryLoop(off)[k] = off + Len(t)
  /\ At(t, 0, U32s(<<Len(tocSections)>>))
  /\ \A j \in 1..k : \E o \in Nat : /\ EntryLoop(off)[j - 1] = off + o
                                    /\ At(t, o, U32s(toc[tocSections[j]]))

LEMMA TocWritten ==
  ASSUME NEW toc, IsToc(toc), NEW off \in Nat
  PROVE  Entries(toc, off, Len(tocSections), writeTOC(toc))
<1> DEFINE n == Len(tocSections)
           h == TocLoop(toc)
           e == EntryLoop(off)
           count == U32s(<<n>>)
           G == {k \in 0..n : Entries(toc, off, k, h[k])}
<1>1. n \in Nat
  BY SectionCount
<1>2. n \in 0..n /\ 0 \in 0..n
  BY <1>1
<1>3. h = [i \in 0..n |-> IF i = 0 THEN count ELSE h[i - 1] \o U32s(toc[tocSections[i]])]
  BY <1>1, TocTurns, Zenon
<1>4. e = [i \in 0..n |-> IF i = 0 THEN off + 4 ELSE e[i - 1] + 4 * EntryLen(tocSections[i])]
  BY <1>1, EntryTurns, Zenon
<1>5. count \in Seq(Cell) /\ Len(count) = 4
  <2>1. <<n>> \in Seq(Nat) /\ Len(<<n>>) = 1
    BY <1>1
  <2> HIDE DEF n
  <2>2. count \in Seq(Cell) /\ Len(count) = 4 * 1
    BY <2>1, U32sBytes, Zenon
  <2>. QED  BY <2>2
<1> HIDE DEF h, n, e, count
<1>6. 0 \in G
  <2>1. h[0] = count /\ e[0] = off + 4
    BY <1>2, <1>3, <1>4, Zenon
  <2>2. At(count, 0, count)
    BY <1>5 DEF At
  <2>3. \A j \in 1..0 : FALSE
    OBVIOUS
  <2>4. Entries(toc, off, 0, h[0])
    BY <1>5, <2>1, <2>2, <2>3, Zenon DEF Entries, e, count, n
  <2>. QED  BY <1>2, <2>4, Zenon
<1>7. ASSUME NEW k \in 1..n, k - 1 \in G  PROVE k \in G
  <2> DEFINE t == h[k - 1]
             u == U32s(toc[tocSections[k]])
             l == EntryLen(tocSections[k])
  <2>1. k \in 0..n /\ k # 0 /\ \A j \in 1..k : j \in 1..n /\ (j = k \/ j \in 1..(k - 1))
    BY <1>1
  <2>2. h[k] = t \o u /\ e[k] = e[k - 1] + 4 * l
    BY <1>3, <1>4, <2>1, Zenon
  <2>3. /\ t \in Seq(Cell) /\ e[k - 1] = off + Len(t) /\ At(t, 0, count)
        /\ \A j \in 1..(k - 1) : \E o \in Nat : e[j - 1] = off + o /\ At(t, o, U32s(toc[tocSections[j]]))
    BY <1>7, Zenon DEF Entries, e, count, n
  <2>4. u \in Seq(Cell) /\ Len(u) = 4 * l
    BY U32sBytes, Zenon DEF IsToc, n
  <2>5. Len(t) \in Nat /\ l \in Nat
    <3>1. l \in Nat
      <4>1. l \in {2, 4}
        BY SectionCount, Zenon
      <4> HIDE DEF l
      <4>. QED  BY <4>1
    <3>2. Len(t) \in Nat
      BY <2>3
    <3>. QED  BY <3>1, <3>2, Zenon
  <2> HIDE DEF t, u, l
  <2>6. /\ h[k] \in Seq(Cell) /\ Len(h[k]) = Len(t) + Len(u)
        /\ At(h[k], 0, t) /\ At(h[k], Len(t), u)
    BY <2>2, <2>3, <2>4, AtJoin, Zenon
  <2>7. e[k] = off + Len(h[k])
    BY <2>2, <2>3, <2>4, <2>5, <2>6
  <2>8. At(h[k], 0, count)
    BY <2>3, <2>6, AtKept, Zenon
  <2>9. ASSUME NEW j \in 1..k  PROVE \E o \in Nat : e[j - 1] = off + o /\ At(h[k], o, U32s(toc[tocSections[j]]))
    <3>1. CASE j = k
      BY <2>3, <2>5, <2>6, <3>1, Zenon DEF u
    <3>2. CASE j \in 1..(k - 1)
      BY <2>3, <2>6, <3>2, AtKept, Zenon
    <3>. QED  BY <2>1, <3>1, <3>2, Zenon
  <2>10. Entries(toc, off, k, h[k])
    BY <2>6, <2>7, <2>8, <2>9, Zenon DEF Entries, e, count, n
  <2>. QED  BY <2>1, <2>10, Zenon
<1>8. n \in G
  <2> HIDE DEF G
  <2>. QED  BY <1>1, <1>2, <1>6, <1>7, UpTo, Zenon
<1>. QED  BY <1>8, Zenon DEF h, n, writeTOC

(***************************************************************************)
(* The whole file.                                                         *)
(***************************************************************************)
\* f is the file of these sections and this table of contents, mapped in whole pages.
IsFile(f, buf, toc) ==
  /\ At(f.data, 0, buf) /\ At(f.data, Len(buf), toc)
  /\ f.size = (Len(buf) + Len(toc)) + 8 /\ f.size <= Len(f.data)
  /\ At(f.data, Len(buf) + Len(toc), U32s(<<Len(buf), Len(toc)>>))

LEMMA FileWritten ==
  ASSUME NEW buf \in Seq(Cell), NEW toc \in Seq(Cell), NEW f, f = NewIndexFile(EndFile(buf, toc))
  PROVE  IsFile(f, buf, toc) /\ f.size = Len(EndFile(buf, toc))
<1> DEFINE l == Len(buf)
           m == Len(toc)
           tail == U32s(<<l, m>>)
           body == buf \o toc
           bytes == body \o tail
           pad == [i \in 1..((-Len(bytes)) % pageSize) |-> 0]
           all == bytes \o pad
<1>1. l \in Nat /\ m \in Nat
  OBVIOUS
<1>2. tail \in Seq(Cell) /\ Len(tail) = 8
  <2>1. <<l, m>> \in Seq(Nat) /\ Len(<<l, m>>) = 2
    BY <1>1
  <2> HIDE DEF l, m
  <2>2. tail \in Seq(Cell) /\ Len(tail) = 4 * 2
    BY <2>1, U32sBytes, Zenon
  <2>. QED  BY <2>2
<1>3. EndFile(buf, toc) = bytes
  BY Zenon DEF EndFile
<1> HIDE DEF l, m, tail
<1>4. body \in Seq(Cell) /\ Len(body) = l + m /\ At(body, 0, buf) /\ At(body, l, toc)
  BY AtJoin, Zenon DEF l, m
<1> HIDE DEF body
<1>5. bytes \in Seq(Cell) /\ Len(bytes) = (l + m) + 8 /\ At(bytes, 0, body) /\ At(bytes, l + m, tail)
  <2>1. /\ bytes \in Seq(Cell) /\ Len(bytes) = Len(body) + Len(tail)
        /\ At(bytes, 0, body) /\ At(bytes, Len(body), tail)
    BY <1>2, <1>4, AtJoin, Zenon
  <2> HIDE DEF bytes
  <2>. QED  BY <1>2, <1>4, <2>1, Zenon
<1> HIDE DEF bytes
<1>6. pad \in Seq(Cell)
  <2> DEFINE p == (-Len(bytes)) % pageSize
  <2>1. Len(bytes) \in Nat /\ pageSize \in Nat /\ pageSize > 0
    BY <1>1, <1>5, PageAssumption
  <2>2. p \in Nat
    BY <2>1
  <2>3. 0 \in Cell
    <3>1. 0 \in Byte
      BY Bases DEF Byte
    <3>. QED  BY <3>1, Zenon DEF Cell
  <2> HIDE DEF p
  <2>4. pad = [i \in 1..p |-> 0]
    BY Zenon DEF p
  <2> HIDE DEF pad
  <2>. QED  BY <2>2, <2>3, <2>4
<1> HIDE DEF pad
<1>7. all \in Seq(Cell) /\ Len(all) = Len(bytes) + Len(pad) /\ At(all, 0, bytes)
  BY <1>5, <1>6, AtJoin, Zenon
<1>8. f.size = Len(bytes) /\ f.data = all
  BY <1>3 DEF NewIndexFile, pad
<1> HIDE DEF all
<1>9. f.size <= Len(all)
  BY <1>5, <1>6, <1>7, <1>8
<1>10. At(all, 0, body) /\ At(all, l + m, tail)
  BY <1>5, <1>7, AtKept, Zenon
<1>11. At(all, 0, buf) /\ At(all, l, toc)
  BY <1>4, <1>10, AtKept, Zenon
<1>. QED  BY <1>3, <1>5, <1>8, <1>9, <1>10, <1>11, Zenon DEF IsFile, l, m, tail

\* The first number of those at off.
LEMMA U32First ==
  ASSUME NEW f, NEW off \in Nat, NEW ns \in Seq(Nat), At(f.data, off, U32s(ns)), Len(ns) > 0, ns[1] \in UInt32
  PROVE  U32(f, off) = ns[1]
<1>1. \A i \in 1..Len(ns) : ns[i] \in UInt32 => U32(f, off + 4 * (i - 1)) = ns[i]
  BY U32Reads, Zenon
<1>2. PICK i \in 1..Len(ns) : i = 1
  OBVIOUS
<1>3. off + 4 * (i - 1) = off
  BY <1>2
<1>4. ns[i] = ns[1]
  BY <1>2, Zenon
<1>. QED  BY <1>1, <1>3, <1>4, Zenon

\* The table of contents that is read is the one that was written.
LEMMA TocReadBack ==
  ASSUME NEW toc, IsToc(toc), NEW f, NEW buf, IsFile(f, buf, writeTOC(toc)), f.size \in UInt32,
         \A k \in 1..Len(tocSections) : \A i \in 1..EntryLen(tocSections[k]) : toc[tocSections[k]][i] \in UInt32
  PROVE  /\ ~readTOC(f).err
         /\ \A name \in tocNames : /\ readTOC(f).secs[name] \in Seq(UInt32)
                                   /\ Len(readTOC(f).secs[name]) = EntryLen(name)
                                   /\ \A i \in 1..EntryLen(name) : readTOC(f).secs[name][i] = toc[name][i]
<1> DEFINE n == Len(tocSections)
           l == Len(buf)
           t == writeTOC(toc)
           m == Len(t)
           at == U32(f, f.size - 8)
           E(name) == [i \in 1..EntryLen(name) |-> U32(f, EntryLoop(at)[SectionNumber(name) - 1] + 4 * (i - 1))]
<1>1. /\ At(f.data, l, t) /\ f.size = (l + m) + 8
      /\ At(f.data, l + m, U32s(<<l, m>>))
  BY Zenon DEF IsFile
<1>2. buf \in Seq(Cell) /\ t \in Seq(Cell)
  BY Zenon DEF IsFile, At
<1>3. l \in Nat /\ m \in Nat
  BY <1>2
<1>4. l \in UInt32
  <2> HIDE DEF l, m
  <2>. QED  BY Bases, <1>1, <1>3 DEF UInt32, maxUInt32
<1>5. at = l
  <2>1. <<l, m>> \in Seq(Nat) /\ Len(<<l, m>>) = 2 /\ <<l, m>>[1] = l
    BY <1>3
  <2> DEFINE ns == <<l, m>>
             o == l + m
  <2>2. Len(ns) > 0 /\ o \in Nat /\ ns[1] \in UInt32 /\ ns \in Seq(Nat) /\ ns[1] = l
    BY <1>3, <1>4, <2>1
  <2>3. At(f.data, o, U32s(ns))
    BY <1>1, Zenon
  <2>4. f.size - 8 = o
    <3> HIDE DEF l, m
    <3>. QED  BY <1>1, <1>3
  <2> HIDE DEF ns, o
  <2>5. U32(f, o) = ns[1]
    BY <2>2, <2>3, U32First, Zenon
  <2>. QED  BY <2>2, <2>4, <2>5, Zenon
<1>6. /\ EntryLoop(l)[n] = l + Len(t) /\ At(t, 0, U32s(<<n>>))
      /\ \A j \in 1..n : \E o \in Nat : EntryLoop(l)[j - 1] = l + o /\ At(t, o, U32s(toc[tocSections[j]]))
  BY <1>3, TocWritten, Zenon DEF Entries
<1>7. U32(f, l) = n
  <2> DEFINE ns == <<n>>
  <2>1. ns \in Seq(Nat) /\ Len(ns) = 1 /\ ns[1] = n /\ n \in UInt32
    <3>1. n \in UInt32 /\ n \in Nat
      BY SectionCount
    <3> HIDE DEF n
    <3>. QED  BY <3>1
  <2>2. At(f.data, l + 0, U32s(ns))
    BY <1>1, <1>6, AtPart, Zenon
  <2>3. Len(ns) > 0 /\ l + 0 = l
    BY <1>3, <2>1
  <2> HIDE DEF ns
  <2>4. U32(f, l) = ns[1]
    BY <1>3, <2>1, <2>2, <2>3, U32First, Zenon
  <2>. QED  BY <2>1, <2>4, Zenon
<1>8. /\ readTOC(f).err <=> U32(f, at) # n
      /\ readTOC(f).secs = [name \in tocNames |-> E(name)]
  BY DEF readTOC
<1>9. ASSUME NEW name \in tocNames
      PROVE  /\ E(name) \in Seq(UInt32) /\ Len(E(name)) = EntryLen(name)
             /\ \A i \in 1..EntryLen(name) : E(name)[i] = toc[name][i]
  <2> DEFINE k == SectionNumber(name)
             c == EntryLen(name)
             ns == toc[name]
             start == EntryLoop(l)[k - 1]
  <2>1. k \in 1..n /\ tocSections[k] = name
    BY SectionCount, Zenon DEF SectionNumber, tocNames
  <2>2. ns \in Seq(Nat) /\ Len(ns) = c /\ \A i \in 1..c : ns[i] \in UInt32
    BY <2>1, Zenon DEF IsToc
  <2>3. c \in Nat
    <3>1. c \in {2, 4}
      BY SectionCount, Zenon
    <3> HIDE DEF c
    <3>. QED  BY <3>1
  <2> HIDE DEF k, c, ns
  <2>4. PICK o \in Nat : start = l + o /\ At(t, o, U32s(ns))
    BY <1>6, <2>1, Zenon DEF ns
  <2> HIDE DEF start
  <2>5. At(f.data, start, U32s(ns))
    BY <1>1, <2>4, AtPart, Zenon
  <2>6. E(name) = [i \in 1..c |-> U32(f, start + 4 * (i - 1))]
    BY <1>5, Zenon DEF start, k, c
  <2>7. \A i \in 1..c : U32(f, start + 4 * (i - 1)) = ns[i]
    BY <2>2, <2>5, U32Reads, Zenon
  <2> HIDE DEF E
  <2>8. E(name) = [i \in 1..c |-> ns[i]]
    BY <2>6, <2>7, Zenon
  <2>9. E(name) \in Seq(UInt32) /\ Len(E(name)) = c /\ \A i \in 1..c : E(name)[i] = ns[i]
    BY <2>2, <2>3, <2>8
  <2>. QED  BY <2>9, Zenon DEF c, ns
<1> HIDE DEF E
<1>. QED  BY <1>5, <1>7, <1>8, <1>9, Zenon

(***************************************************************************)
(* Reading a section.                                                      *)
(***************************************************************************)
\* A list of numbers is read as it was written.
LEMMA NumbersRead ==
  ASSUME NEW f, NEW sec, NEW ns \in Seq(UInt32), At(f.data, sec[1], U32s(ns)), sec[2] = 4 * Len(ns)
  PROVE  readSectionU32(f, sec) = ns
<1> DEFINE n == Len(ns)
           off == sec[1]
<1>1. n \in Nat /\ ns \in Seq(Nat) /\ \A i \in 1..n : ns[i] \in UInt32
  BY Bases DEF UInt32, maxUInt32
<1>2. \A i \in 1..n : U32(f, off + 4 * (i - 1)) = ns[i]
  BY <1>1, U32Reads, Zenon
<1>3. sec[2] \div 4 = n
  <2>1. sec[2] = 4 * n
    BY Zenon
  <2> HIDE DEF n
  <2>. QED  BY <1>1, <2>1
<1>4. readSectionU32(f, sec) = [i \in 1..n |-> U32(f, off + 4 * (i - 1))]
  BY <1>3, Zenon DEF readSectionU32
<1>5. readSectionU32(f, sec) = [i \in 1..n |-> ns[i]]
  BY <1>2, <1>4, Zenon
<1>. QED  BY <1>5

\* A section of one item holds that item.
LEMMA LaidOne ==
  ASSUME NEW items \in Seq(Seq(Cell)), Len(items) = 1, NEW data, NEW starts, Laid(items, 1, data, starts)
  PROVE  data = items[1]
<1> DEFINE b == items[1]
           o == starts[1]
<1>1. data \in Seq(Cell) /\ (\A j \in 1..1 : At(data, starts[j], items[j])) /\ (1 > 0 => o = 0)
  BY Zenon DEF Laid
<1>2. Len(data) = IF 1 = 0 THEN 0 ELSE o + Len(b)
  BY Zenon DEF Laid
<1>3. o = 0 /\ 1 \in 1..1
  BY <1>1
<1>4. b \in Seq(Cell) /\ \A i \in 1..Len(b) : data[o + i] = b[i]
  BY <1>1, <1>3, Zenon DEF At
<1> HIDE DEF b, o
<1>5. Len(data) = Len(b) /\ \A i \in 1..Len(b) : data[i] = b[i]
  BY <1>2, <1>3, <1>4
<1>6. data = b
  BY <1>1, <1>4, <1>5
<1>. QED  BY <1>6, Zenon DEF b

\* The index of a compound section holds where its items start.
IsIndex(f, sec, start, starts) ==
  /\ start \in Nat /\ starts \in Seq(Nat) /\ Len(starts) > 0 /\ starts[1] = 0
  /\ readSectionU32(f, <<sec[3], sec[4]>>) = StartsFrom(start, starts)

\* relativeIndex: where the items start in the section, and where the last one ends.
LEMMA IndexRead ==
  ASSUME NEW f, NEW sec, NEW start, NEW starts, IsIndex(f, sec, start, starts)
  PROVE  /\ \A j \in 1..Len(starts) : relativeIndex(f, sec)[j] = starts[j]
         /\ relativeIndex(f, sec)[Len(starts) + 1] = sec[2]
<1> DEFINE n == Len(starts)
           offs == StartsFrom(start, starts)
           rel == [i \in DOMAIN offs |-> offs[i] - offs[1]]
<1>0. /\ start \in Nat /\ starts \in Seq(Nat) /\ Len(starts) > 0 /\ starts[1] = 0
      /\ readSectionU32(f, <<sec[3], sec[4]>>) = offs
  BY Zenon DEF IsIndex
<1>1. n \in Nat /\ n > 0 /\ 1 \in 1..n /\ \A j \in 1..n : starts[j] \in Nat
  BY <1>0
<1>2. offs = [j \in 1..n |-> start + starts[j]]
  BY Zenon DEF StartsFrom
<1>3. DOMAIN offs = 1..n /\ \A j \in 1..n : offs[j] = start + starts[j]
  BY <1>2, Zenon
<1>4. offs # <<>>
  <2>1. DOMAIN <<>> = {}
    OBVIOUS
  <2> HIDE DEF n, offs
  <2>. QED  BY <1>1, <1>3, <2>1, Zenon
<1> HIDE DEF offs
<1>5. relativeIndex(f, sec) = Append(rel, sec[2])
  BY <1>0, <1>4, Zenon DEF relativeIndex
<1>6. \A j \in 1..n : offs[j] - offs[1] = starts[j]
  <2>1. \A j \in 1..n : starts[j] \in Nat /\ offs[j] = start + starts[j]
    BY <1>1, <1>3, Zenon
  <2>2. offs[1] = start + 0
    BY <1>0, <1>1, <1>3, Zenon
  <2>. QED  BY <1>0, <2>1, <2>2
<1>7. rel = [j \in 1..n |-> starts[j]]
  BY <1>3, <1>6, Zenon
<1> HIDE DEF rel
<1>8. rel = starts
  BY <1>0, <1>7
<1> HIDE DEF n
<1>9. \A j \in 1..Len(starts) : Append(starts, sec[2])[j] = starts[j]
  BY <1>0
<1>10. Append(starts, sec[2])[Len(starts) + 1] = sec[2]
  BY <1>0
<1>. QED  BY <1>5, <1>8, <1>9, <1>10, Zenon

\* What a reader finds through the entry e: no read is out of bounds, and the items are the ones written.
ReadsBack(f, e, sec) ==
  /\ ~OutOfBounds(f, e[1], e[2])
  /\ ~sec.compound => readSectionBlob(f, e) = sec.items[1]
  /\ sec.compound => /\ ~OutOfBounds(f, e[3], e[4]) /\ e[4] % 4 = 0
                     /\ \A i \in 0..(Len(sec.items) - 1) :
                          ItemOf(f, e[1], relativeIndex(f, e), i) = sec.items[i + 1]

LEMMA InBounds ==
  ASSUME NEW f, NEW off, NEW b, At(f.data, off, b), NEW sz, sz = Len(b)
  PROVE  ~OutOfBounds(f, off, sz)
<1> DEFINE l == Len(f.data)
<1>1. off \in Nat /\ b \in Seq(Cell) /\ f.data \in Seq(Cell) /\ off + Len(b) <= l
  BY Zenon DEF At
<1>2. sz \in Nat /\ l \in Nat
  BY <1>1
<1> DEFINE x == off + sz
<1>3. x \in Nat /\ x <= l
  BY <1>1, <1>2
<1> HIDE DEF x, l
<1>4. x % wordBase <= x
  <2>1. \A w \in Nat : w > 0 => x % w <= x
    BY <1>3
  <2>. QED  BY <2>1, Bases, Zenon
<1>5. x % wordBase \in Nat
  BY <1>3, Bases
<1>6. ~(x % wordBase > l)
  BY <1>2, <1>3, <1>4, <1>5
<1>. QED  BY <1>6, Zenon DEF OutOfBounds, x, l

LEMMA ItemRead ==
  ASSUME NEW f, NEW start \in Nat, NEW index, NEW i \in Nat, NEW at \in Nat, NEW b, At(f.data, start + at, b),
         index[i + 1] = at, index[i + 2] = at + Len(b)
  PROVE  ItemOf(f, start, index, i) = b
<1> DEFINE o == start + at
<1>1. b \in Seq(Cell)
  BY Zenon DEF At
<1>2. index[i + 2] - index[i + 1] = Len(b)
  <2>1. Len(b) \in Nat
    BY <1>1
  <2>2. (at + Len(b)) - at = Len(b)
    BY <2>1
  <2>. QED  BY <2>2, Zenon
<1>3. Slice(f.data, o, o + Len(b)) = b
  BY AtSlice, Zenon
<1>. QED  BY <1>2, <1>3, Zenon DEF ItemOf, Read

LEMMA SectionReads ==
  ASSUME NEW buf, NEW e, NEW sec \in Section, SectionAt(buf, e, sec), Len(buf) \in UInt32,
         ~sec.compound => Len(sec.items) = 1,
         NEW f, At(f.data, 0, buf), NEW x, \A i \in 1..Len(e) : x[i] = e[i]
  PROVE  ReadsBack(f, x, sec)
<1> DEFINE items == sec.items
           n == Len(items)
           y == <<x[3], x[4]>>
<1>1. items \in Seq(Seq(Cell)) /\ sec.compound \in BOOLEAN
  BY DEF Section
<1>2. n \in Nat
  BY <1>1
<1>3. e \in Seq(0..Len(buf)) /\ Len(e) = IF sec.compound THEN 4 ELSE 2
  BY Zenon DEF SectionAt
<1>4. PICK data, starts :
        /\ Laid(items, n, data, starts)
        /\ At(buf, e[1], data) /\ e[2] = Len(data)
        /\ sec.compound => At(buf, e[3], U32s(StartsFrom(e[1], starts))) /\ e[4] = 4 * n
  BY Zenon DEF SectionAt
<1>5. x[1] = e[1] /\ x[2] = e[2] /\ (sec.compound => x[3] = e[3] /\ x[4] = e[4])
  <2>1. 1 \in 1..Len(e) /\ 2 \in 1..Len(e) /\ (sec.compound => 3 \in 1..Len(e) /\ 4 \in 1..Len(e))
    BY <1>1, <1>3
  <2>. QED  BY <2>1, Zenon
<1> DEFINE start == e[1]
<1>6. At(f.data, start, data)
  BY <1>4, AtKept, Zenon
<1>7. start \in Nat /\ start + Len(data) <= Len(buf) /\ data \in Seq(Cell) /\ buf \in Seq(Cell)
  BY <1>4, Zenon DEF At
<1> HIDE DEF start, items, n
<1>8. ~OutOfBounds(f, x[1], x[2])
  BY <1>4, <1>5, <1>6, InBounds, Zenon DEF start
<1>9. ASSUME ~sec.compound  PROVE readSectionBlob(f, x) = items[1]
  <2>1. Len(items) = 1 /\ n = 1
    BY <1>9, Zenon DEF items, n
  <2>2. data = items[1]
    BY <1>1, <1>4, <2>1, LaidOne, Zenon
  <2>3. Slice(f.data, start, start + Len(data)) = data
    BY <1>6, AtSlice, Zenon
  <2>. QED  BY <1>4, <1>5, <2>2, <2>3, Zenon DEF readSectionBlob, Read, start
<1>10. ASSUME sec.compound, n > 0
       PROVE  \A i \in 0..(n - 1) : ItemOf(f, x[1], relativeIndex(f, x), i) = items[i + 1]
  <2> DEFINE ns == StartsFrom(start, starts)
             index == relativeIndex(f, x)
  <2>1. /\ starts \in Seq(Nat) /\ Len(starts) = n /\ (n > 0 => starts[1] = 0)
        /\ \A j \in 1..n : At(data, starts[j], items[j])
        /\ \A j \in 1..(n - 1) : starts[j + 1] = starts[j] + Len(items[j])
        /\ Len(data) = IF n = 0 THEN 0 ELSE starts[n] + Len(items[n])
    BY <1>4, Zenon DEF Laid
  <2>2. Len(starts) > 0 /\ starts[1] = 0
    BY <1>10, <2>1, Zenon
  <2>3. \A j \in 1..n : starts[j] \in Nat
    BY <2>1
  <2>4. ns \in Seq(Nat) /\ Len(ns) = n /\ \A j \in 1..n : ns[j] = start + starts[j]
    BY <1>4, <1>7, LaidNumbers, SMT
  <2> HIDE DEF ns
  <2>5. ns \in Seq(UInt32)
    <3>1. ASSUME NEW j \in 1..n  PROVE ns[j] \in UInt32
      <4> DEFINE s == starts[j]
                 b == items[j]
      <4>1. s \in Nat /\ b \in Seq(Cell) /\ s + Len(b) <= Len(data)
        BY <2>1, Zenon DEF At
      <4>2. ns[j] = start + s
        BY <2>4, Zenon
      <4> HIDE DEF s, b
      <4>3. Len(b) \in Nat /\ Len(data) \in Nat /\ Len(buf) \in Nat
        BY <1>7, <4>1
      <4>4. start + s \in Nat /\ start + s <= Len(buf)
        BY <1>7, <4>1, <4>3
      <4>5. start + s \in UInt32
        BY Bases, <4>3, <4>4 DEF UInt32, maxUInt32
      <4>. QED  BY <4>2, <4>5, Zenon
    <3>. QED  BY <1>2, <2>4, <3>1
  <2>6. At(f.data, e[3], U32s(ns)) /\ x[3] = e[3] /\ x[4] = 4 * n
    <3>1. At(buf, e[3], U32s(ns)) /\ e[4] = 4 * n
      BY <1>4, <1>10, Zenon DEF ns, start
    <3>2. At(f.data, e[3], U32s(ns))
      BY <3>1, AtKept, Zenon
    <3>. QED  BY <1>5, <1>10, <3>1, <3>2, Zenon
  <2>7. y[1] = e[3] /\ y[2] = 4 * Len(ns)
    <3>1. y[1] = x[3] /\ y[2] = x[4]
      OBVIOUS
    <3> HIDE DEF y
    <3>. QED  BY <2>4, <2>6, <3>1, Zenon
  <2> HIDE DEF y
  <2>8. readSectionU32(f, y) = ns
    <3>1. At(f.data, y[1], U32s(ns))
      BY <2>6, <2>7, Zenon
    <3>. QED  BY <2>5, <2>7, <3>1, NumbersRead, Zenon
  <2>9. /\ \A j \in 1..n : index[j] = starts[j]
        /\ index[n + 1] = x[2]
    <3>1. IsIndex(f, x, start, starts)
      BY <1>7, <2>1, <2>2, <2>8, Zenon DEF IsIndex, ns, y
    <3> HIDE DEF index
    <3>2. /\ \A j \in 1..Len(starts) : relativeIndex(f, x)[j] = starts[j]
          /\ relativeIndex(f, x)[Len(starts) + 1] = x[2]
      BY <3>1, IndexRead, SMT
    <3>. QED  BY <2>1, <3>2, Zenon DEF index
  <2> HIDE DEF index
  <2>10. ASSUME NEW j \in 1..n  PROVE index[j + 1] = starts[j] + Len(items[j])
    <3>1. CASE j = n
      <4>1. Len(data) = starts[n] + Len(items[n])
        BY <1>10, <2>1
      <4>. QED  BY <1>4, <1>5, <2>9, <3>1, <4>1, Zenon
    <3>2. CASE j # n
      <4>1. j \in 1..(n - 1) /\ j + 1 \in 1..n
        BY <1>2, <3>2
      <4>. QED  BY <2>1, <2>9, <4>1, Zenon
    <3>. QED  BY <3>1, <3>2, Zenon
  <2>11. ASSUME NEW i \in 0..(n - 1)  PROVE ItemOf(f, x[1], index, i) = items[i + 1]
    <3> DEFINE j == i + 1
               at == starts[j]
               b == items[j]
    <3>1. j \in 1..n /\ j + 1 = i + 2 /\ i \in Nat
      BY <1>2
    <3> HIDE DEF j
    <3>2. at \in Nat /\ At(data, at, b) /\ index[j] = at /\ index[j + 1] = at + Len(b)
      BY <2>1, <2>3, <2>9, <2>10, <3>1, Zenon
    <3>3. At(f.data, start + at, b)
      BY <1>6, <3>2, AtPart, Zenon
    <3> HIDE DEF at, b
    <3>4. index[i + 1] = at /\ index[i + 2] = at + Len(b)
      BY <3>1, <3>2, Zenon DEF j
    <3>5. ItemOf(f, start, index, i) = b
      BY <1>7, <3>1, <3>2, <3>3, <3>4, ItemRead, Zenon
    <3>. QED  BY <1>5, <3>5, Zenon DEF b, j, start
  <2>. QED  BY <2>11, Zenon DEF index
<1>11. ASSUME sec.compound  PROVE ~OutOfBounds(f, x[3], x[4]) /\ x[4] % 4 = 0
  <2> DEFINE ns == StartsFrom(start, starts)
  <2>1. ns \in Seq(Nat) /\ Len(ns) = n
    BY <1>4, <1>7, LaidNumbers, SMT
  <2>2. At(f.data, x[3], U32s(ns)) /\ x[4] = 4 * n
    <3>1. At(buf, e[3], U32s(ns)) /\ e[4] = 4 * n
      BY <1>4, <1>11, Zenon DEF start
    <3> HIDE DEF ns
    <3>2. At(f.data, e[3], U32s(ns))
      BY <3>1, AtKept, Zenon
    <3>. QED  BY <1>5, <1>11, <3>1, <3>2, Zenon
  <2>3. Len(U32s(ns)) = 4 * n
    BY <2>1, U32sBytes, Zenon
  <2> HIDE DEF ns
  <2>4. ~OutOfBounds(f, x[3], x[4])
    BY <2>2, <2>3, InBounds, Zenon
  <2>5. (4 * n) % 4 = 0
    BY <1>2
  <2>. QED  BY <2>2, <2>4, <2>5, Zenon
<1>12. ASSUME sec.compound, NEW i \in 0..(n - 1)  PROVE ItemOf(f, x[1], relativeIndex(f, x), i) = items[i + 1]
  <2>1. n > 0
    BY <1>2
  <2>. QED  BY <1>10, <1>12, <2>1, Zenon
<1>. QED  BY <1>8, <1>9, <1>11, <1>12, Zenon DEF ReadsBack, items, n

(***************************************************************************)
(* Whatever sections are written, in whatever order, a reader of the file  *)
(* finds the table of contents it expects (readTOC) and, through it, the   *)
(* blob of each simple section and each item of each compound one          *)
(* (readSectionBlob, relativeIndex), never out of bounds, as long as the   *)
(* length of the file is a uint32.                                         *)
(***************************************************************************)
THEOREM SectionsReadBack ==
  ASSUME NEW secs, IsSections(secs), Len(WriteSections(secs)) \in UInt32,
         NEW f, f = NewIndexFile(WriteSections(secs))
  PROVE  /\ ~readTOC(f).err
         /\ \A k \in 1..Len(secs) : ReadsBack(f, readTOC(f).secs[secs[k].name], secs[k])
<1> DEFINE n == Len(secs)
           w == WriteLoop(secs)[n]
           buf == w.buf
           toc == w.toc
           bytes == writeTOC(toc)
           N == Len(tocSections)
           l == Len(buf)
<1>1. /\ secs \in Seq(Section)
      /\ \A j \in 1..n : (secs[j].compound <=> isCompound(secs[j].name)) /\ (~secs[j].compound => Len(secs[j].items) = 1)
      /\ \A name \in tocNames : \E j \in 1..n : secs[j].name = name
  BY Zenon DEF IsSections
<1>2. w \in Writer /\ \A j \in 1..n : SectionAt(buf, toc[secs[j].name], secs[j])
  BY SectionsWritten, Zenon DEF Written
<1>3. WriteSections(secs) = EndFile(buf, bytes)
  BY Zenon DEF WriteSections
<1> HIDE DEF w
<1>4. buf \in Seq(Cell) /\ toc \in [tocNames -> Seq(Nat)]
  BY <1>2 DEF Writer
<1> HIDE DEF n, buf, toc, N
<1>5. ASSUME NEW j \in 1..n
      PROVE  LET e == toc[secs[j].name]
             IN  e \in Seq(0..l) /\ Len(e) = EntryLen(secs[j].name)
  <2> DEFINE e == toc[secs[j].name]
  <2>1. e \in Seq(0..l) /\ Len(e) = IF secs[j].compound THEN 4 ELSE 2
    BY <1>2, Zenon DEF SectionAt
  <2>2. EntryLen(secs[j].name) = IF secs[j].compound THEN 4 ELSE 2
    BY <1>1, Zenon DEF EntryLen
  <2> DEFINE c == IF secs[j].compound THEN 4 ELSE 2
  <2> HIDE DEF c
  <2>3. Len(e) = c /\ EntryLen(secs[j].name) = c
    BY <2>1, <2>2, Zenon DEF c
  <2>. QED  BY <2>1, <2>3, Zenon
<1>6. ASSUME NEW k \in 1..N
      PROVE  LET e == toc[tocSections[k]]
             IN  e \in Seq(0..l) /\ e \in Seq(Nat) /\ Len(e) = EntryLen(tocSections[k])
  <2> DEFINE e == toc[tocSections[k]]
  <2>1. tocSections[k] \in tocNames
    BY SectionCount, Zenon DEF N
  <2>2. PICK j \in 1..n : secs[j].name = tocSections[k]
    BY <1>1, <2>1, Zenon
  <2>3. e \in Seq(0..l) /\ Len(e) = EntryLen(tocSections[k])
    BY <1>5, <2>2, Zenon
  <2>4. e \in Seq(Nat)
    BY <1>4, <2>1, Zenon
  <2>. QED  BY <2>3, <2>4, Zenon
<1>7. IsToc(toc)
  BY <1>6, Zenon DEF IsToc, N
<1>8. bytes \in Seq(Cell)
  <2>1. 0 \in Nat
    OBVIOUS
  <2>. QED  BY <1>7, <2>1, TocWritten, Zenon DEF Entries
<1> HIDE DEF bytes
<1>9. IsFile(f, buf, bytes) /\ f.size = Len(EndFile(buf, bytes))
  BY <1>3, <1>4, <1>8, FileWritten, SMT
<1>10. f.size \in UInt32
  BY <1>3, <1>9, Zenon
<1>11. l \in UInt32
  <2>1. f.size = (l + Len(bytes)) + 8
    BY <1>9, Zenon DEF IsFile
  <2>2. l \in Nat /\ Len(bytes) \in Nat
    BY <1>4, <1>8
  <2> HIDE DEF l
  <2>. QED  BY Bases, <1>10, <2>1, <2>2 DEF UInt32, maxUInt32
<1>12. \A k \in 1..N : \A i \in 1..EntryLen(tocSections[k]) : toc[tocSections[k]][i] \in UInt32
  <2> SUFFICES ASSUME NEW k \in 1..N, NEW i \in 1..EntryLen(tocSections[k])
               PROVE  toc[tocSections[k]][i] \in UInt32
    BY Zenon
  <2> DEFINE e == toc[tocSections[k]]
  <2>1. e \in Seq(0..l) /\ i \in 1..Len(e)
    BY <1>6, Zenon
  <2> HIDE DEF e
  <2>2. e[i] \in 0..l
    BY <2>1, ElementOfSeq, Zenon
  <2> HIDE DEF l
  <2>3. e[i] \in UInt32
    BY Bases, <1>11, <2>2 DEF UInt32, maxUInt32
  <2>. QED  BY <2>3, Zenon DEF e
<1>13. /\ ~readTOC(f).err
       /\ \A name \in tocNames : \A i \in 1..EntryLen(name) : readTOC(f).secs[name][i] = toc[name][i]
  <2>1. IsFile(f, buf, writeTOC(toc))
    BY <1>9, Zenon DEF bytes
  <2>2. \A k \in 1..Len(tocSections) : \A i \in 1..EntryLen(tocSections[k]) : toc[tocSections[k]][i] \in UInt32
    BY <1>12, Zenon DEF N
  <2>. QED  BY <1>7, <1>10, <2>1, <2>2, TocReadBack, SMT
<1>14. ASSUME NEW k \in 1..n  PROVE ReadsBack(f, readTOC(f).secs[secs[k].name], secs[k])
  <2> DEFINE sec == secs[k]
             e == toc[sec.name]
             x == readTOC(f).secs[sec.name]
  <2>1. sec \in Section
    BY <1>1, ElementOfSeq, Zenon DEF n
  <2>2. sec.name \in tocNames
    BY <2>1 DEF Section
  <2>3. SectionAt(buf, e, sec) /\ (~sec.compound => Len(sec.items) = 1)
    BY <1>1, <1>2, Zenon
  <2>4. Len(e) = EntryLen(sec.name)
    BY <1>5, Zenon
  <2>5. \A i \in 1..Len(e) : x[i] = e[i]
    BY <1>13, <2>2, <2>4, Zenon
  <2>6. At(f.data, 0, buf)
    BY <1>9, Zenon DEF IsFile
  <2> HIDE DEF sec, e, x
  <2>7. ReadsBack(f, x, sec)
    BY <1>11, <2>1, <2>3, <2>5, <2>6, SectionReads, Zenon
  <2>. QED  BY <2>7, Zenon DEF x, sec
<1>. QED  BY <1>13, <1>14, Zenon DEF n
=============================================================================
