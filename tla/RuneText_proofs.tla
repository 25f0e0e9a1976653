--------------------------- MODULE RuneText_proofs ---------------------------
(***************************************************************************)
(* Proofs about the text of a shard, for texts of any length and samples   *)
(* at any distance: the bytes of a rune are found from the sampled         *)
(* offsets.                                                                *)
(***************************************************************************)
EXTENDS RuneText, SequenceTheorems, WellFoundedInduction, TLAPS

Byte == 0..(byteBase - 1)

\* Every set of numbers has a least one: what the inductions here rest on.
LEMMA LeastNat ==
  ASSUME NEW S, S \subseteq Nat, S # {}
  PROVE  \E m \in S : \A k \in S : m <= k
<1> DEFINE R == {p \in Nat \X Nat : p[1] < p[2]}
<1>1. IsWellFoundedOn(R, Nat)
  <2>1. R = OpToRel(<, Nat)
    BY Zenon DEF OpToRel
  <2> QED  BY <2>1, NatLessThanWellFounded, Zenon
<1> HIDE DEF R
<1>2. PICK x \in S : \A y \in S : ~(<<y, x>> \in R)
  BY <1>1, WFMin, Zenon
<1>3. \A y \in S : ~(y < x)
  BY <1>2, Zenon DEF R
<1> QED  BY <1>2, <1>3

\* What holds of 0 and of a number if of the one before it holds up to m.
LEMMA UpTo ==
  ASSUME NEW m \in Nat, NEW G, 0 \in G, \A i \in 1..m : i - 1 \in G => i \in G
  PROVE  \A i \in 0..m : i \in G
<1> DEFINE Bad == {i \in 0..m : i \notin G}
<1> SUFFICES ASSUME Bad # {}  PROVE FALSE
  BY Zenon
<1>1. PICK k \in Bad : \A j \in Bad : k <= j
  <2>1. Bad \subseteq Nat
    BY SMT
  <2> HIDE DEF Bad
  <2>. QED  BY <2>1, LeastNat, Zenon
<1>2. k # 0 /\ k \in 0..m
  BY <1>1, Zenon
<1>3. k \in 1..m /\ k - 1 \in 0..m /\ ~(k <= k - 1)
  BY <1>2, SMT
<1>4. k - 1 \in G
  BY <1>1, <1>3, Zenon
<1>. QED  BY <1>1, <1>3, <1>4, Zenon

\* A part of a sequence (Slice).
LEMMA SliceParts ==
  ASSUME NEW S, NEW in \in Seq(S), NEW from \in Nat, NEW to \in from..Len(in)
  PROVE  /\ Slice(in, from, to) \in Seq(S) /\ Len(Slice(in, from, to)) = to - from
         /\ \A i \in 1..(to - from) : Slice(in, from, to)[i] = in[from + i]
<1> DEFINE t == SubSeq(in, from + 1, to)
<1>1. t \in Seq(S) /\ Len(t) = to - from
  BY SMT
<1>2. \A i \in 1..(to - from) : t[i] = in[from + i]
  BY SMT
<1>. QED  BY <1>1, <1>2, Zenon DEF Slice

-----------------------------------------------------------------------------
(***************************************************************************)
(* Runes and their bytes.                                                  *)
(***************************************************************************)
LEMMA SkipRunesTurns ==
  ASSUME NEW in, NEW k \in Nat
  PROVE  SkipLoop(in, k) = [i \in 0..k |-> IF i = 0 THEN 0 ELSE Walk(in, SkipLoop(in, k)[i - 1])]
<1> DEFINE Step(p, i) == Walk(in, p)
           Turns(m, g) == g = [i \in 0..m |-> IF i = 0 THEN 0 ELSE Step(g[i - 1], i)]
           Never == {m \in Nat : ~\E g : Turns(m, g)}
<1> HIDE DEF Step
<1>1. Never = {}
  <2> SUFFICES ASSUME Never # {}  PROVE FALSE
    BY Zenon
  <2>1. PICK m \in Never : \A j \in Never : m <= j
    <3>1. Never \subseteq Nat
      BY Zenon
    <3> HIDE DEF Never
    <3>. QED  BY <3>1, LeastNat, Zenon
  <2>2. m # 0
    <3>1. Turns(0, [i \in 0..0 |-> 0])
      OBVIOUS
    <3> HIDE DEF Turns
    <3>. QED  BY <2>1, <3>1, Zenon
  <2>3. PICK g : Turns(m - 1, g)
    <3>1. m - 1 \in Nat /\ ~(m <= m - 1)
      BY <2>1, <2>2
    <3> HIDE DEF Turns
    <3>. QED  BY <2>1, <3>1, Zenon
  <2>4. Turns(m, [i \in 0..m |-> IF i = m THEN Step(g[m - 1], m) ELSE g[i]])
    BY <2>1, <2>2, <2>3
  <2> HIDE DEF Turns
  <2>. QED  BY <2>1, <2>4, Zenon
<1>2. k \in Nat
  BY Zenon
<1>3. PICK g : Turns(k, g)
  BY <1>1, <1>2, Zenon
<1>. QED  BY <1>3, Zenon DEF SkipLoop, Step

LEMMA DecodeTurns ==
  ASSUME NEW in \in Seq(Byte)
  PROVE  DecodeLoop(in) = [i \in 0..Len(in) |-> IF i = 0 THEN [off |-> 0, runes |-> <<>>] ELSE ReadRune(in, DecodeLoop(in)[i - 1])]
<1> DEFINE Step(p, i) == ReadRune(in, p)
           Turns(m, g) == g = [i \in 0..m |-> IF i = 0 THEN [off |-> 0, runes |-> <<>>] ELSE Step(g[i - 1], i)]
           Never == {m \in Nat : ~\E g : Turns(m, g)}
<1> HIDE DEF Step
<1>1. Never = {}
  <2> SUFFICES ASSUME Never # {}  PROVE FALSE
    BY Zenon
  <2>1. PICK m \in Never : \A j \in Never : m <= j
    <3>1. Never \subseteq Nat
      BY Zenon
    <3> HIDE DEF Never
    <3>. QED  BY <3>1, LeastNat, Zenon
  <2>2. m # 0
    <3>1. Turns(0, [i \in 0..0 |-> [off |-> 0, runes |-> <<>>]])
      OBVIOUS
    <3> HIDE DEF Turns
    <3>. QED  BY <2>1, <3>1, Zenon
  <2>3. PICK g : Turns(m - 1, g)
    <3>1. m - 1 \in Nat /\ ~(m <= m - 1)
      BY <2>1, <2>2
    <3> HIDE DEF Turns
    <3>. QED  BY <2>1, <3>1, Zenon
  <2>4. Turns(m, [i \in 0..m |-> IF i = m THEN Step(g[m - 1], m) ELSE g[i]])
    BY <2>1, <2>2, <2>3
  <2> HIDE DEF Turns
  <2>. QED  BY <2>1, <2>4, Zenon
<1>2. Len(in) \in Nat
  OBVIOUS
<1>3. PICK g : Turns(Len(in), g)
  BY <1>1, <1>2, Zenon
<1>. QED  BY <1>3, Zenon DEF DecodeLoop, Step

LEMMA SampleTurns ==
  ASSUME NEW s, NEW d, Len(d) \in Nat
  PROVE  SampleLoop(s, d) = [i \in 0..Len(d) |-> IF i = 0 THEN s.runeOffsets ELSE SampleLoop(s, d)[i - 1] \o IF Sampled(s, i) THEN <<s.endByte + d[i].off>> ELSE <<>>]
<1> DEFINE Step(p, i) == p \o IF Sampled(s, i) THEN <<s.endByte + d[i].off>> ELSE <<>>
           Turns(m, g) == g = [i \in 0..m |-> IF i = 0 THEN s.runeOffsets ELSE Step(g[i - 1], i)]
           Never == {m \in Nat : ~\E g : Turns(m, g)}
<1> HIDE DEF Step
<1>1. Never = {}
  <2> SUFFICES ASSUME Never # {}  PROVE FALSE
    BY Zenon
  <2>1. PICK m \in Never : \A j \in Never : m <= j
    <3>1. Never \subseteq Nat
      BY Zenon
    <3> HIDE DEF Never
    <3>. QED  BY <3>1, LeastNat, Zenon
  <2>2. m # 0
    <3>1. Turns(0, [i \in 0..0 |-> s.runeOffsets])
      OBVIOUS
    <3> HIDE DEF Turns
    <3>. QED  BY <2>1, <3>1, Zenon
  <2>3. PICK g : Turns(m - 1, g)
    <3>1. m - 1 \in Nat /\ ~(m <= m - 1)
      BY <2>1, <2>2
    <3> HIDE DEF Turns
    <3>. QED  BY <2>1, <3>1, Zenon
  <2>4. Turns(m, [i \in 0..m |-> IF i = m THEN Step(g[m - 1], m) ELSE g[i]])
    BY <2>1, <2>2, <2>3
  <2> HIDE DEF Turns
  <2>. QED  BY <2>1, <2>4, Zenon
<1>2. Len(d) \in Nat
  BY Zenon
<1>3. PICK g : Turns(Len(d), g)
  BY <1>1, <1>2, Zenon
<1>. QED  BY <1>3, Zenon DEF SampleLoop, Step

\* The bytes of the rune at an offset in the text.
SizeAt(in, off) ==
  LET n == RuneSize(in[off + 1])
  IN  IF n > 0 /\ off + n <= Len(in) /\ \A i \in 2..n : in[off + i] \in Continuation THEN n ELSE 1

LEMMA RuneSizes ==
  ASSUME NEW b \in Byte
  PROVE  RuneSize(b) \in 0..4 /\ (b # 15 => RuneSize(b) \in 0..3)
<1>1. b \in 0..15
  BY BitsAssumption DEF Byte
<1>. QED  BY <1>1 DEF RuneSize, Continuation

LEMMA SizeAtRange ==
  ASSUME NEW in \in Seq(Byte), NEW off \in Nat, off < Len(in)
  PROVE  /\ SizeAt(in, off) \in 1..4 /\ off + SizeAt(in, off) <= Len(in)
         /\ in[off + 1] # 15 => SizeAt(in, off) \in 1..3
<1> DEFINE n == RuneSize(in[off + 1])
<1>1. n \in 0..4 /\ (in[off + 1] # 15 => n \in 0..3)
  <2>1. in[off + 1] \in Byte
    OBVIOUS
  <2>. QED  BY <2>1, RuneSizes, Zenon
<1>2. SizeAt(in, off) = n \/ SizeAt(in, off) = 1
  BY Zenon DEF SizeAt
<1>3. SizeAt(in, off) = n => (n > 0 /\ off + n <= Len(in)) \/ n = 1
  BY Zenon DEF SizeAt
<1>4. off + 1 <= Len(in) /\ Len(in) \in Nat
  OBVIOUS
<1> DEFINE z == SizeAt(in, off)
           l == Len(in)
<1>5. z = n \/ z = 1
  BY <1>2, Zenon
<1>6. z = n => (n > 0 /\ off + n <= l) \/ n = 1
  BY <1>3, Zenon
<1>7. off + 1 <= l /\ l \in Nat
  BY <1>4, Zenon
<1> HIDE DEF n, z, l
<1>8. z \in 1..4 /\ off + z <= l /\ (n \in 0..3 => z \in 1..3)
  BY <1>1, <1>5, <1>6, <1>7
<1>. QED  BY <1>1, <1>8, Zenon DEF z, l

\* DecodeRune of what is left of the text.
LEMMA RuneInSize ==
  ASSUME NEW in \in Seq(Byte), NEW off \in Nat
  PROVE  RuneIn(in, off).sz = IF off < Len(in) THEN SizeAt(in, off) ELSE 0
<1> DEFINE t == Slice(in, off, Len(in))
<1>1. CASE off >= Len(in)
  <2>1. t = <<>>
    BY <1>1 DEF Slice
  <2>2. ~(off < Len(in))
    BY <1>1
  <2> HIDE DEF t
  <2>3. RuneIn(in, off) = DecodeRune(t)
    BY Zenon DEF RuneIn, t
  <2>4. DecodeRune(t).sz = 0
    BY <2>1 DEF DecodeRune
  <2>. QED  BY <2>2, <2>3, <2>4, Zenon
<1>2. CASE off < Len(in)
  <2>1. /\ t # <<>> /\ Len(t) = Len(in) - off /\ t[1] = in[off + 1]
        /\ \A i \in 1..(Len(in) - off) : t[i] = in[off + i]
    <3>1. Len(in) \in off..Len(in) /\ 1 \in 1..(Len(in) - off) /\ Len(in) - off # 0
      BY <1>2
    <3>2. /\ t \in Seq(Byte) /\ Len(t) = Len(in) - off
          /\ \A i \in 1..(Len(in) - off) : t[i] = in[off + i]
      BY <3>1, SliceParts, Zenon
    <3> HIDE DEF t
    <3>3. t # <<>>
      BY <3>1, <3>2
    <3>. QED  BY <3>1, <3>2, <3>3, Zenon
  <2> HIDE DEF t
  <2> DEFINE n == RuneSize(in[off + 1])
             l == Len(in)
  <2>2. n \in 0..4
    <3>1. in[off + 1] \in Byte
      BY <1>2
    <3>. QED  BY <3>1, RuneSizes, Zenon
  <2>3. RuneIn(in, off) = DecodeRune(t)
    BY Zenon DEF RuneIn, t
  <2>4. DecodeRune(t).sz = IF n > 0 /\ Len(t) >= n /\ \A i \in 2..n : t[i] \in Continuation THEN n ELSE 1
    BY <2>1 DEF DecodeRune
  <2>5. l \in Nat
    OBVIOUS
  <2>6. /\ Len(t) = l - off
        /\ \A i \in 1..(l - off) : t[i] = in[off + i]
    BY <2>1, Zenon
  <2> HIDE DEF n, l
  <2>7. Len(t) >= n <=> off + n <= l
    BY <2>2, <2>5, <2>6
  <2>8. off + n <= l => \A i \in 2..n : i \in 1..(l - off)
    BY <2>2, <2>5
  <2>9. off + n <= l => \A i \in 2..n : t[i] = in[off + i]
    BY <2>6, <2>8, Zenon
  <2>10. DecodeRune(t).sz = IF n > 0 /\ off + n <= l /\ \A i \in 2..n : in[off + i] \in Continuation THEN n ELSE 1
    BY <2>4, <2>7, <2>9, Zenon
  <2>11. DecodeRune(t).sz = SizeAt(in, off)
    BY <2>10, Zenon DEF SizeAt, n, l
  <2>. QED  BY <1>2, <2>3, <2>11, Zenon
<1>3. Len(in) \in Nat
  OBVIOUS
<1>4. off >= Len(in) \/ off < Len(in)
  BY <1>3
<1>. QED  BY <1>1, <1>2, <1>4, Zenon

\* Two texts that are the same from x and from y on, as far as both last.
Alike(a, x, b, y) ==
  \A i \in 1..4 : x + i <= Len(a) /\ y + i <= Len(b) => a[x + i] = b[y + i]

\* The text a ends where b does, or before, or does not go on with the last rune of b.
Breaks(a, x, b, y) ==
  Len(a) - x <= Len(b) - y \/ a[x + (Len(b) - y) + 1] \notin Continuation

\* The rune at x in a, when a has the whole of the rune at y in b.
LEMMA SizesAgree ==
  ASSUME NEW a \in Seq(Byte), NEW b \in Seq(Byte), NEW x \in Nat, NEW y \in Nat, x < Len(a), y < Len(b),
         Alike(a, x, b, y), Breaks(a, x, b, y), x + SizeAt(b, y) <= Len(a)
  PROVE  SizeAt(a, x) = SizeAt(b, y)
<1> DEFINE n == RuneSize(b[y + 1])
           k == Len(a)
           l == Len(b)
           A(i) == a[x + i]
           B(i) == b[y + i]
<1>1. n \in 0..4 /\ k \in Nat /\ l \in Nat /\ x < k /\ y < l
  <2>1. b[y + 1] \in Byte
    OBVIOUS
  <2>2. k \in Nat /\ l \in Nat
    OBVIOUS
  <2>. QED  BY <2>1, <2>2, RuneSizes, Zenon
<1>2. \A i \in 1..4 : x + i <= k /\ y + i <= l => A(i) = B(i)
  BY Zenon DEF Alike
<1>3. RuneSize(a[x + 1]) = n
  <2>1. 1 \in 1..4 /\ x + 1 <= k /\ y + 1 <= l
    BY <1>1
  <2>. QED  BY <1>2, <2>1, Zenon
<1>4. SizeAt(a, x) = IF n > 0 /\ x + n <= k /\ \A i \in 2..n : A(i) \in Continuation THEN n ELSE 1
  BY <1>3, Zenon DEF SizeAt
<1>5. SizeAt(b, y) = IF n > 0 /\ y + n <= l /\ \A i \in 2..n : B(i) \in Continuation THEN n ELSE 1
  BY Zenon DEF SizeAt
<1>6. k - x <= l - y \/ A((l - y) + 1) \notin Continuation
  <2>1. x + (l - y) + 1 = x + ((l - y) + 1)
    BY <1>1
  <2>. QED  BY <2>1, Zenon DEF Breaks
<1>7. x + SizeAt(b, y) <= k
  BY Zenon
<1> HIDE DEF n, k, l, A, B
<1>8. CASE y + n <= l
  <2>1. CASE x + n <= k
    <3>1. \A i \in 2..n : i \in 1..4 /\ x + i <= k /\ y + i <= l
      BY <1>1, <1>8, <2>1
    <3>2. \A i \in 2..n : A(i) = B(i)
      BY <1>2, <3>1, Zenon
    <3> DEFINE Q == \A i \in 2..n : A(i) \in Continuation
    <3>3. (\A i \in 2..n : B(i) \in Continuation) <=> Q
      BY <3>2, Zenon
    <3>4. SizeAt(b, y) = IF n > 0 /\ y + n <= l /\ Q THEN n ELSE 1
      BY <1>5, <3>3, Zenon
    <3>5. SizeAt(a, x) = IF n > 0 /\ x + n <= k /\ Q THEN n ELSE 1
      BY <1>4, Zenon
    <3> HIDE DEF Q
    <3>6. CASE n > 0 /\ Q
      BY <1>8, <2>1, <3>4, <3>5, <3>6, Zenon
    <3>7. CASE ~(n > 0 /\ Q)
      BY <3>4, <3>5, <3>7, Zenon
    <3>. QED  BY <3>6, <3>7, Zenon
  <2>2. CASE ~(x + n <= k)
    <3>1. SizeAt(b, y) # n
      BY <1>7, <2>2, Zenon
    <3>. QED  BY <1>4, <1>5, <2>2, <3>1, Zenon
  <2>. QED  BY <2>1, <2>2, Zenon
<1>9. CASE ~(y + n <= l)
  <2>1. SizeAt(b, y) = 1
    BY <1>5, <1>9, Zenon
  <2>2. ~(n > 0 /\ x + n <= k /\ \A i \in 2..n : A(i) \in Continuation)
    <3>1. CASE k - x <= l - y
      <4>1. ~(x + n <= k)
        BY <1>1, <1>9, <3>1
      <4>. QED  BY <4>1, Zenon
    <3>2. CASE A((l - y) + 1) \notin Continuation
      <4>1. (l - y) + 1 \in 2..n
        BY <1>1, <1>9
      <4>. QED  BY <3>2, <4>1, Zenon
    <3>. QED  BY <1>6, <3>1, <3>2, Zenon
  <2>. QED  BY <1>4, <2>1, <2>2, Zenon
<1>. QED  BY <1>8, <1>9, Zenon

\* Skipping a rune more.
LEMMA RuneStarts ==
  ASSUME NEW in, NEW k \in Nat
  PROVE  SkipRunes(in, 0) = 0 /\ SkipRunes(in, k + 1) = Walk(in, SkipRunes(in, k))
<1> DEFINE p == SkipLoop(in, k)
           q == SkipLoop(in, k + 1)
<1>1. k + 1 \in Nat /\ 0 \in Nat /\ 0 \in 0..0 /\ k \in 0..k /\ k + 1 \in 0..(k + 1) /\ k + 1 # 0 /\ (k + 1) - 1 = k
  OBVIOUS
<1>2. p = [i \in 0..k |-> IF i = 0 THEN 0 ELSE Walk(in, p[i - 1])]
  BY <1>1, SkipRunesTurns, Zenon
<1>3. q = [i \in 0..(k + 1) |-> IF i = 0 THEN 0 ELSE Walk(in, q[i - 1])]
  BY <1>1, SkipRunesTurns, Zenon
<1>4. SkipRunes(in, 0) = 0
  <2>1. SkipLoop(in, 0) = [i \in 0..0 |-> IF i = 0 THEN 0 ELSE Walk(in, SkipLoop(in, 0)[i - 1])]
    BY <1>1, SkipRunesTurns, Zenon
  <2>2. SkipLoop(in, 0)[0] = 0
    BY <1>1, <2>1, Zenon
  <2>. QED  BY <2>2, Zenon DEF SkipRunes
<1> HIDE DEF p, q
<1>5. q[k] = p[k]
  <2> DEFINE G == {i \in 0..k : q[i] = p[i]}
  <2>1. 0 \in G
    <3>1. 0 \in 0..k /\ 0 \in 0..(k + 1)
      OBVIOUS
    <3>. QED  BY <1>2, <1>3, <3>1, Zenon
  <2>2. ASSUME NEW i \in 1..k, i - 1 \in G  PROVE i \in G
    <3>1. i \in 0..k /\ i \in 0..(k + 1) /\ i # 0
      OBVIOUS
    <3>2. q[i] = Walk(in, q[i - 1]) /\ p[i] = Walk(in, p[i - 1])
      BY <1>2, <1>3, <3>1, Zenon
    <3>. QED  BY <2>2, <3>1, <3>2, Zenon
  <2>3. k \in G
    <3> HIDE DEF G
    <3>. QED  BY <1>1, <2>1, <2>2, UpTo, Zenon
  <2>. QED  BY <2>3, Zenon
<1>6. q[k + 1] = Walk(in, q[k])
  BY <1>1, <1>3, Zenon
<1>. QED  BY <1>4, <1>5, <1>6, Zenon DEF SkipRunes, p, q

\* Skipping goes forward up to the end of the text and stays there.
LEMMA SkipForward ==
  ASSUME NEW in \in Seq(Byte), NEW k \in Nat
  PROVE  /\ SkipRunes(in, k) \in 0..Len(in)
         /\ SkipRunes(in, k) < Len(in) =>
              /\ SkipRunes(in, k + 1) = SkipRunes(in, k) + SizeAt(in, SkipRunes(in, k))
              /\ SkipRunes(in, k + 1) > SkipRunes(in, k)
         /\ SkipRunes(in, k) = Len(in) => SkipRunes(in, k + 1) = Len(in)
         /\ SkipRunes(in, k + 1) \in SkipRunes(in, k)..Len(in)
<1> DEFINE P(i) == SkipRunes(in, i)
           l == Len(in)
<1>0. l \in Nat
  OBVIOUS
<1>1. ASSUME NEW i \in Nat, P(i) \in 0..l
      PROVE  /\ P(i) < l => P(i + 1) = P(i) + SizeAt(in, P(i)) /\ P(i + 1) > P(i)
             /\ P(i) = l => P(i + 1) = l
             /\ P(i + 1) \in P(i)..l
  <2>1. P(i + 1) = P(i) + RuneIn(in, P(i)).sz
    BY RuneStarts, Zenon DEF Walk
  <2>2. P(i) \in Nat
    BY <1>0, <1>1
  <2>3. RuneIn(in, P(i)).sz = IF P(i) < l THEN SizeAt(in, P(i)) ELSE 0
    BY <2>2, RuneInSize, Zenon
  <2> DEFINE p == P(i)
             z == SizeAt(in, p)
  <2>4. p < l => z \in 1..4 /\ p + z <= l
    BY <2>2, SizeAtRange, Zenon
  <2>5. P(i + 1) = p + IF p < l THEN z ELSE 0
    BY <2>1, <2>3, Zenon
  <2>6. p \in 0..l
    BY <1>1, Zenon
  <2> HIDE DEF p, z, l, P
  <2>7. /\ p < l => P(i + 1) = p + z /\ P(i + 1) > p
        /\ p = l => P(i + 1) = l
        /\ P(i + 1) \in p..l
    BY <1>0, <2>4, <2>5, <2>6
  <2>. QED  BY <2>7, Zenon DEF p, z
<1>2. P(k) \in 0..l
  <2> DEFINE G == {i \in 0..k : P(i) \in 0..l}
  <2>1. 0 \in G
    <3>1. P(0) = 0
      BY RuneStarts, Zenon
    <3>2. 0 \in 0..l /\ 0 \in 0..k
      BY <1>0
    <3>. QED  BY <3>1, <3>2, Zenon
  <2>2. ASSUME NEW i \in 1..k, i - 1 \in G  PROVE i \in G
    <3>1. i \in 0..k /\ i - 1 \in Nat /\ (i - 1) + 1 = i
      OBVIOUS
    <3>2. P(i - 1) \in 0..l
      BY <2>2, Zenon
    <3>3. P((i - 1) + 1) \in P(i - 1)..l
      BY <1>1, <3>1, <3>2, Zenon
    <3>4. P(i) \in P(i - 1)..l
      BY <3>1, <3>3, Zenon
    <3> HIDE DEF P, l
    <3>5. P(i) \in 0..l
      BY <1>0, <3>2, <3>4
    <3>. QED  BY <3>1, <3>5, Zenon
  <2>3. k \in 0..k
    OBVIOUS
  <2>4. k \in G
    <3> HIDE DEF G
    <3>. QED  BY <2>1, <2>2, <2>3, UpTo, Zenon
  <2>. QED  BY <2>4, Zenon
<1>. QED  BY <1>1, <1>2, Zenon

\* The starts of later runes are not before those of earlier ones.
LEMMA StartsAscend ==
  ASSUME NEW in \in Seq(Byte), NEW k \in Nat, NEW n \in Nat
  PROVE  SkipRunes(in, k) <= SkipRunes(in, k + n)
<1> DEFINE P(i) == SkipRunes(in, k + i)
           G == {i \in 0..n : P(0) <= P(i)}
<1>1. \A i \in 0..n : P(i) \in Nat /\ k + i \in Nat
  <2> SUFFICES ASSUME NEW i \in 0..n  PROVE P(i) \in Nat /\ k + i \in Nat
    BY Zenon
  <2>1. k + i \in Nat /\ \A x \in 0..Len(in) : x \in Nat
    OBVIOUS
  <2>. QED  BY <2>1, SkipForward, Zenon
<1>2. 0 \in 0..n /\ n \in 0..n /\ k + 0 = k
  OBVIOUS
<1>3. 0 \in G
  <2>1. P(0) \in Nat
    BY <1>1, <1>2, Zenon
  <2> HIDE DEF P
  <2>2. P(0) <= P(0)
    BY <2>1
  <2>. QED  BY <1>2, <2>2, Zenon
<1>4. ASSUME NEW i \in 1..n, i - 1 \in G  PROVE i \in G
  <2>1. i \in 0..n /\ i - 1 \in 0..n /\ (k + (i - 1)) + 1 = k + i
    OBVIOUS
  <2>2. P(i) \in P(i - 1)..Len(in)
    BY <1>1, <2>1, SkipForward, Zenon
  <2>3. P(0) \in Nat /\ P(i - 1) \in Nat /\ P(i) \in Nat /\ P(0) <= P(i - 1)
    BY <1>1, <1>2, <1>4, <2>1, Zenon
  <2>4. Len(in) \in Nat
    OBVIOUS
  <2> HIDE DEF P
  <2>5. P(0) <= P(i)
    BY <2>2, <2>3, <2>4
  <2>. QED  BY <2>1, <2>5, Zenon
<1>5. n \in G
  <2> HIDE DEF G
  <2>. QED  BY <1>2, <1>3, <1>4, UpTo, Zenon
<1>. QED  BY <1>2, <1>5, Zenon

Together(a, b, k0, n, base) ==
  /\ k0 \in Nat /\ n \in Nat /\ base \in Nat /\ SkipRunes(b, k0) = base
  /\ \A k \in 0..(n - 1) : SkipRunes(b, k0 + k) = base + SkipRunes(a, k)
                             => Walk(b, SkipRunes(b, k0 + k)) = base + Walk(a, SkipRunes(a, k))

\* Two walks that make the same steps stay together.
LEMMA WalksTogether ==
  ASSUME NEW a, NEW b, NEW k0, NEW n, NEW base, Together(a, b, k0, n, base)
  PROVE  \A k \in 0..n : SkipRunes(b, k0 + k) = base + SkipRunes(a, k)
<1>0. /\ k0 \in Nat /\ n \in Nat /\ base \in Nat /\ SkipRunes(b, k0) = base
      /\ \A k \in 0..(n - 1) : SkipRunes(b, k0 + k) = base + SkipRunes(a, k)
                                 => Walk(b, SkipRunes(b, k0 + k)) = base + Walk(a, SkipRunes(a, k))
  BY Zenon DEF Together
<1> DEFINE G == {k \in 0..n : SkipRunes(b, k0 + k) = base + SkipRunes(a, k)}
<1>1. 0 \in G
  <2>1. 0 \in 0..n /\ k0 + 0 = k0 /\ base + 0 = base
    BY <1>0
  <2>2. SkipRunes(a, 0) = 0
    BY RuneStarts, Zenon
  <2>. QED  BY <1>0, <2>1, <2>2, Zenon
<1>2. ASSUME NEW k \in 1..n, k - 1 \in G  PROVE k \in G
  <2>1. k \in 0..n /\ k - 1 \in 0..(n - 1) /\ k - 1 \in Nat /\ k0 + (k - 1) \in Nat
    BY <1>0
  <2>2. (k - 1) + 1 = k /\ (k0 + (k - 1)) + 1 = k0 + k
    BY <1>0
  <2>3. SkipRunes(a, k) = Walk(a, SkipRunes(a, k - 1))
    BY <2>1, <2>2, RuneStarts, Zenon
  <2>4. SkipRunes(b, k0 + k) = Walk(b, SkipRunes(b, k0 + (k - 1)))
    BY <2>1, <2>2, RuneStarts, Zenon
  <2>5. Walk(b, SkipRunes(b, k0 + (k - 1))) = base + Walk(a, SkipRunes(a, k - 1))
    BY <1>0, <1>2, <2>1, Zenon
  <2>. QED  BY <2>1, <2>3, <2>4, <2>5, Zenon
<1>3. \A k \in 0..n : k \in G
  <2> HIDE DEF G
  <2>. QED  BY <1>0, <1>1, <1>2, UpTo, Zenon
<1>. QED  BY <1>3, Zenon

\* The text has n runes.
RuneCount(in, n) ==
  n \in Nat /\ SkipRunes(in, n) = Len(in) /\ \A k \in 0..(n - 1) : SkipRunes(in, k) < Len(in)

\* At x in a and at y in b there is the same rune.
SameRune(a, x, b, y) ==
  /\ a \in Seq(Byte) /\ b \in Seq(Byte) /\ x \in Nat /\ y \in Nat /\ x < Len(a) /\ y < Len(b)
  /\ Alike(a, x, b, y) /\ Breaks(a, x, b, y) /\ x + SizeAt(b, y) <= Len(a)

LEMMA WalkAgrees ==
  ASSUME NEW a, NEW b, NEW x, NEW y, SameRune(a, x, b, y)
  PROVE  \E z \in Nat : Walk(a, x) = x + z /\ Walk(b, y) = y + z
<1>1. /\ a \in Seq(Byte) /\ b \in Seq(Byte) /\ x \in Nat /\ y \in Nat /\ x < Len(a) /\ y < Len(b)
      /\ Alike(a, x, b, y) /\ Breaks(a, x, b, y) /\ x + SizeAt(b, y) <= Len(a)
  BY Zenon DEF SameRune
<1>2. SizeAt(a, x) = SizeAt(b, y)
  BY <1>1, SizesAgree, Zenon
<1>3. Walk(b, y) = y + SizeAt(b, y) /\ Walk(a, x) = x + SizeAt(a, x)
  BY <1>1, RuneInSize, Zenon DEF Walk
<1>4. SizeAt(a, x) \in 1..4
  BY <1>1, SizeAtRange, Zenon
<1>5. SizeAt(a, x) \in Nat
  BY <1>4
<1>. QED  BY <1>2, <1>3, <1>5, Zenon

IsJoin(all, text, doc) ==
  /\ all \in Seq(Byte) /\ text \in Seq(Byte) /\ doc \in Seq(Byte) /\ Len(all) = Len(text) + Len(doc)
  /\ \A i \in 1..Len(text) : all[i] = text[i]
  /\ \A i \in 1..Len(doc) : all[Len(text) + i] = doc[i]

LEMMA Joins ==
  ASSUME NEW text \in Seq(Byte), NEW doc \in Seq(Byte)
  PROVE  IsJoin(text \o doc, text, doc)
BY DEF IsJoin

\* The document does not start in the middle of a rune.
StartsWhole(doc) == doc = <<>> \/ doc[1] \notin Continuation

\* The runes of two documents, one after the other, unless the second goes on
\* with a rune that the first has only the start of.
LEMMA JoinedStarts ==
  ASSUME NEW text \in Seq(Byte), NEW doc \in Seq(Byte), NEW n, RuneCount(text, n), NEW m, RuneCount(doc, m),
         StartsWhole(doc), NEW all, IsJoin(all, text, doc)
  PROVE  /\ \A k \in 0..n : SkipRunes(all, k) = SkipRunes(text, k)
         /\ \A k \in 0..m : SkipRunes(all, n + k) = Len(text) + SkipRunes(doc, k)
<1> DEFINE l == Len(text)
           d == Len(doc)
<1>1. /\ all \in Seq(Byte) /\ Len(all) = l + d
      /\ \A i \in 1..l : all[i] = text[i]
      /\ \A i \in 1..d : all[l + i] = doc[i]
  BY Zenon DEF IsJoin
<1>2. l \in Nat /\ d \in Nat /\ (doc = <<>> <=> d = 0) /\ 0 \in Nat
  OBVIOUS
<1>3. /\ n \in Nat /\ SkipRunes(text, n) = l /\ \A k \in 0..(n - 1) : SkipRunes(text, k) < l
      /\ m \in Nat /\ SkipRunes(doc, m) = d /\ \A k \in 0..(m - 1) : SkipRunes(doc, k) < d
  BY Zenon DEF RuneCount
<1>4. \A k \in 0..n : SkipRunes(all, k) = SkipRunes(text, k)
  <2>1. ASSUME NEW k \in 0..(n - 1), SkipRunes(text, k) = SkipRunes(all, k)
        PROVE  Walk(text, SkipRunes(text, k)) = Walk(all, SkipRunes(all, k))
    <3> DEFINE x == SkipRunes(text, k)
    <3>1. k \in Nat
      BY <1>3
    <3>2. x < l /\ x \in 0..l
      BY <1>3, <3>1, SkipForward, Zenon
    <3>3. x \in Nat /\ x < l + d /\ x = 0 + x
      BY <1>2, <3>2
    <3> HIDE DEF x
    <3>4. x + SizeAt(text, x) <= l /\ SizeAt(text, x) \in 1..4
      BY <3>2, <3>3, SizeAtRange, Zenon
    <3>5. Alike(all, x, text, x)
      <4>1. \A i \in 1..4 : x + i <= l => x + i \in 1..l
        BY <1>2, <3>3
      <4>. QED  BY <1>1, <4>1, Zenon DEF Alike
    <3>6. Breaks(all, x, text, x)
      <4>1. CASE d = 0
        <5>1. Len(all) - x <= l - x
          BY <1>1, <1>2, <3>3, <4>1
        <5>. QED  BY <5>1, Zenon DEF Breaks
      <4>2. CASE d # 0
        <5>1. 1 \in 1..d /\ x + (l - x) + 1 = l + 1
          BY <1>2, <3>3, <4>2
        <5>2. all[l + 1] \notin Continuation
          BY <1>1, <1>2, <4>2, <5>1, Zenon DEF StartsWhole
        <5>. QED  BY <5>1, <5>2, Zenon DEF Breaks
      <4>. QED  BY <4>1, <4>2, Zenon
    <3>7. x + SizeAt(text, x) <= Len(all)
      <4> DEFINE z == SizeAt(text, x)
      <4> HIDE DEF z
      <4>1. x + z <= l + d
        BY <1>2, <3>3, <3>4 DEF z
      <4>. QED  BY <1>1, <4>1, Zenon DEF z
    <3>8. SameRune(all, x, text, x)
      BY <1>1, <3>2, <3>3, <3>5, <3>6, <3>7, Zenon DEF SameRune
    <3>9. Walk(text, x) = Walk(all, x)
      <4>1. \E z \in Nat : Walk(all, x) = x + z /\ Walk(text, x) = x + z
        BY <3>8, WalkAgrees, SMT
      <4>. QED  BY <4>1, Zenon
    <3>. QED  BY <2>1, <3>9, Zenon DEF x
  <2> DEFINE G == {k \in 0..n : SkipRunes(all, k) = SkipRunes(text, k)}
  <2>2. 0 \in G
    <3>1. 0 \in 0..n
      BY <1>3
    <3>2. SkipRunes(all, 0) = 0 /\ SkipRunes(text, 0) = 0
      BY RuneStarts, <1>2, Zenon
    <3>. QED  BY <3>1, <3>2, Zenon
  <2>3. ASSUME NEW k \in 1..n, k - 1 \in G  PROVE k \in G
    <3>1. k \in 0..n /\ k - 1 \in 0..(n - 1) /\ k - 1 \in Nat /\ (k - 1) + 1 = k
      BY <1>3
    <3>2. SkipRunes(all, k) = Walk(all, SkipRunes(all, k - 1)) /\ SkipRunes(text, k) = Walk(text, SkipRunes(text, k - 1))
      BY <3>1, RuneStarts, Zenon
    <3>. QED  BY <2>1, <2>3, <3>1, <3>2, Zenon
  <2>4. \A k \in 0..n : k \in G
    <3> HIDE DEF G
    <3>. QED  BY <1>3, <2>2, <2>3, UpTo, Zenon
  <2>. QED  BY <2>4, Zenon
<1>5. SkipRunes(all, n) = l
  <2>1. n \in 0..n
    BY <1>3
  <2>. QED  BY <1>3, <1>4, <2>1, Zenon
<1>6. ASSUME NEW k \in 0..(m - 1), SkipRunes(all, n + k) = l + SkipRunes(doc, k)
      PROVE  Walk(all, SkipRunes(all, n + k)) = l + Walk(doc, SkipRunes(doc, k))
  <2> DEFINE x == SkipRunes(doc, k)
             y == SkipRunes(all, n + k)
  <2>1. k \in Nat
    BY <1>3
  <2>2. x < d /\ x \in 0..d
    BY <1>3, <2>1, SkipForward, Zenon
  <2>3. y = l + x
    BY <1>6, Zenon
  <2> HIDE DEF x, y
  <2>4. x \in Nat /\ y \in Nat /\ y < Len(all)
    BY <1>1, <1>2, <2>2, <2>3
  <2>5. Alike(doc, x, all, y)
    <3>1. \A i \in 1..4 : x + i <= d => x + i \in 1..d /\ y + i = l + (x + i)
      BY <1>2, <2>3, <2>4
    <3>. QED  BY <1>1, <3>1, Zenon DEF Alike
  <2>6. Breaks(doc, x, all, y)
    <3>1. d - x <= Len(all) - y
      BY <1>1, <1>2, <2>3, <2>4
    <3>. QED  BY <3>1, Zenon DEF Breaks
  <2>7. x + SizeAt(all, y) <= d
    <3>1. y + SizeAt(all, y) <= Len(all) /\ SizeAt(all, y) \in 1..4
      BY <1>1, <2>4, SizeAtRange, Zenon
    <3> DEFINE z == SizeAt(all, y)
    <3> HIDE DEF z
    <3>2. x + z <= d
      <4>1. y + z <= Len(all) /\ z \in Nat
        <5>1. \A v \in 1..4 : v \in Nat
          OBVIOUS
        <5>. QED  BY <3>1, <5>1, Zenon DEF z
      <4>. QED  BY <1>1, <1>2, <2>3, <2>4, <4>1
    <3>. QED  BY <3>2, Zenon DEF z
  <2>8. Walk(all, y) = l + Walk(doc, x)
    <3>1. SameRune(doc, x, all, y)
      BY <1>1, <2>2, <2>4, <2>5, <2>6, <2>7, Zenon DEF SameRune
    <3>2. PICK z \in Nat : Walk(doc, x) = x + z /\ Walk(all, y) = y + z
      BY <3>1, WalkAgrees, SMT
    <3>3. y + z = l + (x + z)
      BY <1>2, <2>3, <2>4
    <3>. QED  BY <3>2, <3>3, Zenon
  <2>. QED  BY <2>8, Zenon DEF x, y
<1> HIDE DEF l
<1>7. \A k \in 0..m : SkipRunes(all, n + k) = l + SkipRunes(doc, k)
  <2>1. Together(doc, all, n, m, l)
    BY <1>2, <1>3, <1>5, <1>6, Zenon DEF Together
  <2>. QED  BY <2>1, WalksTogether, SMT
<1>. QED  BY <1>4, <1>7, Zenon DEF l

\* Decoded runes, as newSearchableString keeps them.
RuneRecord == [r : Seq(Byte), sz : Nat, off : Nat]

LEMMA DecodedRune ==
  ASSUME NEW in \in Seq(Byte), NEW off \in Nat, off < Len(in)
  PROVE  [r |-> RuneIn(in, off).r, sz |-> RuneIn(in, off).sz, off |-> off] \in RuneRecord
<1> DEFINE t == Slice(in, off, Len(in))
<1>1. t \in Seq(Byte)
  <2>1. Len(in) \in off..Len(in)
    OBVIOUS
  <2>. QED  BY <2>1, SliceParts, Zenon
<1> HIDE DEF t
<1>2. DecodeRune(t).r \in Seq(Byte)
  <2>1. RuneError \in Seq(Byte)
    BY BitsAssumption DEF RuneError, Byte
  <2> DEFINE n == RuneSize(t[1])
  <2>2. CASE DecodeRune(t).r = RuneError
    BY <2>1, <2>2, Zenon
  <2>3. CASE t # <<>> /\ DecodeRune(t).r = SubSeq(t, 1, n) /\ Len(t) >= n
    <3>1. n \in 0..4
      <4>1. t[1] \in Byte
        BY <1>1, <2>3
      <4>. QED  BY <4>1, RuneSizes, Zenon
    <3> HIDE DEF n
    <3>2. SubSeq(t, 1, n) \in Seq(Byte)
      BY <1>1, <2>3, <3>1
    <3>. QED  BY <2>3, <3>2, Zenon
  <2>4. \/ DecodeRune(t).r = RuneError
        \/ t # <<>> /\ DecodeRune(t).r = SubSeq(t, 1, n) /\ Len(t) >= n
    <3>1. CASE t = <<>>
      BY <3>1 DEF DecodeRune
    <3>2. CASE t # <<>> /\ n > 0 /\ Len(t) >= n /\ \A i \in 2..n : t[i] \in Continuation
      <4>1. DecodeRune(t) = [r |-> SubSeq(t, 1, n), sz |-> n]
        BY <3>2, Zenon DEF DecodeRune
      <4>2. DecodeRune(t).r = SubSeq(t, 1, n)
        <5> DEFINE v == SubSeq(t, 1, n)
        <5>1. DecodeRune(t) = [r |-> v, sz |-> n]
          BY <4>1, Zenon
        <5> HIDE DEF v, n
        <5>2. DecodeRune(t).r = v
          BY <5>1
        <5>. QED  BY <5>2, Zenon DEF v
      <4>. QED  BY <3>2, <4>2, Zenon
    <3>3. CASE t # <<>> /\ ~(n > 0 /\ Len(t) >= n /\ \A i \in 2..n : t[i] \in Continuation)
      <4>1. DecodeRune(t) = [r |-> RuneError, sz |-> 1]
        BY <3>3, Zenon DEF DecodeRune
      <4>. QED  BY <4>1
    <3>. QED  BY <3>1, <3>2, <3>3, Zenon
  <2>. QED  BY <2>2, <2>3, <2>4, Zenon
<1>3. RuneIn(in, off) = DecodeRune(t)
  BY Zenon DEF RuneIn, t
<1>4. RuneIn(in, off).sz \in Nat
  <2>1. RuneIn(in, off).sz = SizeAt(in, off)
    BY RuneInSize, Zenon
  <2>2. SizeAt(in, off) \in 1..4
    BY SizeAtRange, Zenon
  <2>3. SizeAt(in, off) \in Nat
    BY <2>2
  <2>. QED  BY <2>1, <2>3, Zenon
<1> DEFINE r == RuneIn(in, off).r
           z == RuneIn(in, off).sz
<1>5. r \in Seq(Byte) /\ z \in Nat
  BY <1>2, <1>3, <1>4, Zenon
<1> HIDE DEF r, z
<1>6. [r |-> r, sz |-> z, off |-> off] \in RuneRecord
  BY <1>5 DEF RuneRecord
<1>. QED  BY <1>6, Zenon DEF r, z

\* The first runes of the text: what runes holds after as many turns.
FirstRunes(in, runes) ==
  /\ runes \in Seq(RuneRecord)
  /\ \A j \in 1..Len(runes) : runes[j].off = SkipRunes(in, j - 1) /\ SkipRunes(in, j - 1) < Len(in)

LEMMA AppendRune ==
  ASSUME NEW runes \in Seq(RuneRecord), NEW x \in RuneRecord
  PROVE  /\ Append(runes, x) \in Seq(RuneRecord) /\ Len(Append(runes, x)) = Len(runes) + 1
         /\ \A j \in 1..Len(runes) : Append(runes, x)[j] = runes[j]
         /\ Append(runes, x)[Len(runes) + 1] = x
<1> DEFINE R == RuneRecord
<1> HIDE DEF R
<1>1. ASSUME NEW s \in Seq(R), NEW y \in R
      PROVE  /\ Append(s, y) \in Seq(R) /\ Len(Append(s, y)) = Len(s) + 1
             /\ \A j \in 1..Len(s) : Append(s, y)[j] = s[j]
             /\ Append(s, y)[Len(s) + 1] = y
  OBVIOUS
<1>. QED  BY <1>1, Zenon DEF R

\* The state of the loop over utf8.DecodeRune after i turns.
Decoded(in, i, s) ==
  /\ FirstRunes(in, s.runes) /\ s.off = SkipRunes(in, Len(s.runes))
  /\ Len(s.runes) = i \/ s.off = Len(in)

LEMMA ReadRuneStep ==
  ASSUME NEW in \in Seq(Byte), NEW i \in Nat, NEW s, Decoded(in, i, s)
  PROVE  Decoded(in, i + 1, ReadRune(in, s))
<1> DEFINE n == Len(s.runes)
           l == Len(in)
<1>1. /\ s.runes \in Seq(RuneRecord) /\ s.off = SkipRunes(in, n) /\ (n = i \/ s.off = l)
      /\ \A j \in 1..n : s.runes[j].off = SkipRunes(in, j - 1) /\ SkipRunes(in, j - 1) < l
  BY Zenon DEF Decoded, FirstRunes
<1>2. n \in Nat
  BY <1>1
<1>3. l \in Nat
  OBVIOUS
<1>4. s.off \in 0..l
  BY <1>1, <1>2, SkipForward, Zenon
<1>5. CASE s.off >= l
  <2>1. s.off = l
    BY <1>3, <1>4, <1>5
  <2>2. ReadRune(in, s) = s
    BY <1>5, Zenon DEF ReadRune
  <2>. QED  BY <2>1, <2>2, Zenon DEF Decoded
<1>6. CASE s.off < l
  <2> DEFINE d == RuneIn(in, s.off)
             x == [r |-> d.r, sz |-> d.sz, off |-> s.off]
             t == ReadRune(in, s)
  <2>1. s.off \in Nat /\ ~(s.off >= l)
    BY <1>3, <1>4, <1>6
  <2>2. x \in RuneRecord
    BY <1>6, <2>1, DecodedRune, Zenon
  <2>3. x.off = s.off
    OBVIOUS
  <2>4. t = [off |-> s.off + d.sz, runes |-> Append(s.runes, x)]
    BY <2>1, Zenon DEF ReadRune
  <2> HIDE DEF x, t
  <2>5. t.off = s.off + d.sz /\ t.runes = Append(s.runes, x)
    BY <2>4
  <2> DEFINE rs == t.runes
  <2>6. /\ rs \in Seq(RuneRecord) /\ Len(rs) = n + 1
        /\ \A j \in 1..n : rs[j] = s.runes[j]
        /\ rs[n + 1] = x
    <3> DEFINE u == s.runes
    <3>1. u \in Seq(RuneRecord)
      BY <1>1, Zenon
    <3> HIDE DEF u
    <3>2. /\ Append(u, x) \in Seq(RuneRecord) /\ Len(Append(u, x)) = Len(u) + 1
          /\ \A j \in 1..Len(u) : Append(u, x)[j] = u[j]
          /\ Append(u, x)[Len(u) + 1] = x
      BY <2>2, <3>1, AppendRune, Zenon
    <3>. QED  BY <2>5, <3>2, Zenon DEF u
  <2> HIDE DEF rs
  <2>7. t.off = SkipRunes(in, n + 1)
    <3>1. SkipRunes(in, n + 1) = Walk(in, SkipRunes(in, n))
      BY <1>2, RuneStarts, Zenon
    <3>. QED  BY <1>1, <2>5, <3>1, Zenon DEF Walk
  <2>8. \A j \in 1..(n + 1) : rs[j].off = SkipRunes(in, j - 1) /\ SkipRunes(in, j - 1) < l
    <3>1. \A j \in 1..(n + 1) : j \in 1..n \/ (j = n + 1 /\ j - 1 = n)
      BY <1>2
    <3>2. rs[n + 1].off = SkipRunes(in, n) /\ SkipRunes(in, n) < l
      BY <1>1, <1>6, <2>3, <2>6, Zenon
    <3>. QED  BY <1>1, <2>6, <3>1, <3>2, Zenon
  <2>9. FirstRunes(in, rs)
    BY <2>6, <2>8, Zenon DEF FirstRunes
  <2>10. Len(rs) = i + 1
    <3>1. s.off # l
      BY <1>3, <1>4, <1>6
    <3>. QED  BY <1>1, <2>6, <3>1, Zenon
  <2>11. Decoded(in, i + 1, t)
    BY <2>6, <2>7, <2>9, <2>10, Zenon DEF Decoded, rs
  <2>. QED  BY <2>11, Zenon DEF t
<1>7. s.off >= l \/ s.off < l
  BY <1>3, <1>4
<1>. QED  BY <1>5, <1>6, <1>7, Zenon

\* While no walk has reached the end, every rune skipped is a byte or more.
LEMMA StartsGrow ==
  ASSUME NEW in \in Seq(Byte), NEW n \in Nat, \A k \in 0..(n - 1) : SkipRunes(in, k) < Len(in)
  PROVE  SkipRunes(in, n) >= n
<1> DEFINE G == {k \in 0..n : SkipRunes(in, k) >= k}
<1>1. 0 \in G
  <2>1. SkipRunes(in, 0) = 0
    BY RuneStarts, Zenon
  <2>2. 0 \in 0..n /\ 0 >= 0
    OBVIOUS
  <2>. QED  BY <2>1, <2>2, Zenon
<1>2. ASSUME NEW k \in 1..n, k - 1 \in G  PROVE k \in G
  <2>1. k \in 0..n /\ k - 1 \in Nat /\ k - 1 \in 0..(n - 1) /\ (k - 1) + 1 = k /\ k \in Nat
    OBVIOUS
  <2> DEFINE p == SkipRunes(in, k - 1)
             q == SkipRunes(in, k)
             l == Len(in)
  <2>2. q > p
    BY <2>1, SkipForward, Zenon
  <2>3. p \in 0..l /\ q \in 0..l
    BY <2>1, SkipForward, Zenon
  <2>4. p >= k - 1
    BY <1>2, Zenon
  <2>5. l \in Nat
    OBVIOUS
  <2> HIDE DEF p, q, l
  <2>6. q >= k
    BY <2>2, <2>3, <2>4, <2>5
  <2>. QED  BY <2>1, <2>6, Zenon DEF q
<1>3. n \in 0..n
  OBVIOUS
<1>4. n \in G
  <2> HIDE DEF G
  <2>. QED  BY <1>1, <1>2, <1>3, UpTo, Zenon
<1>. QED  BY <1>4, Zenon

\* The loop decodes all runes of the text, with their offsets.
LEMMA DecodesAll ==
  ASSUME NEW in \in Seq(Byte)
  PROVE  RuneCount(in, Len(Decode(in))) /\ FirstRunes(in, Decode(in))
<1> DEFINE h == DecodeLoop(in)
           l == Len(in)
           s0 == [off |-> 0, runes |-> <<>>]
<1>1. l \in Nat /\ l \in 0..l /\ 0 \in 0..l
  OBVIOUS
<1>2. h = [i \in 0..l |-> IF i = 0 THEN s0 ELSE ReadRune(in, h[i - 1])]
  BY DecodeTurns, Zenon
<1> HIDE DEF h
<1> DEFINE G == {i \in 0..l : Decoded(in, i, h[i])}
<1>3. 0 \in G
  <2>1. h[0] = s0
    BY <1>1, <1>2, Zenon
  <2>2. s0.off = 0 /\ s0.runes = <<>> /\ Len(s0.runes) = 0 /\ s0.runes \in Seq(RuneRecord)
    OBVIOUS
  <2>3. SkipRunes(in, 0) = 0
    BY <1>1, RuneStarts, Zenon
  <2>4. \A j \in 1..0 : FALSE
    OBVIOUS
  <2>5. Decoded(in, 0, s0)
    BY <2>2, <2>3, <2>4, Zenon DEF Decoded, FirstRunes
  <2>. QED  BY <1>1, <2>1, <2>5, Zenon
<1>4. ASSUME NEW i \in 1..l, i - 1 \in G  PROVE i \in G
  <2>1. i \in 0..l /\ i # 0 /\ i - 1 \in Nat /\ (i - 1) + 1 = i
    BY <1>1
  <2>2. h[i] = ReadRune(in, h[i - 1])
    BY <1>2, <2>1, Zenon
  <2>3. Decoded(in, i - 1, h[i - 1])
    BY <1>4, Zenon
  <2>4. Decoded(in, (i - 1) + 1, ReadRune(in, h[i - 1]))
    BY <2>1, <2>3, ReadRuneStep, Zenon
  <2>. QED  BY <2>1, <2>2, <2>4, Zenon
<1>5. l \in G
  <2> HIDE DEF G, l
  <2>. QED  BY <1>1, <1>3, <1>4, UpTo, Zenon
<1> DEFINE d == Decode(in)
           n == Len(d)
<1>6. FirstRunes(in, d) /\ h[l].off = SkipRunes(in, n) /\ (n = l \/ h[l].off = l)
  BY <1>5, Zenon DEF Decoded, Decode, h
<1>7. d \in Seq(RuneRecord) /\ \A j \in 1..n : SkipRunes(in, j - 1) < l
  BY <1>6, Zenon DEF FirstRunes
<1>8. n \in Nat
  BY <1>7
<1> HIDE DEF d, n
<1>9. \A k \in 0..(n - 1) : SkipRunes(in, k) < l
  <2>1. \A k \in 0..(n - 1) : k + 1 \in 1..n /\ (k + 1) - 1 = k
    BY <1>8
  <2>. QED  BY <1>7, <2>1, Zenon
<1>10. SkipRunes(in, n) = l
  <2>1. SkipRunes(in, n) >= n
    BY <1>8, <1>9, StartsGrow, Zenon
  <2>2. SkipRunes(in, n) \in 0..l
    BY <1>8, SkipForward, Zenon
  <2>3. n = l \/ SkipRunes(in, n) = l
    BY <1>6, Zenon
  <2> DEFINE p == SkipRunes(in, n)
  <2> HIDE DEF p, l
  <2>4. p = l
    BY <1>1, <1>8, <2>1, <2>2, <2>3 DEF p
  <2>. QED  BY <2>4, Zenon DEF p
<1>. QED  BY <1>6, <1>8, <1>9, <1>10, Zenon DEF RuneCount, d, n

-----------------------------------------------------------------------------
(***************************************************************************)
(* Samples of the offsets of runes.                                        *)
(***************************************************************************)
\* Division with remainder by the distance of samples.
LEMMA SampleDigits ==
  ASSUME NEW n \in Nat
  PROVE  /\ n \div runeOffsetFrequency \in Nat /\ n % runeOffsetFrequency \in 0..(runeOffsetFrequency - 1)
         /\ n = runeOffsetFrequency * (n \div runeOffsetFrequency) + (n % runeOffsetFrequency)
<1>1. runeOffsetFrequency \in Nat /\ runeOffsetFrequency > 0
  BY FrequencyAssumption
<1>. QED  BY <1>1

LEMMA Multiple ==
  ASSUME NEW f \in Nat, f > 0, NEW x \in Int, NEW y \in Int, x < y
  PROVE  f * x + f <= f * y
<1>1. y = x + (y - x) /\ y - x >= 1 /\ y - x \in Nat
  OBVIOUS
<1> DEFINE w == y - x
<1>2. f * w >= f
  <2>1. w >= 1 /\ w \in Nat
    BY <1>1
  <2> HIDE DEF w
  <2>. QED  BY <2>1
<1>3. f * (x + w) = f * x + f * w
  <2>1. w \in Int
    BY <1>1
  <2> HIDE DEF w
  <2>. QED  BY <2>1
<1>4. f * x \in Int /\ f * w \in Int
  <2>1. w \in Int
    BY <1>1
  <2> HIDE DEF w
  <2>. QED  BY <2>1
<1>5. f * y = f * x + f * w
  BY <1>1, <1>3, Zenon
<1> DEFINE a == f * x
           b == f * w
           c == f * y
<1> HIDE DEF a, b, c
<1>6. c = a + b /\ a \in Int /\ b \in Int /\ b >= f
  BY <1>2, <1>4, <1>5, Zenon DEF a, b, c
<1>7. a + f <= c
  BY <1>6
<1>. QED  BY <1>7, Zenon DEF a, c

\* Quotient and remainder are unique.
LEMMA QuotientUnique ==
  ASSUME NEW n \in Nat, NEW q \in Nat, NEW m \in 0..(runeOffsetFrequency - 1), n = runeOffsetFrequency * q + m
  PROVE  n \div runeOffsetFrequency = q /\ n % runeOffsetFrequency = m
<1> DEFINE f == runeOffsetFrequency
           r == n \div f
           o == n % f
<1>0. f \in Nat /\ f > 0
  BY FrequencyAssumption
<1>1. r \in Nat /\ o \in 0..(f - 1) /\ n = f * r + o /\ n = f * q + m /\ m \in 0..(f - 1)
  BY SampleDigits, Zenon
<1> HIDE DEF f, r, o
<1> DEFINE a == f * r
           b == f * q
<1>2. a \in Int /\ b \in Int
  BY <1>0, <1>1
<1>3. ~(r < q)
  <2> SUFFICES ASSUME r < q  PROVE FALSE
    BY Zenon
  <2>1. r \in Int /\ q \in Int
    BY <1>1
  <2>2. a + f <= b
    BY <1>0, <2>1, Multiple, Zenon
  <2>3. n = a + o /\ n = b + m
    BY <1>1, Zenon
  <2> HIDE DEF a, b
  <2>. QED  BY <1>0, <1>1, <1>2, <2>2, <2>3
<1>4. ~(q < r)
  <2> SUFFICES ASSUME q < r  PROVE FALSE
    BY Zenon
  <2>1. r \in Int /\ q \in Int
    BY <1>1
  <2>2. b + f <= a
    BY <1>0, <2>1, Multiple, Zenon
  <2>3. n = a + o /\ n = b + m
    BY <1>1, Zenon
  <2> HIDE DEF a, b
  <2>. QED  BY <1>0, <1>1, <1>2, <2>2, <2>3
<1>5. r = q
  BY <1>1, <1>3, <1>4
<1>6. o = m
  <2>1. n = b + o /\ n = b + m
    BY <1>1, <1>5, Zenon
  <2> HIDE DEF a, b
  <2>. QED  BY <1>0, <1>1, <1>2, <2>1
<1>. QED  BY <1>5, <1>6, Zenon DEF f, r, o

\* How many of the first r runes are sampled.
SampleCount(r) == IF r % runeOffsetFrequency = 0 THEN r \div runeOffsetFrequency ELSE r \div runeOffsetFrequency + 1

LEMMA SampleCounts ==
  ASSUME NEW r \in Nat
  PROVE  /\ SampleCount(r) \in Nat
         /\ r % runeOffsetFrequency = 0 => SampleCount(r + 1) = r \div runeOffsetFrequency + 1
         /\ r % runeOffsetFrequency # 0 => SampleCount(r + 1) = SampleCount(r)
         /\ \A k \in 0..(r - 1) : k \div runeOffsetFrequency + 1 \in 1..SampleCount(r)
<1> DEFINE f == runeOffsetFrequency
           q == r \div f
           m == r % f
<1>0. f \in Nat /\ f > 0
  BY FrequencyAssumption
<1>1. q \in Nat /\ m \in 0..(f - 1) /\ r = f * q + m
  BY SampleDigits, Zenon
<1>2. SampleCount(r) = IF m = 0 THEN q ELSE q + 1
  BY Zenon DEF SampleCount
<1> DEFINE c == SampleCount(r)
<1> HIDE DEF f, q, m
<1>3. c \in Nat
  BY <1>1, <1>2
<1>4. ASSUME m = f - 1  PROVE SampleCount(r + 1) = q + 1
  <2>1. r + 1 = f * (q + 1) + 0
    <3>1. f * (q + 1) = f * q + f /\ f * q \in Nat
      BY <1>0, <1>1
    <3> DEFINE a == f * q
               b == f * (q + 1)
    <3> HIDE DEF a, b
    <3>2. b = a + f /\ a \in Nat /\ r = a + m
      BY <1>1, <3>1, Zenon DEF a, b
    <3>3. r + 1 = b + 0
      BY <1>0, <1>4, <3>2
    <3>. QED  BY <3>3, Zenon DEF b
  <2>2. r + 1 \in Nat /\ q + 1 \in Nat /\ 0 \in 0..(f - 1)
    BY <1>0, <1>1
  <2>3. (r + 1) \div f = q + 1 /\ (r + 1) % f = 0
    BY <2>1, <2>2, QuotientUnique, Zenon DEF f
  <2>4. SampleCount(r + 1) = q + 1
    BY <2>3, Zenon DEF SampleCount, f
  <2>. QED  BY <2>4, Zenon
<1>5. ASSUME m # f - 1  PROVE SampleCount(r + 1) = q + 1
  <2>1. r + 1 = f * q + (m + 1)
    <3>1. f * q \in Nat
      BY <1>0, <1>1
    <3> DEFINE a == f * q
    <3> HIDE DEF a
    <3>2. a \in Nat /\ r = a + m
      BY <1>1, <3>1, Zenon DEF a
    <3>3. r + 1 = a + (m + 1)
      BY <1>0, <1>1, <3>2
    <3>. QED  BY <3>3, Zenon DEF a
  <2>2. r + 1 \in Nat /\ m + 1 \in 0..(f - 1) /\ m + 1 # 0
    BY <1>0, <1>1, <1>5
  <2>3. (r + 1) \div f = q /\ (r + 1) % f = m + 1
    BY <1>1, <2>1, <2>2, QuotientUnique, Zenon DEF f
  <2>4. SampleCount(r + 1) = q + 1
    BY <2>2, <2>3, Zenon DEF SampleCount, f
  <2>. QED  BY <2>4, Zenon
<1>6. ASSUME NEW k \in 0..(r - 1)  PROVE k \div f + 1 \in 1..c
  <2> DEFINE p == k \div f
             o == k % f
  <2>1. k \in Nat /\ k < r
    OBVIOUS
  <2>2. p \in Nat /\ o \in 0..(f - 1) /\ k = f * p + o
    BY <2>1, SampleDigits, Zenon DEF f
  <2> HIDE DEF p, o, c
  <2> DEFINE a == f * p
             b == f * q
  <2>3. a \in Int /\ b \in Int
    BY <1>0, <1>1, <2>2
  <2>4. q < p => b + f <= a
    <3>1. p \in Int /\ q \in Int
      BY <1>1, <2>2
    <3>. QED  BY <1>0, <3>1, Multiple, Zenon
  <2>5. k = a + o /\ r = b + m
    BY <1>1, <2>2, Zenon
  <2>6. p = q => a = b
    BY Zenon
  <2> HIDE DEF a, b
  <2>7. p < q \/ (p = q /\ m # 0)
    BY <1>0, <1>1, <2>1, <2>2, <2>3, <2>4, <2>5, <2>6
  <2>8. p + 1 \in 1..c
    BY <1>1, <1>2, <2>2, <2>7 DEF c
  <2>. QED  BY <2>8, Zenon DEF p
<1>7. SampleCount(r + 1) = q + 1
  BY <1>4, <1>5, Zenon
<1>. QED  BY <1>2, <1>3, <1>6, <1>7, Zenon DEF f, q, m

\* The text has n runes, and samples has the offset of every runeOffsetFrequency-th.
SampledText(text, samples, n) ==
  /\ RuneCount(text, n)
  /\ samples \in Seq(Nat) /\ Len(samples) = SampleCount(n)
  /\ \A k \in 0..(n - 1) : k % runeOffsetFrequency = 0
                             => samples[k \div runeOffsetFrequency + 1] = SkipRunes(text, k)

LEMMA AppendSample ==
  ASSUME NEW ns \in Seq(Nat), NEW x \in Nat, NEW t, t = ns \o <<x>>
  PROVE  /\ t \in Seq(Nat) /\ Len(t) = Len(ns) + 1
         /\ \A j \in 1..Len(ns) : t[j] = ns[j]
         /\ t[Len(ns) + 1] = x
OBVIOUS

\* The samples of the first r runes.
SampledFirst(text, samples, r) ==
  /\ samples \in Seq(Nat) /\ Len(samples) = SampleCount(r)
  /\ \A k \in 0..(r - 1) : k % runeOffsetFrequency = 0
                             => samples[k \div runeOffsetFrequency + 1] = SkipRunes(text, k)

LEMMA SampleStep ==
  ASSUME NEW text, NEW samples, NEW r \in Nat, SampledFirst(text, samples, r), NEW x \in Nat, x = SkipRunes(text, r)
  PROVE  SampledFirst(text, samples \o (IF r % runeOffsetFrequency = 0 THEN <<x>> ELSE <<>>), r + 1)
<1> DEFINE f == runeOffsetFrequency
           t == samples \o (IF r % f = 0 THEN <<x>> ELSE <<>>)
<1>1. /\ samples \in Seq(Nat) /\ Len(samples) = SampleCount(r)
      /\ \A k \in 0..(r - 1) : k % f = 0 => samples[k \div f + 1] = SkipRunes(text, k)
  BY Zenon DEF SampledFirst
<1>2. \A k \in 0..((r + 1) - 1) : k \in 0..(r - 1) \/ k = r
  OBVIOUS
<1>3. CASE r % f = 0
  <2>1. t = samples \o <<x>>
    BY <1>3, Zenon
  <2> HIDE DEF t
  <2>2. /\ t \in Seq(Nat) /\ Len(t) = Len(samples) + 1
        /\ \A j \in 1..Len(samples) : t[j] = samples[j]
        /\ t[Len(samples) + 1] = x
    BY <1>1, <2>1, AppendSample
  <2>3. Len(samples) = r \div f /\ SampleCount(r + 1) = r \div f + 1
    BY <1>1, <1>3, SampleCounts, Zenon DEF SampleCount
  <2>4. \A k \in 0..(r - 1) : k \div f + 1 \in 1..Len(samples)
    BY <1>1, SampleCounts, Zenon
  <2>5. \A k \in 0..((r + 1) - 1) : k % f = 0 => t[k \div f + 1] = SkipRunes(text, k)
    BY <1>1, <1>2, <2>2, <2>3, <2>4, Zenon
  <2>6. SampledFirst(text, t, r + 1)
    BY <2>2, <2>3, <2>5, Zenon DEF SampledFirst
  <2>. QED  BY <2>6, Zenon DEF t
<1>4. CASE r % f # 0
  <2>1. t = samples \o <<>>
    BY <1>4, Zenon
  <2>2. samples \o <<>> = samples
    BY <1>1
  <2>3. SampleCount(r + 1) = SampleCount(r)
    BY <1>4, SampleCounts, Zenon
  <2>4. \A k \in 0..((r + 1) - 1) : k % f = 0 => samples[k \div f + 1] = SkipRunes(text, k)
    BY <1>1, <1>2, <1>4, Zenon
  <2>5. SampledFirst(text, samples, r + 1)
    BY <1>1, <2>3, <2>4, Zenon DEF SampledFirst
  <2> HIDE DEF t
  <2>6. SampledFirst(text, t, r + 1)
    BY <2>1, <2>2, <2>5, Zenon
  <2>. QED  BY <2>6, Zenon DEF t
<1>. QED  BY <1>3, <1>4, Zenon

\* What newSearchableString keeps of the documents before.
Sampling(text, s) == SampledText(text, s.runeOffsets, s.runeCount) /\ s.endByte = Len(text)

\* newPostingsBuilder: nothing is sampled yet.
LEMMA NothingSampled ==
  ASSUME NEW s, s.runeOffsets = <<>>, s.runeCount = 0, s.endByte = 0
  PROVE  Sampling(<<>>, s)
<1>1. <<>> \in Seq(Byte) /\ <<>> \in Seq(Nat) /\ Len(<<>>) = 0 /\ 0..(0 - 1) = {}
  OBVIOUS
<1>2. SkipRunes(<<>>, 0) = 0
  BY RuneStarts, SMT
<1>3. SampleCount(0) = 0
  BY FrequencyAssumption DEF SampleCount
<1>4. RuneCount(<<>>, 0)
  BY <1>1, <1>2 DEF RuneCount
<1>. QED  BY <1>1, <1>3, <1>4, Zenon DEF Sampling, SampledText

\* The samples of the documents before and one more, decoded by itself.
LEMMA SamplesJoined ==
  ASSUME NEW text \in Seq(Byte), NEW doc \in Seq(Byte), StartsWhole(doc), NEW s, Sampling(text, s)
  PROVE  SampledText(text \o doc, RuneSamples(s, Decode(doc)), s.runeCount + Len(Decode(doc)))
<1> DEFINE all == text \o doc
           d == Decode(doc)
           n == s.runeCount
           m == Len(d)
           l == Len(text)
<1>1. IsJoin(all, text, doc)
  BY Joins, Zenon
<1>2. RuneCount(doc, m) /\ FirstRunes(doc, d)
  BY DecodesAll, Zenon
<1>3. /\ RuneCount(text, n) /\ s.endByte = l
      /\ SampledFirst(text, s.runeOffsets, n)
  BY Zenon DEF Sampling, SampledText, SampledFirst
<1> HIDE DEF all, d, n, m
<1>4. /\ \A k \in 0..n : SkipRunes(all, k) = SkipRunes(text, k)
      /\ \A k \in 0..m : SkipRunes(all, n + k) = l + SkipRunes(doc, k)
  BY <1>1, <1>2, <1>3, JoinedStarts, SMT
<1>5. /\ n \in Nat /\ SkipRunes(text, n) = l /\ \A k \in 0..(n - 1) : SkipRunes(text, k) < l
      /\ m \in Nat /\ SkipRunes(doc, m) = Len(doc) /\ \A k \in 0..(m - 1) : SkipRunes(doc, k) < Len(doc)
  BY <1>2, <1>3, Zenon DEF RuneCount
<1>6. l \in Nat /\ Len(doc) \in Nat
  OBVIOUS
<1>7. all \in Seq(Byte) /\ Len(all) = l + Len(doc)
  BY <1>1, Zenon DEF IsJoin
<1>8. n + m \in Nat /\ m \in 0..m /\ 0 \in 0..m /\ n + 0 = n
  BY <1>5
<1> HIDE DEF l
<1>9. RuneCount(all, n + m)
  <2>1. SkipRunes(all, n + m) = Len(all)
    BY <1>4, <1>5, <1>7, <1>8, Zenon
  <2>2. ASSUME NEW k \in 0..((n + m) - 1)  PROVE SkipRunes(all, k) < Len(all)
    <3>1. CASE k \in 0..(n - 1)
      <4>1. k \in 0..n
        BY <1>5, <3>1
      <4>2. SkipRunes(all, k) < l
        BY <1>4, <1>5, <3>1, <4>1, Zenon
      <4>3. SkipRunes(all, k) \in 0..Len(all)
        <5>1. k \in Nat
          BY <1>8
        <5>. QED  BY <1>7, <5>1, SkipForward, Zenon
      <4> DEFINE p == SkipRunes(all, k)
      <4> HIDE DEF p
      <4>4. p < Len(all)
        BY <1>6, <1>7, <4>2, <4>3 DEF p
      <4>. QED  BY <4>4, Zenon DEF p
    <3>2. CASE k \notin 0..(n - 1)
      <4>1. k - n \in 0..(m - 1) /\ k - n \in 0..m /\ n + (k - n) = k /\ k - n \in Nat
        BY <1>5, <3>2
      <4>2. SkipRunes(all, k) = l + SkipRunes(doc, k - n) /\ SkipRunes(doc, k - n) < Len(doc)
        BY <1>4, <1>5, <4>1, Zenon
      <4>3. SkipRunes(doc, k - n) \in 0..Len(doc)
        BY <4>1, SkipForward, Zenon
      <4> DEFINE p == SkipRunes(doc, k - n)
      <4> HIDE DEF p
      <4>4. l + p < Len(all)
        BY <1>6, <1>7, <4>2, <4>3 DEF p
      <4>. QED  BY <4>2, <4>4, Zenon DEF p
    <3>. QED  BY <3>1, <3>2, Zenon
  <2>. QED  BY <1>8, <2>1, <2>2, Zenon DEF RuneCount
<1> DEFINE h == SampleLoop(s, d)
<1>10. h = [i \in 0..m |-> IF i = 0 THEN s.runeOffsets
                          ELSE h[i - 1] \o IF Sampled(s, i) THEN <<s.endByte + d[i].off>> ELSE <<>>]
  BY <1>5, SampleTurns, Zenon DEF m
<1> HIDE DEF h
<1> DEFINE G == {i \in 0..m : SampledFirst(all, h[i], n + i)}
<1>11. 0 \in G
  <2>1. h[0] = s.runeOffsets
    BY <1>8, <1>10, Zenon
  <2>2. \A k \in 0..(n - 1) : k \in 0..n
    BY <1>5
  <2>3. SampledFirst(all, s.runeOffsets, n)
    BY <1>3, <1>4, <2>2, Zenon DEF SampledFirst
  <2>. QED  BY <1>8, <2>1, <2>3, Zenon
<1>12. ASSUME NEW i \in 1..m, i - 1 \in G  PROVE i \in G
  <2> DEFINE r == n + (i - 1)
             x == s.endByte + d[i].off
  <2>1. i \in 0..m /\ i # 0 /\ i - 1 \in 0..m /\ r \in Nat /\ r + 1 = n + i /\ i - 1 \in Nat
    BY <1>5
  <2>2. h[i] = h[i - 1] \o IF Sampled(s, i) THEN <<x>> ELSE <<>>
    BY <1>10, <2>1, Zenon
  <2>3. d[i].off = SkipRunes(doc, i - 1)
    BY <1>2, Zenon DEF FirstRunes, m
  <2>4. x = SkipRunes(all, r)
    BY <1>3, <1>4, <2>1, <2>3, Zenon
  <2>5. x \in Nat
    <3>1. SkipRunes(doc, i - 1) \in 0..Len(doc)
      BY <2>1, SkipForward, Zenon
    <3>2. SkipRunes(doc, i - 1) \in Nat
      BY <1>6, <3>1
    <3>3. l + SkipRunes(doc, i - 1) \in Nat
      BY <1>6, <3>2
    <3>. QED  BY <1>3, <2>3, <3>3, Zenon
  <2>6. Sampled(s, i) <=> r % runeOffsetFrequency = 0
    <3>1. s.runeCount + i - 1 = r
      BY <1>5 DEF n
    <3>. QED  BY <3>1, Zenon DEF Sampled
  <2>7. SampledFirst(all, h[i - 1], r)
    BY <1>12, Zenon
  <2>8. h[i] = h[i - 1] \o IF r % runeOffsetFrequency = 0 THEN <<x>> ELSE <<>>
    BY <2>2, <2>6, Zenon
  <2> HIDE DEF r, x
  <2>9. SampledFirst(all, h[i - 1] \o (IF r % runeOffsetFrequency = 0 THEN <<x>> ELSE <<>>), r + 1)
    BY <2>1, <2>4, <2>5, <2>7, SampleStep
  <2>10. SampledFirst(all, h[i], n + i)
    BY <2>1, <2>8, <2>9, Zenon
  <2>. QED  BY <2>1, <2>10, Zenon
<1>13. m \in G
  <2> HIDE DEF G
  <2>. QED  BY <1>5, <1>8, <1>11, <1>12, UpTo, Zenon
<1>14. SampledFirst(all, RuneSamples(s, d), n + m)
  BY <1>13, Zenon DEF RuneSamples, h, m
<1>15. SampledText(all, RuneSamples(s, d), n + m)
  BY <1>9, <1>14, Zenon DEF SampledText, SampledFirst
<1>. QED  BY <1>15, Zenon DEF all, d, n, m

(***************************************************************************)
(* newSearchableString samples the offsets of every document's runes,      *)
(* decoded by itself, as if the corpus were one text: the samples are      *)
(* those of the documents joined, as long as no document starts with       *)
(* bytes that go on with a rune the one before it breaks off.              *)
(***************************************************************************)
THEOREM SamplesExact ==
  ASSUME NEW text \in Seq(Byte), NEW doc \in Seq(Byte), StartsWhole(doc), NEW s, Sampling(text, s),
         NEW t, t.runeOffsets = RuneSamples(s, Decode(doc)), t.runeCount = s.runeCount + Len(Decode(doc)),
         t.endByte = s.endByte + Len(doc)
  PROVE  Sampling(text \o doc, t)
<1>1. SampledText(text \o doc, t.runeOffsets, t.runeCount)
  BY SamplesJoined, Zenon
<1>2. s.endByte = Len(text)
  BY Zenon DEF Sampling
<1>3. Len(text \o doc) = Len(text) + Len(doc)
  OBVIOUS
<1>. QED  BY <1>1, <1>2, <1>3, Zenon DEF Sampling

\* in was read from the text, at off, and if it goes on after the text, not with
\* a rune that the text breaks off.
ReadFrom(in, text, off) ==
  /\ in \in Seq(Byte)
  /\ \A i \in 1..Len(in) : off + i <= Len(text) => in[i] = text[off + i]
  /\ Len(in) <= Len(text) - off \/ in[(Len(text) - off) + 1] \notin Continuation

\* The sample findOffset starts from.
LEMMA SampleFound ==
  ASSUME NEW text, NEW samples, NEW n, SampledText(text, samples, n), NEW r \in 0..(n - 1)
  PROVE  \E k \in Nat : /\ r = k + (r % runeOffsetFrequency) /\ r % runeOffsetFrequency \in Nat
                        /\ sampleBefore(samples, r) = SkipRunes(text, k)
<1> DEFINE f == runeOffsetFrequency
           q == r \div f
           o == r % f
           k == f * q
<1>0. f \in Nat /\ f > 0
  BY FrequencyAssumption
<1>1. n \in Nat /\ \A j \in 0..(n - 1) : j % f = 0 => samples[j \div f + 1] = SkipRunes(text, j)
  BY Zenon DEF SampledText, RuneCount
<1>2. r \in Nat
  BY <1>1
<1>3. q \in Nat /\ o \in 0..(f - 1) /\ r = k + o
  BY <1>2, SampleDigits, Zenon
<1> HIDE DEF f, q, o
<1>4. k \in Nat
  BY <1>0, <1>3
<1>5. k = f * q + 0
  BY <1>4
<1>6. 0 \in 0..(f - 1)
  BY <1>0
<1>7. k \div f = q /\ k % f = 0
  <2> HIDE DEF k
  <2>. QED  BY <1>3, <1>4, <1>5, <1>6, QuotientUnique, Zenon DEF f
<1> HIDE DEF k
<1>8. k \in 0..(n - 1) /\ o \in Nat
  BY <1>0, <1>1, <1>2, <1>3, <1>4
<1>9. samples[q + 1] = SkipRunes(text, k)
  BY <1>1, <1>7, <1>8, Zenon
<1>10. sampleBefore(samples, r) = SkipRunes(text, k)
  BY <1>9, Zenon DEF sampleBefore, q, f
<1>. QED  BY <1>3, <1>4, <1>8, <1>10, Zenon DEF o, f

\* Walking from a rune in what was read.
LEMMA WalkRead ==
  ASSUME NEW text \in Seq(Byte), NEW n, RuneCount(text, n), NEW k \in Nat, NEW o \in Nat, k + o < n,
         NEW in, NEW base, base \in Nat, SkipRunes(text, k) = base, ReadFrom(in, text, base),
         SkipRunes(text, k + o) <= base + Len(in)
  PROVE  SkipRunes(text, k + o) = base + SkipRunes(in, o)
<1> DEFINE l == Len(text)
           c == Len(in)
           P(j) == SkipRunes(text, k + j)
           Q(j) == SkipRunes(in, j)
<1>1. /\ in \in Seq(Byte) /\ \A i \in 1..c : base + i <= l => in[i] = text[base + i]
      /\ c <= l - base \/ in[(l - base) + 1] \notin Continuation
  BY Zenon DEF ReadFrom
<1>2. n \in Nat /\ \A j \in 0..(n - 1) : SkipRunes(text, j) < l
  BY Zenon DEF RuneCount
<1>3. l \in Nat
  OBVIOUS
<1>4. c \in Nat
  BY <1>1
<1>5. ASSUME NEW j \in 0..(o - 1), P(j) = base + Q(j)
      PROVE  Walk(text, P(j)) = base + Walk(in, Q(j))
  <2> DEFINE x == Q(j)
             y == P(j)
             z == SizeAt(text, y)
  <2>1. j \in Nat /\ k + j \in Nat /\ k + j \in 0..(n - 1) /\ (k + j) + 1 \in Nat /\ o - (j + 1) \in Nat
    BY <1>2
  <2>2. ((k + j) + 1) + (o - (j + 1)) = k + o
    BY <2>1
  <2>3. y < l /\ y \in 0..l
    BY <1>2, <2>1, SkipForward, Zenon
  <2>4. x \in 0..c
    BY <1>1, <2>1, SkipForward, Zenon
  <2>5. SkipRunes(text, (k + j) + 1) = y + z
    BY <2>1, <2>3, SkipForward, Zenon
  <2>6. y + z <= P(o)
    <3>1. SkipRunes(text, (k + j) + 1) <= SkipRunes(text, ((k + j) + 1) + (o - (j + 1)))
      BY <2>1, StartsAscend, Zenon
    <3>. QED  BY <2>2, <2>5, <3>1, Zenon
  <2>7. P(o) <= base + c /\ P(o) \in 0..l
    <3>1. k + o \in Nat
      OBVIOUS
    <3>. QED  BY <3>1, SkipForward, Zenon
  <2>8. y \in Nat
    BY <1>3, <2>3
  <2>9. z \in 1..4
    BY <2>3, <2>8, SizeAtRange, Zenon
  <2>10. y = base + x
    BY <1>5, Zenon
  <2> HIDE DEF x, y, z, l, c, P
  <2>11. x \in Nat /\ x + z <= c /\ x < c
    BY <1>3, <1>4, <2>3, <2>4, <2>6, <2>7, <2>8, <2>9, <2>10
  <2>12. Alike(in, x, text, y)
    <3>1. \A i \in 1..4 : x + i <= c /\ y + i <= l => x + i \in 1..c /\ y + i = base + (x + i)
      BY <1>3, <1>4, <2>8, <2>10, <2>11
    <3>2. \A i \in 1..4 : x + i <= c /\ y + i <= l => in[x + i] = text[y + i]
      BY <1>1, <3>1, Zenon
    <3>. QED  BY <3>2, Zenon DEF Alike, c, l
  <2>13. Breaks(in, x, text, y)
    <3>1. x + (l - y) + 1 = (l - base) + 1
      BY <1>3, <2>8, <2>10, <2>11
    <3>2. c <= l - base => c - x <= l - y
      BY <1>3, <1>4, <2>8, <2>10, <2>11
    <3>3. c - x <= l - y \/ in[x + (l - y) + 1] \notin Continuation
      BY <1>1, <3>1, <3>2, Zenon
    <3>. QED  BY <3>3, Zenon DEF Breaks, c, l
  <2>14. SameRune(in, x, text, y)
    BY <1>1, <2>3, <2>8, <2>11, <2>12, <2>13, Zenon DEF SameRune, c, l, z
  <2>15. PICK w \in Nat : Walk(in, x) = x + w /\ Walk(text, y) = y + w
    BY <2>14, WalkAgrees, SMT
  <2>16. y + w = base + (x + w)
    BY <2>8, <2>10, <2>11
  <2>17. Walk(text, y) = base + Walk(in, x)
    BY <2>15, <2>16, Zenon
  <2>. QED  BY <2>17, Zenon DEF x, y
<1>6. Together(in, text, k, o, base)
  BY <1>5, Zenon DEF Together
<1>7. o \in 0..o
  OBVIOUS
<1>8. \A j \in 0..o : SkipRunes(text, k + j) = base + SkipRunes(in, j)
  BY <1>6, WalksTogether, SMT
<1>. QED  BY <1>7, <1>8, Zenon

(***************************************************************************)
(* findOffset finds the byte of a rune, from the sample before it, exactly *)
(* when what it reads there reaches as far as the rune.                    *)
(***************************************************************************)
THEOREM RuneByteFound ==
  ASSUME NEW text \in Seq(Byte), NEW samples, NEW n, SampledText(text, samples, n), NEW r \in 0..(n - 1),
         NEW in, ReadFrom(in, text, sampleBefore(samples, r))
  PROVE  runeByte(sampleBefore(samples, r), in, r) = SkipRunes(text, r)
           <=> SkipRunes(text, r) <= sampleBefore(samples, r) + Len(in)
<1> DEFINE o == r % runeOffsetFrequency
           base == sampleBefore(samples, r)
<1>1. PICK k \in Nat : r = k + o /\ o \in Nat /\ base = SkipRunes(text, k)
  BY SampleFound, SMT
<1>2. RuneCount(text, n) /\ n \in Nat
  BY Zenon DEF SampledText, RuneCount
<1>3. ReadFrom(in, text, base)
  BY Zenon
<1>4. runeByte(base, in, r) = base + SkipRunes(in, o)
  BY Zenon DEF runeByte
<1> HIDE DEF o, base
<1>5. k + o < n
  BY <1>1, <1>2
<1>6. base \in Nat
  <2>1. base \in 0..Len(text)
    BY <1>1, SkipForward, Zenon
  <2>. QED  BY <2>1
<1>7. in \in Seq(Byte)
  BY <1>3, Zenon DEF ReadFrom
<1>8. ASSUME SkipRunes(text, r) <= base + Len(in)
      PROVE  base + SkipRunes(in, o) = SkipRunes(text, r)
  BY <1>1, <1>2, <1>3, <1>5, <1>6, <1>8, WalkRead
<1>9. ASSUME base + SkipRunes(in, o) = SkipRunes(text, r)
      PROVE  SkipRunes(text, r) <= base + Len(in)
  <2> DEFINE x == SkipRunes(in, o)
             c == Len(in)
  <2>1. x \in 0..c
    BY <1>1, <1>7, SkipForward, Zenon
  <2>2. c \in Nat
    BY <1>7
  <2> HIDE DEF x, c
  <2>3. base + x <= base + c
    BY <1>6, <2>1, <2>2
  <2>. QED  BY <1>9, <2>3, Zenon DEF x, c
<1>. QED  BY <1>4, <1>8, <1>9, Zenon DEF base

\* Without four byte runes, a rune takes three bytes at most.
LEMMA ThreeBytesEach ==
  ASSUME NEW text \in Seq(Byte), \A i \in 1..Len(text) : text[i] # 15, NEW k \in Nat, NEW n \in Nat
  PROVE  SkipRunes(text, k + n) <= SkipRunes(text, k) + 3 * n
<1> DEFINE P(i) == SkipRunes(text, k + i)
           l == Len(text)
           G == {i \in 0..n : P(i) <= P(0) + 3 * i}
<1>0. l \in Nat
  OBVIOUS
<1>1. \A i \in 0..n : P(i) \in 0..l /\ k + i \in Nat
  <2>1. \A i \in 0..n : k + i \in Nat
    OBVIOUS
  <2>. QED  BY <2>1, SkipForward, Zenon
<1>2. 0 \in 0..n /\ n \in 0..n /\ k + 0 = k
  OBVIOUS
<1>3. 0 \in G
  <2>1. P(0) \in 0..l
    BY <1>1, <1>2, Zenon
  <2> HIDE DEF P
  <2>2. P(0) <= P(0) + 3 * 0
    BY <1>0, <2>1
  <2>. QED  BY <1>2, <2>2, Zenon
<1>4. ASSUME NEW i \in 1..n, i - 1 \in G  PROVE i \in G
  <2>1. i \in 0..n /\ i - 1 \in 0..n /\ (k + (i - 1)) + 1 = k + i /\ i \in Nat
    OBVIOUS
  <2> DEFINE p == P(i - 1)
             z == SizeAt(text, p)
  <2>2. p \in 0..l /\ P(i) \in 0..l /\ P(0) \in 0..l /\ p <= P(0) + 3 * (i - 1)
    BY <1>1, <1>2, <1>4, <2>1, Zenon
  <2>3. /\ p < l => P(i) = p + z
        /\ p = l => P(i) = l
    BY <1>1, <2>1, SkipForward, Zenon
  <2>4. p < l => z \in 1..3
    <3> SUFFICES ASSUME p < l  PROVE z \in 1..3
      BY Zenon
    <3>1. p \in Nat /\ p + 1 \in 1..l
      BY <1>0, <2>2
    <3>2. text[p + 1] # 15
      BY <3>1, Zenon
    <3>. QED  BY <3>1, <3>2, SizeAtRange, Zenon
  <2> HIDE DEF p, z, P, l
  <2>5. P(i) <= P(0) + 3 * i
    BY <1>0, <2>1, <2>2, <2>3, <2>4
  <2>. QED  BY <2>1, <2>5, Zenon
<1>5. n \in G
  <2> HIDE DEF G
  <2>. QED  BY <1>2, <1>3, <1>4, UpTo, Zenon
<1>. QED  BY <1>2, <1>5, Zenon

(***************************************************************************)
(* The three bytes for every rune between two samples that findOffset      *)
(* reads are enough for a text without four byte runes, and all of what    *)
(* follows the sample, which it takes for file names, always is.           *)
(***************************************************************************)
THEOREM ThreeBytesEnough ==
  ASSUME NEW text \in Seq(Byte), NEW samples, NEW n, SampledText(text, samples, n), NEW r \in 0..(n - 1),
         NEW in, ReadFrom(in, text, sampleBefore(samples, r)),
         \/ (\A i \in 1..Len(text) : text[i] # 15) /\ Len(in) >= 3 * runeOffsetFrequency
         \/ Len(in) >= Len(text) - sampleBefore(samples, r)
  PROVE  runeByte(sampleBefore(samples, r), in, r) = SkipRunes(text, r)
<1> DEFINE f == runeOffsetFrequency
           o == r % f
           base == sampleBefore(samples, r)
           c == Len(in)
           l == Len(text)
           p == SkipRunes(text, r)
<1>1. PICK k \in Nat : r = k + o /\ o \in Nat /\ base = SkipRunes(text, k)
  BY SampleFound, SMT
<1>2. n \in Nat
  BY Zenon DEF SampledText, RuneCount
<1>3. r \in Nat /\ l \in Nat
  BY <1>2
<1>4. base \in 0..l /\ p \in 0..l
  BY <1>1, <1>3, SkipForward, Zenon
<1>5. c \in Nat
  <2>1. in \in Seq(Byte)
    BY Zenon DEF ReadFrom
  <2>. QED  BY <2>1
<1>6. f \in Nat /\ f > 0 /\ o \in 0..(f - 1)
  <2>1. f \in Nat /\ f > 0
    BY FrequencyAssumption
  <2>. QED  BY <1>3, <2>1, SampleDigits, Zenon
<1>7. ASSUME (\A i \in 1..Len(text) : text[i] # 15) /\ c >= 3 * f
      PROVE  p <= base + c
  <2>1. SkipRunes(text, k + o) <= SkipRunes(text, k) + 3 * o
    BY <1>1, <1>7, ThreeBytesEach, Zenon
  <2>2. p <= base + 3 * o /\ c >= 3 * f
    BY <1>1, <1>7, <2>1, Zenon
  <2> HIDE DEF f, o, base, c, l, p
  <2>. QED  BY <1>3, <1>4, <1>5, <1>6, <2>2
<1>8. ASSUME c >= l - base  PROVE p <= base + c
  <2> HIDE DEF base, c, l, p
  <2>. QED  BY <1>3, <1>4, <1>5, <1>8
<1>9. p <= base + c
  BY <1>7, <1>8, Zenon
<1>. QED  BY <1>9, RuneByteFound, Zenon
=============================================================================
