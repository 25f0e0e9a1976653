------------------------------ MODULE Codings ------------------------------
(***************************************************************************)
(* bits.go: lists of numbers as bytes, the form of every posting list and  *)
(* of most sections of an index file: differences as varints of            *)
(* encoding/binary.  A loop is a function from the number of its turns to  *)
(* the state after them.                                                   *)
(***************************************************************************)
EXTENDS Integers, Sequences

CONSTANT byteBase    \* values of a byte (256 in the code)

ASSUME CodingsAssumption == byteBase \in Nat /\ byteBase >= 4 /\ byteBase % 2 = 0

varintBase == byteBase \div 2  \* a varint has one bit of each byte to spare
wordBase   == byteBase * byteBase * byteBase * byteBase  \* values of a uint32
maxUInt32  == wordBase - 1

\* in[from:to] of Go.
Slice(in, from, to) == SubSeq(in, from + 1, to)

(***************************************************************************)
(* Numbers as bytes, the high one first.                                   *)
(***************************************************************************)
\* What is left of n after i bytes of it, the low ones, were put.
Unput(n, width) == LET x[i \in 0..width] == IF i = 0 THEN n ELSE x[i - 1] \div byteBase IN x

BigEndian(n, width) == [i \in 1..width |-> Unput(n, width)[width - i] % byteBase]

\* The value of the bytes up to each.
BytesValue(b) == LET v[i \in 0..Len(b)] == IF i = 0 THEN 0 ELSE v[i - 1] * byteBase + b[i] IN v

FromBigEndian(b) == BytesValue(b)[Len(b)]

(***************************************************************************)
(* Varints of encoding/binary: the low digit first, all but the last byte  *)
(* marked.                                                                 *)
(***************************************************************************)
\* What is left of n after i turns of PutUvarint's loop.
Shifted(n) == LET x[i \in 0..n] == IF i = 0 THEN n ELSE x[i - 1] \div varintBase IN x

MarkedBytes(n) ==
  CHOOSE k \in 0..n : /\ Shifted(n)[k] < varintBase
                      /\ \A i \in 0..(k - 1) : Shifted(n)[i] >= varintBase

PutUvarint(n) ==
  LET k == MarkedBytes(n)
  IN  [i \in 1..(k + 1) |-> IF i <= k THEN (Shifted(n)[i - 1] % varintBase) + varintBase
                            ELSE Shifted(n)[k]]

\* The value of the last j + 1 of the first sz bytes.
DigitsValue(b, sz) ==
  LET v[j \in 0..(sz - 1)] ==
        IF j = 0 THEN b[sz] ELSE b[sz - j] - varintBase + varintBase * v[j - 1]
  IN  v

UvarintSize(b) ==
  CHOOSE k \in DOMAIN b : b[k] < varintBase /\ \A i \in 1..(k - 1) : b[i] >= varintBase

Uvarint(b) == LET sz == UvarintSize(b) IN [n |-> DigitsValue(b, sz)[sz - 1], sz |-> sz]

(***************************************************************************)
(* Lists of uint32 as their differences.                                   *)
(***************************************************************************)
\* A difference that does not fit its 32 bits (a mutation of Delta).
DeltaSaturates(n, last) == IF n < last THEN 0 ELSE n - last

\* p - last in uint32: going down wraps around.
Delta(n, last) == (n - last) % wordBase

\* The loop of toSizedDeltas over the offsets.
DeltasLoop(offsets) ==
  LET deltas[i \in 0..Len(offsets)] ==
        IF i = 0 THEN <<>>
        ELSE deltas[i - 1] \o PutUvarint(Delta(offsets[i], IF i = 1 THEN 0 ELSE offsets[i - 1]))
  IN  deltas

Deltas(offsets) == DeltasLoop(offsets)[Len(offsets)]

toSizedDeltas(offsets) == PutUvarint(Len(offsets)) \o Deltas(offsets)

\* A turn of the loop of fromDeltas; without data the loop has ended.
ReadDelta(s) ==
  IF s.data = <<>> THEN s
  ELSE LET d      == Uvarint(s.data)
           offset == (s.last + d.n) % wordBase
       IN  [data |-> Slice(s.data, d.sz, Len(s.data)), last |-> offset, ps |-> Append(s.ps, offset)]

\* A turn takes a byte or more, so that there are at most Len(data) of them.
ReadLoop(data) ==
  LET turn[i \in 0..Len(data)] ==
        IF i = 0 THEN [data |-> data, last |-> 0, ps |-> <<>>] ELSE ReadDelta(turn[i - 1])
  IN  turn

fromDeltas(data) == ReadLoop(data)[Len(data)].ps

fromSizedDeltas(data) == fromDeltas(Slice(data, Uvarint(data).sz, Len(data)))

(***************************************************************************)
(* Sections as the list of their starts and ends.                          *)
(***************************************************************************)
marshalDocSections(secs) ==
  toSizedDeltas([i \in 1..(2 * Len(secs)) |->
                   IF i % 2 = 1 THEN secs[(i + 1) \div 2].Start ELSE secs[i \div 2].End])

unmarshalDocSections(in) ==
  LET ints == fromSizedDeltas(in)
  IN  [i \in 1..(Len(ints) \div 2) |-> [Start |-> ints[2 * i - 1], End |-> ints[2 * i]]]
=============================================================================
