------------------------------ MODULE RuneText ------------------------------
(***************************************************************************)
(* Texts as runes, and from the number of a rune back to its byte: the     *)
(* loops over utf8.DecodeRune in newSearchableString of indexbuilder.go    *)
(* and findOffset of contentprovider.go.  Texts are sequences of bytes,    *)
(* and of a byte the model keeps four bits, those by which UTF-8 tells     *)
(* ASCII (0..7), continuation bytes (8..11) and the first bytes of two,    *)
(* three and four byte runes (12..15) apart.  A rune is the sequence of    *)
(* its bytes.  Offsets count from 0, as in the code.                       *)
(***************************************************************************)
EXTENDS Codings

CONSTANT runeOffsetFrequency   \* runes between two samples of their offsets (100 in the code)

ASSUME BitsAssumption      == byteBase = 16
ASSUME FrequencyAssumption == runeOffsetFrequency \in Nat \ {0}

(***************************************************************************)
(* DecodeRune of unicode/utf8.                                             *)
(***************************************************************************)
RuneError == <<14, 11, 11>>

Continuation == 8..11

RuneSize(b) == CASE b < 8 -> 1 [] b \in Continuation -> 0 [] b \in 12..13 -> 2 [] b = 14 -> 3 [] b = 15 -> 4

DecodeRune(in) ==
  LET n == IF in = <<>> THEN 0 ELSE RuneSize(in[1])
  IN  IF n > 0 /\ Len(in) >= n /\ \A i \in 2..n : in[i] \in Continuation
      THEN [r |-> SubSeq(in, 1, n), sz |-> n]
      ELSE [r |-> RuneError, sz |-> IF in = <<>> THEN 0 ELSE 1]

\* The rune at an offset of in.
RuneIn(in, off) == DecodeRune(Slice(in, off, Len(in)))

\* A turn of the loop `for len(in) > 0 { r, sz := utf8.DecodeRune(in); in = in[sz:] }`.
ReadRune(in, s) ==
  IF s.off >= Len(in) THEN s
  ELSE LET d == RuneIn(in, s.off)
       IN  [off |-> s.off + d.sz, runes |-> Append(s.runes, [r |-> d.r, sz |-> d.sz, off |-> s.off])]

\* A turn takes a byte or more, so that there are at most Len(in) of them.
DecodeLoop(in) ==
  LET turn[i \in 0..Len(in)] == IF i = 0 THEN [off |-> 0, runes |-> <<>>] ELSE ReadRune(in, turn[i - 1])
  IN  turn

Decode(in) == DecodeLoop(in)[Len(in)].runes

\* Only the first n.
DecodeFirst(in, n) == DecodeLoop(in)[IF n < Len(in) THEN n ELSE Len(in)].runes

(***************************************************************************)
(* newSearchableString samples the offsets, in the corpus, of the runes of *)
(* the next document, d.                                                   *)
(***************************************************************************)
\* Sampling from the start of every document instead (a mutation of Sampled).
SampledPerDocument(s, i) == (i - 1) % runeOffsetFrequency = 0

\* Is the i-th rune of the document one to sample?
Sampled(s, i) == (s.runeCount + i - 1) % runeOffsetFrequency = 0

\* The samples after each rune.
SampleLoop(s, d) ==
  LET samples[i \in 0..Len(d)] ==
        IF i = 0 THEN s.runeOffsets
        ELSE samples[i - 1] \o IF Sampled(s, i) THEN <<s.endByte + d[i].off>> ELSE <<>>
  IN  samples

RuneSamples(s, d) == SampleLoop(s, d)[Len(d)]

(***************************************************************************)
(* findOffset goes to the sample before a rune, and walks from there.      *)
(***************************************************************************)
sampleBefore(sample, absR) == sample[absR \div runeOffsetFrequency + 1]

\* The bytes walked after each turn of its loop.
Walk(in, off) == off + RuneIn(in, off).sz

SkipLoop(in, left) == LET off[i \in 0..left] == IF i = 0 THEN 0 ELSE Walk(in, off[i - 1]) IN off

SkipRunes(in, left) == SkipLoop(in, left)[left]

\* in is what was read at byteOff, the sample.
runeByte(byteOff, in, absR) == byteOff + SkipRunes(in, absR % runeOffsetFrequency)
=============================================================================
