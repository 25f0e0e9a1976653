-------------------------------- MODULE Bits --------------------------------
(***************************************************************************)
(* bits.go: the runes of texts in their cases, and ngrams of them.         *)
(***************************************************************************)
EXTENDS RuneText, FiniteSets, SequencesExt

CONSTANTS ngramSize   \* runes in an ngram (3 in the code)

NUL     == 0
Newline == 1
Space   == 2
Upper   == 4..5      \* letters, and below their lower case
Lower   == 6..7
Kelvin  == <<14, 8, 10>>    \* K, the third case of the letter 6, in three bytes

(***************************************************************************)
(* Runes and their cases, of the package unicode.                          *)
(***************************************************************************)
ToLower(r) == IF r = Kelvin THEN <<6>> ELSE IF r[1] \in Upper THEN <<r[1] + 2>> ELSE r

SimpleFold(r) ==
  CASE r = <<6>>       -> Kelvin
    [] r = Kelvin      -> <<4>>
    [] r[1] \in Upper  -> <<r[1] + 2>>
    [] r = <<7>>       -> <<5>>
    [] OTHER           -> r

Each(xs, f(_)) == [i \in DOMAIN xs |-> f(xs[i])]

Runes(in) == Each(Decode(in), LAMBDA d : d.r)

toLower(in) == FlattenSeq(Each(Runes(in), ToLower))

(***************************************************************************)
(* caseFoldingEqualsRunes: the byte size of the match, or -1.              *)
(***************************************************************************)
\* The size of the first n runes of what was decoded.
SizeOf(m, n) == IF n = 0 THEN 0 ELSE m[n].off + m[n].sz

FoldingSize(l, m) ==
  IF Len(l) <= Len(m) /\ \A i \in DOMAIN l : l[i] = ToLower(m[i].r) THEN SizeOf(m, Len(l)) ELSE -1

caseFoldingEqualsRunes(lower, mixed) == FoldingSize(Runes(lower), DecodeFirst(mixed, Len(Runes(lower))))

(***************************************************************************)
(* Ngrams.  The 21 bits per rune keep them in the order of their runes.    *)
(***************************************************************************)
RuneNGrams(r) == [i \in 1..(Len(r) - ngramSize + 1) |-> SubSeq(r, i, i + ngramSize - 1)]

splitNGrams(in) == RuneNGrams(Runes(in))

NgramLess(g, h) ==
  \E i \in 1..ngramSize : /\ FromBigEndian(g[i]) < FromBigEndian(h[i])
                          /\ \A j \in 1..(i - 1) : g[j] = h[j]
=============================================================================
