---------------------------- MODULE HitIterators ----------------------------
(***************************************************************************)
(* hititer.go, the iterators of matchiter.go and iterateNgrams of          *)
(* indexdata.go: from a pattern to the places where it may be found.       *)
(* Iterators are values: First and NextDoc look at one, Skip, Prepare and  *)
(* Candidates give the one that is left.                                   *)
(***************************************************************************)
EXTENDS IndexFile, Query, PostingIterator

Least(S) == CHOOSE x \in S : \A y \in S : x <= y

(***************************************************************************)
(* Hits in the corpus.                                                     *)
(***************************************************************************)
RECURSIVE First(_)
First(i) ==
  CASE i.it = "mem"        -> IF i.postings = <<>> THEN maxUInt32 ELSE i.postings[1]
    [] i.it = "compressed" -> i.first
    [] i.it = "merge"      -> Least({maxUInt32} \cup {First(i.iters[k]) : k \in DOMAIN i.iters})
    [] i.it = "dist"       -> First(i.i1)

RECURSIVE Skip(_, _)

\* Moves on until the two iterators stand at their distance, or one is at its end.
RECURSIVE findNext(_)
findNext(i) ==
  LET p1 == First(i.i1)
      p2 == First(i.i2)
      at == (p1 + i.distance) % wordBase
  IN  IF p1 = maxUInt32 \/ p2 = maxUInt32 THEN [i EXCEPT !.i1 = Skip(@, maxUInt32)]
      ELSE IF at < p2 THEN findNext([i EXCEPT !.i1 = Skip(@, p2 - i.distance - 1)])
      ELSE IF at > p2 THEN findNext([i EXCEPT !.i2 = Skip(@, at - 1)])
      ELSE i

Skip(i, limit) ==
  CASE i.it = "mem" -> [i EXCEPT !.postings = IF limit = maxUInt32 THEN <<>> ELSE SelectSeq(@, LAMBDA p : p > limit)]
    [] i.it = "compressed" -> nextPosting(i, limit)
    [] i.it = "merge" -> [i EXCEPT !.iters = Each(@, LAMBDA j : Skip(j, limit))]
    [] i.it = "dist" ->
         LET l2 == (limit + i.distance) % wordBase
         IN  findNext([i EXCEPT !.i1 = Skip(@, limit), !.i2 = Skip(@, IF l2 < limit THEN maxUInt32 ELSE l2)])

\* Turns the first rune; when it is back where it started, the next one too.
NextVariant(cur, g) ==
  LET turned == {i \in 1..ngramSize : \A j \in 1..(i - 1) : SimpleFold(cur[j]) = g[j]}
  IN  [i \in 1..ngramSize |-> IF i \in turned THEN SimpleFold(cur[i]) ELSE cur[i]]

RECURSIVE VariantsFrom(_, _)
VariantsFrom(cur, g) ==
  LET next == NextVariant(cur, g)
  IN  <<next>> \o IF next = g THEN <<>> ELSE VariantsFrom(next, g)

generateCaseNgrams(g) == VariantsFrom(g, g)

Merged(iters) == IF Len(iters) = 1 THEN iters[1] ELSE [it |-> "merge", iters |-> iters]

trigramHitIterator(d, ng, caseSensitive, isName) ==
  LET variants == IF caseSensitive THEN <<ng>> ELSE generateCaseNgrams(ng)
      present  == SelectSeq(variants, LAMBDA v : v \in DOMAIN (IF isName THEN d.fileNameNgrams ELSE d.ngrams))
  IN  Merged(Each(present, LAMBDA v : IF isName THEN [it |-> "mem", postings |-> d.fileNameNgrams[v]]
                                      ELSE newCompressedPostingIterator(readSectionBlob(d.file, d.ngrams[v]))))

\* Its first call of first, which runs findNext, is made at once.
newDistanceTrigramIter(d, ng1, ng2, dist, caseSensitive, isName) ==
  findNext([it |-> "dist", distance |-> dist, i1 |-> trigramHitIterator(d, ng1, caseSensitive, isName),
                                              i2 |-> trigramHitIterator(d, ng2, caseSensitive, isName)])

(***************************************************************************)
(* Candidates in documents.                                                *)
(***************************************************************************)
FileStart(ends, k) == IF k > 0 THEN ends[k] ELSE 0

RECURSIVE NextDocOf(_)
NextDocOf(i) ==
  CASE i.kind = "none"  -> maxUInt32
    [] i.kind = "ngram" -> LET f == nextFileIndex(First(i.iter), i.fileIdx, i.ends)
                           IN  IF f >= Len(i.ends) THEN maxUInt32 ELSE f
    [] i.kind = "trim"  -> NextDocOf(i.inner)

\* Leaves out the hit at the start of the document (a mutation of prepareNgram).
prepareNgramLate(i, k) ==
  LET start == FileStart(i.ends, k)
  IN  [i EXCEPT !.fileIdx = k, !.iter = IF start > 0 THEN Skip(@, start + i.leftPad) ELSE @]

prepareNgram(i, k) ==
  LET start == FileStart(i.ends, k)
  IN  [i EXCEPT !.fileIdx = k, !.iter = IF start > 0 THEN Skip(@, start + i.leftPad - 1) ELSE @]

RECURSIVE PrepareIter(_, _)
PrepareIter(i, k) ==
  CASE i.kind = "none"  -> i
    [] i.kind = "ngram" -> prepareNgram(i, k)
    [] i.kind = "trim"  -> [i EXCEPT !.inner = PrepareIter(@, k), !.doc = k,
                                     !.sections = SelectSeq(@, LAMBDA s : s.Start >= FileStart(i.fileEndRunes, k))]

\* The loop of ngramDocIterator.candidates, with the rune offsets found so far.
RECURSIVE Hits(_, _)
Hits(i, found) ==
  LET p1    == First(i.iter)
      start == FileStart(i.ends, i.fileIdx)
      end   == i.ends[i.fileIdx + 1]
      rest  == [i EXCEPT !.iter = Skip(@, p1)]
  IN  IF p1 = maxUInt32 \/ p1 >= end THEN [found |-> found, iter |-> i]
      ELSE IF p1 < i.leftPad + start \/ p1 + i.rightPad > end THEN Hits(rest, found)
      ELSE Hits(rest, Append(found, p1 - start - i.leftPad))

\* Of a match with sec.Start <= start < sec.End: it falls inside the section.
InSection(sec, start, end) == end <= sec.End

RECURSIVE TrimBySection(_, _, _, _, _)
TrimBySection(fileStart, size, sections, ms, trimmed) ==
  LET start == fileStart + ms[1]
      sec   == sections[1]
  IN  IF sections = <<>> \/ ms = <<>> THEN [found |-> trimmed, sections |-> sections]
      ELSE IF start >= sec.End THEN TrimBySection(fileStart, size, Tail(sections), ms, trimmed)
      ELSE TrimBySection(fileStart, size, sections, Tail(ms),
                         IF start >= sec.Start /\ InSection(sec, start, start + size)
                         THEN Append(trimmed, ms[1]) ELSE trimmed)

RECURSIVE Candidates(_)
Candidates(i) ==
  CASE i.kind = "none"  -> [found |-> <<>>, iter |-> i]
    [] i.kind = "ngram" -> IF i.fileIdx >= Len(i.ends) THEN [found |-> <<>>, iter |-> i] ELSE Hits(i, <<>>)
    [] i.kind = "trim"  ->
         LET ms == Candidates(i.inner)
             t  == TrimBySection(FileStart(i.fileEndRunes, i.doc), i.patternSize, i.sections, ms.found, <<>>)
         IN  [found |-> t.found, iter |-> [i EXCEPT !.inner = ms.iter, !.sections = t.sections]]

newTrimByDocSectionIter(d, q, inner) ==
  [kind |-> "trim", inner |-> inner, patternSize |-> Len(Runes(q.Pattern)), fileEndRunes |-> d.fileEndRunes,
   sections |-> d.runeDocSections, doc |-> 0]

(***************************************************************************)
(* iterateNgrams: the two ngrams of the pattern that are least frequent.   *)
(***************************************************************************)
firstMinarg(xs) == Least({i \in DOMAIN xs : \A j \in DOMAIN xs : xs[i] <= xs[j]})
lastMinarg(xs)  == Max({i \in DOMAIN xs : \A j \in DOMAIN xs : xs[i] <= xs[j]})

ngramFrequency(d, ng, isName) ==
  IF isName THEN Len(Get(d.fileNameNgrams, ng, <<>>)) ELSE Get(d.ngrams, ng, <<0, 0>>)[2]

Frequency(d, ng, q) ==
  IF q.CaseSensitive THEN ngramFrequency(d, ng, q.FileName)
  ELSE FoldLeft(LAMBDA n, v : n + ngramFrequency(d, v, q.FileName), 0, generateCaseNgrams(ng))

\* The iterator over two ngrams, the one at firstI no later than that at lastI.
NgramIter(d, q, ngrams, firstI, lastI) ==
  [kind |-> "ngram", leftPad |-> firstI - 1, rightPad |-> Len(Runes(q.Pattern)) - (firstI - 1),
   ends |-> IF q.FileName THEN d.fileNameEndRunes ELSE d.fileEndRunes, fileIdx |-> 0,
   iter |-> IF firstI # lastI
            THEN newDistanceTrigramIter(d, ngrams[firstI], ngrams[lastI], lastI - firstI, q.CaseSensitive, q.FileName)
            ELSE trigramHitIterator(d, ngrams[lastI], q.CaseSensitive, q.FileName)]

IterOfTwo(d, q, ngrams, a, b) == NgramIter(d, q, ngrams, Least({a, b}), Max({a, b}))

IterOfRarest(d, q, ngrams, freqs) ==
  LET a == firstMinarg(freqs)
  IN  IF \E i \in DOMAIN freqs : freqs[i] = 0 THEN [kind |-> "none"]
      ELSE IterOfTwo(d, q, ngrams, a, lastMinarg([freqs EXCEPT ![a] = maxUInt32]))

IterOfNgrams(d, q, ngrams) == IterOfRarest(d, q, ngrams, Each(ngrams, LAMBDA ng : Frequency(d, ng, q)))

iterateNgrams(d, q) == IterOfNgrams(d, q, splitNGrams(q.Pattern))

=============================================================================
