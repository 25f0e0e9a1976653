--------------------------- MODULE ContentProvider ---------------------------
(***************************************************************************)
(* contentprovider.go and candidateMatch of matchiter.go: the text of a    *)
(* document, from runes back to bytes, and the lines a match is shown in.  *)
(* d is the index data of a shard, idx a document of it.  A candidate has  *)
(* its fileName, runeOffset, byteOffset and byteMatchSz.                   *)
(***************************************************************************)
EXTENDS IndexFile

\* data: the name or the content of the document.
data(d, idx, isName) == IF isName THEN fileName(d, idx) ELSE readContents(d, idx)

\* The number, in the corpus, of rune r of document idx.
absRune(runeEnds, idx, r) == r + IF idx > 0 THEN runeEnds[idx] ELSE 0

(***************************************************************************)
(* findOffset: the byte offset, in the document, of its rune number r.     *)
(* Only three bytes per rune are read after the sample.                    *)
(***************************************************************************)
findOffset(d, idx, isName, r) ==
  LET sample   == IF isName THEN d.fileNameRuneOffsets ELSE d.runeOffsets
      runeEnds == IF isName THEN d.fileNameEndRunes ELSE d.fileEndRunes
      start    == IF isName THEN d.fileNameIndex[idx + 1] ELSE d.boundaries[idx + 1]
      absR     == absRune(runeEnds, idx, r)
      byteOff  == sampleBefore(sample, absR)
      in       == IF isName THEN Slice(d.fileNameContent, byteOff, Len(d.fileNameContent))
                  ELSE readContentSlice(d, byteOff, 3 * runeOffsetFrequency)
  IN  IF d.metaData.PlainASCII THEN r
      ELSE runeByte(byteOff, in, absR) - start

\* candidateMatch.line: the line the match starts in; num counts from 1.
line(newlines, fileSize, byteOffset) ==
  LET before == Cardinality({i \in DOMAIN newlines : newlines[i] < byteOffset})
  IN  [num   |-> before + 1,
       start |-> IF before > 0 THEN newlines[before] + 1 ELSE 0,
       end   |-> IF before < Len(newlines) THEN newlines[before + 1] ELSE fileSize]

\* Takes lines until the last match is passed.
NextLineEnd(in, lineEnd, endMatch) ==
  LET nls == {i \in lineEnd + 1..Len(in) - 1 : in[i + 1] = Newline}
  IN  IF lineEnd >= Len(in) \/ endMatch <= lineEnd THEN lineEnd
      ELSE IF nls = {} THEN Len(in) ELSE CHOOSE i \in nls : \A j \in nls : i <= j

ExtendLine(in, lineEnd, endMatch) ==
  LET end[i \in 0..Len(in)] == IF i = 0 THEN lineEnd ELSE NextLineEnd(in, end[i - 1], endMatch) IN end[Len(in)]

Fragment(m, lineStart) ==
  [LineOffset |-> m.byteOffset - lineStart, Offset |-> m.byteOffset, MatchLength |-> m.byteMatchSz]

(***************************************************************************)
(* fillContentMatches: a line for the first match and all that start no    *)
(* later than its end, then the same for the rest.                         *)
(***************************************************************************)
LineMatch(in, l, ms, end) ==
  [Line |-> Slice(in, l.start, end), LineStart |-> l.start, LineEnd |-> end, LineNumber |-> l.num, FileName |-> FALSE,
   LineFragments |-> Each(ms, LAMBDA m : Fragment(m, l.start))]

ExtendedLine(in, l, ms) == LineMatch(in, l, ms, ExtendLine(in, l.end, Last(ms).byteOffset + Last(ms).byteMatchSz))

TakeLine(in, s, l) ==
  LET n == CHOOSE n \in 1..Len(s.ms) : /\ \A i \in 1..n : s.ms[i].byteOffset <= l.end
                                       /\ n < Len(s.ms) => s.ms[n + 1].byteOffset > l.end
  IN  [lines |-> Append(s.lines, ExtendedLine(in, l, SubSeq(s.ms, 1, n))), ms |-> SubSeq(s.ms, n + 1, Len(s.ms))]

LineMatches(in, newlines, ms) ==
  LET turn[i \in 0..Len(ms)] ==
        IF i = 0 THEN [lines |-> <<>>, ms |-> ms]
        ELSE LET s == turn[i - 1]
             IN  IF s.ms = <<>> THEN s ELSE TakeLine(in, s, line(newlines, Len(in), s.ms[1].byteOffset))
  IN  turn[Len(ms)].lines

fillContentMatches(d, idx, ms) == LineMatches(readContents(d, idx), readNewlines(d, idx), ms)

(***************************************************************************)
(* matchScore, with its constants.                                         *)
(***************************************************************************)
scorePartialWordMatch   == 50
scoreWordMatch          == 500
scoreImportantThreshold == 2000
scorePartialSymbol      == 4000
scoreSymbol             == 7000

byteClass(c) == CASE c \in Upper \cup Lower -> "char" [] c \in {Space, Newline} -> "space" [] OTHER -> "other"

\* findSection: at most one section.
findSection(secs, off, sz) ==
  LET from == {i \in DOMAIN secs : secs[i].End >= off + sz}
      j    == CHOOSE i \in from : \A k \in from : i <= k
  IN  IF from # {} /\ secs[j].Start <= off THEN {secs[j]} ELSE {}

WordScore(in, from, to) ==
  LET startBoundary == from < Len(in) /\ (from = 0 \/ byteClass(in[from]) # byteClass(in[from + 1]))
      endBoundary   == to > 0 /\ (to = Len(in) \/ byteClass(in[to]) # byteClass(in[to + 1]))
  IN  IF startBoundary /\ endBoundary THEN scoreWordMatch
      ELSE IF startBoundary \/ endBoundary THEN scorePartialWordMatch ELSE 0

SymbolScore(sec, off, sz) ==
  LET startMatch == sec.Start = off
      endMatch   == sec.End = off + sz
  IN  IF startMatch /\ endMatch THEN scoreSymbol
      ELSE IF startMatch \/ endMatch THEN (scoreSymbol + scorePartialSymbol) \div 2 ELSE scorePartialSymbol

matchScore(secs, m) ==
  LET Score(f) == WordScore(m.Line, f.LineOffset, f.LineOffset + f.MatchLength)
                    + MapThenSumSet(LAMBDA sec : SymbolScore(sec, f.Offset, f.MatchLength), findSection(secs, f.Offset, f.MatchLength))
  IN  Max({0} \cup {Score(m.LineFragments[i]) : i \in DOMAIN m.LineFragments})

fillMatches(d, idx, ms) ==
  LET lines == IF ms[1].fileName
               THEN <<[Line |-> fileName(d, idx), LineStart |-> 0, LineEnd |-> 0, LineNumber |-> 0, FileName |-> TRUE,
                       LineFragments |-> Each(ms, LAMBDA m : Fragment(m, 0))]>>
               ELSE fillContentMatches(d, idx, ms)
  IN  Each(lines, LAMBDA l : l @@ [Score |-> matchScore(readDocSections(d, idx), l)])

=============================================================================
