---------------------------- MODULE IndexBuilder ----------------------------
(***************************************************************************)
(* indexbuilder.go: what adding documents to a shard in the making does.   *)
(* A builder is a record with the fields of IndexBuilder; a document has   *)
(* those of Document, with SkipReason "" when there is none.               *)
(***************************************************************************)
EXTENDS Bits, FiniteSetsExt, TLC

CONSTANTS
  maxTrigramCount,       \* bound of CheckText (20000)
  maxLanguages,          \* languages of one shard (255)
  maxBranches            \* branches of one repository (64)

\* Names are texts like any other.
HEAD           == <<4, 5>>
binaryLanguage == <<NUL>>

Get(f, k, default) == IF k \in DOMAIN f THEN f[k] ELSE default

newPostingsBuilder ==
  [postings |-> <<>>, lastOffsets |-> <<>>, runeOffsets |-> <<>>, runeCount |-> 0,
   isPlainASCII |-> TRUE, endRunes |-> <<>>, endByte |-> 0]

AddPosting(s, p) ==
  [s EXCEPT
     !.postings    = (p.ng :> (Get(@, p.ng, <<>>) \o PutUvarint(Delta(p.off, Get(s.lastOffsets, p.ng, 0))))) @@ @,
     !.lastOffsets = (p.ng :> p.off) @@ @]

\* Where it starts in bytes (a mutation of corpusOffset).
corpusOffsetInBytes(s, i) == s.endByte + i - 1

\* The place, in runes of the corpus, of the i-th ngram of the next document.
corpusOffset(s, i) == s.runeCount + i - 1

Indices(n) == [i \in 1..n |-> i]

(***************************************************************************)
(* newSearchableString.  The postings are changed before a boundary that   *)
(* is not one of a rune is met.                                            *)
(***************************************************************************)
AddPostings(s, ngrams) ==
  FoldLeft(AddPosting, s, [i \in DOMAIN ngrams |-> [ng |-> ngrams[i], off |-> corpusOffset(s, i)]])

\* d are the runes of data, with their offsets.
AddRunes(s, data, d, byteSections) ==
  LET counted == [AddPostings(s, splitNGrams(data)) EXCEPT !.runeOffsets = RuneSamples(s, d),
                                                           !.isPlainASCII = @ /\ \A i \in DOMAIN d : d[i].sz = 1,
                                                           !.runeCount = @ + Len(d)]
      RuneAt(b) == s.runeCount + Cardinality({i \in DOMAIN d : d[i].off < b})
      AtRune(b) == b = Len(data) \/ \E i \in DOMAIN d : d[i].off = b
      err    == \E i \in DOMAIN byteSections : ~AtRune(byteSections[i].Start) \/ ~AtRune(byteSections[i].End)
  IN  [s   |-> IF err THEN counted
               ELSE [counted EXCEPT !.endRunes = Append(@, s.runeCount + Len(d)), !.endByte = @ + Len(data)],
       secs |-> Each(byteSections, LAMBDA sec : [Start |-> RuneAt(sec.Start), End |-> RuneAt(sec.End)]),
       err |-> err]

newSearchableString(s, data, byteSections) == AddRunes(s, data, Decode(data), byteSections)

(***************************************************************************)
(* NewIndexBuilder and setRepository.  repo has a Name, its Branches and   *)
(* the SubRepoMap from paths to repositories, in which the root joins as   *)
(* the path <<>>.                                                          *)
(***************************************************************************)
PathLess(p, q) ==
  \/ IsStrictPrefix(p, q)
  \/ \E i \in 1..Len(p) : i <= Len(q) /\ p[i] < q[i] /\ \A j \in 1..(i - 1) : p[j] = q[j]

SortedPaths(repo) == SetToSortSeq(DOMAIN repo.SubRepoMap, PathLess)

setRepositoryFails(repo) == Len(repo.Branches) > maxBranches

NewIndexBuilder(repo) ==
  LET root == (<<>> :> [Name |-> repo.Name, Branches |-> repo.Branches]) @@ repo.SubRepoMap
  IN  [contentStrings |-> <<>>, nameStrings |-> <<>>, docSections |-> <<>>, runeDocSections |-> <<>>,
       checksums |-> <<>>, branchMasks |-> <<>>, subRepos |-> <<>>,
       contentPostings |-> newPostingsBuilder, namePostings |-> newPostingsBuilder,
       repo |-> [repo EXCEPT !.SubRepoMap = root], languageMap |-> <<>>, languages |-> <<>>]

subRepoIndices(b) ==
  LET paths == SortedPaths(b.repo)
  IN  [p \in DOMAIN b.repo.SubRepoMap |-> (CHOOSE i \in DOMAIN paths : paths[i] = p) - 1]

branchMask(b, br) ==
  LET at == {i \in DOMAIN b.repo.Branches : b.repo.Branches[i].Name = br}
  IN  IF at = {} THEN 0 ELSE 2 ^ (CHOOSE i \in at : \A j \in at : i <= j) \div 2

MaskOf(bits) == SumSet(bits)

(***************************************************************************)
(* CheckText: why a text is probably no source, or "".                     *)
(***************************************************************************)
CheckText(content) ==
  IF content = <<>> THEN ""
  ELSE IF Len(content) < ngramSize THEN "small"
  ELSE IF \E i \in DOMAIN content : content[i] = NUL THEN "binary"
  ELSE IF Cardinality(ToSet(splitNGrams(content))) > maxTrigramCount THEN "trigrams"
  ELSE ""

\* notIndexedMarker and the reason, as a text (one byte each).
NotIndexed(reason) == <<5, 5, 5, CASE reason = "small" -> 2 [] reason = "large" -> 3 [] OTHER -> 4>>

\* crc64 of a content, as eight bytes.
Checksum(content) == BigEndian(FoldLeft(LAMBDA h, c : (h * 7 + c) % 4096, 1, content), 8)

SectionsSorted(secs) == SortSeq(secs, LAMBDA s, t : s.Start < t.Start)

(***************************************************************************)
(* Add.  err is "" or why the document was refused; the refusals for the   *)
(* subrepository, a branch or the language come after the postings have    *)
(* been changed.                                                           *)
(* The test with filepath.Rel can only fail for the subrepository ".",     *)
(* which no document has.                                                  *)
(***************************************************************************)
SkipBinary(doc) ==
  IF \E i \in DOMAIN doc.Content : doc.Content[i] = NUL
  THEN [doc EXCEPT !.SkipReason = "binary", !.Language = binaryLanguage] ELSE doc

SkipContent(doc) ==
  IF doc.SkipReason # ""
  THEN [doc EXCEPT !.Content = NotIndexed(doc.SkipReason), !.Symbols = <<>>]
  ELSE [doc EXCEPT !.Symbols = SectionsSorted(@)]

AddPosted(b, doc, content, posted) ==
  LET masks   == {branchMask(b, doc.Branches[i]) : i \in DOMAIN doc.Branches}
      known   == doc.Language \in DOMAIN b.languageMap
      newLang == IF known THEN b.languageMap
                 ELSE (doc.Language :> Cardinality(DOMAIN b.languageMap)) @@ b.languageMap
      added   == [posted EXCEPT
                    !.subRepos = Append(@, subRepoIndices(b)[doc.SubRepositoryPath]),
                    !.contentStrings = Append(@, doc.Content),
                    !.runeDocSections = @ \o content.secs,
                    !.nameStrings = Append(@, doc.Name),
                    !.docSections = Append(@, doc.Symbols),
                    !.branchMasks = Append(@, MaskOf(masks)),
                    !.checksums = @ \o Checksum(doc.Content)]
  IN  IF content.err THEN [b |-> posted, err |-> "boundary"]
      ELSE IF doc.SubRepositoryPath \notin DOMAIN b.repo.SubRepoMap THEN [b |-> posted, err |-> "subrepo"]
      ELSE IF 0 \in masks THEN [b |-> posted, err |-> "branch"]
      ELSE IF ~known /\ Cardinality(DOMAIN b.languageMap) >= maxLanguages THEN [b |-> added, err |-> "languages"]
      ELSE [b |-> [added EXCEPT !.languageMap = newLang, !.languages = Append(@, newLang[doc.Language])],
            err |-> ""]

AddContent(b, doc, content) ==
  AddPosted(b, doc, content,
            [b EXCEPT !.contentPostings = content.s,
                      !.namePostings = IF content.err THEN @ ELSE newSearchableString(@, doc.Name, <<>>).s])

AddUnlessSkipped(b, doc) ==
  LET secs    == doc.Symbols
      overlap == \E i \in 2..Len(secs) : secs[i - 1].End > secs[i].Start
      pastEnd == secs # <<>> /\ Last(secs).End > Len(doc.Content)
  IN  IF overlap \/ pastEnd THEN [b |-> b, err |-> "sections"]
      ELSE AddContent(b, doc, newSearchableString(b.contentPostings, doc.Content, secs))

Add(b, document) == AddUnlessSkipped(b, SkipContent(SkipBinary(document)))

=============================================================================
