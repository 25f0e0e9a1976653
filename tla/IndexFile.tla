------------------------------ MODULE IndexFile ------------------------------
(***************************************************************************)
(* write.go and read.go: a shard as the sections of a file, and what a     *)
(* searcher reads out of them.                                             *)
(***************************************************************************)
EXTENDS IndexBuilder, IndexSections

IndexFormatVersion == 15

(***************************************************************************)
(* encoding/json: a blob of one cell from which the value comes back.      *)
(***************************************************************************)
jsonMarshal(data) == <<[json |-> data]>>
jsonUnmarshal(blob) == blob[1].json

(***************************************************************************)
(* Writing.                                                                *)
(***************************************************************************)
newLinesIndices(in) ==
  LET at == SelectSeq(Indices(Len(in)), LAMBDA i : in[i] = Newline) IN [k \in DOMAIN at |-> at[k] - 1]

\* An ngram in as many cells as its runes take at four bytes each.
ngramBytes(g) == FlattenSeq([i \in 1..ngramSize |-> BigEndian(FromBigEndian(g[i]), 4)])

\* The bytes of a rune, without the leading ones of its four that are zero.
RuneOf(n) == BigEndian(n, CHOOSE k \in 1..4 : n < byteBase ^ k /\ (k = 1 \/ n >= byteBase ^ (k - 1)))

bytesNgram(b) == [i \in 1..ngramSize |-> RuneOf(FromBigEndian(Slice(b, 4 * i - 4, 4 * i)))]

writePostings(s, ngramText, charOffsets, postings, endRunes) ==
  LET keys == SortSeq(FoldSet(LAMBDA g, ks : Append(ks, g), <<>>, DOMAIN s.postings), NgramLess)
  IN  << simple(ngramText, FlattenSeq([i \in DOMAIN keys |-> ngramBytes(keys[i])])),
         compound(postings, [i \in DOMAIN keys |-> s.postings[keys[i]]]),
         simple(charOffsets, toSizedDeltas(s.runeOffsets)),
         simple(endRunes, toSizedDeltas(s.endRunes)) >>

\* The sections of Write, in the order they are written.
Sections(b) ==
  LET docs == DOMAIN b.contentStrings
  IN  << compound("fileContents", b.contentStrings),
         compound("newlines", [i \in docs |-> toSizedDeltas(newLinesIndices(b.contentStrings[i]))]),
         simple("branchMasks", FlattenSeq([i \in docs |-> BigEndian(b.branchMasks[i], 8)])),
         compound("fileSections", [i \in docs |-> marshalDocSections(b.docSections[i])]) >>
      \o writePostings(b.contentPostings, "ngramText", "runeOffsets", "postings", "fileEndRunes")
      \o << compound("fileNames", b.nameStrings) >>
      \o writePostings(b.namePostings, "nameNgramText", "nameRuneOffsets", "namePostings", "nameEndRunes")
      \o << simple("subRepos", toSizedDeltas(b.subRepos)),
            simple("contentChecksums", b.checksums),
            simple("languages", b.languages),
            simple("runeDocSections", marshalDocSections(b.runeDocSections)),
            simple("metaData", jsonMarshal([IndexFormatVersion |-> IndexFormatVersion,
                     PlainASCII |-> b.contentPostings.isPlainASCII /\ b.namePostings.isPlainASCII,
                     LanguageMap |-> b.languageMap])),
            simple("repoMetaData", jsonMarshal(b.repo)) >>

Write(b) == WriteSections(Sections(b))

(***************************************************************************)
(* Reading.                                                                *)
(***************************************************************************)
\* The ngrams of a text section with the ranges of their postings.
readNgrams(f, text, postings) ==
  LET blob  == readSectionBlob(f, text)
      n     == Len(blob) \div (4 * ngramSize)
      index == relativeIndex(f, postings)
      Key(j) == bytesNgram(Slice(blob, (j - 1) * 4 * ngramSize, j * 4 * ngramSize))
  IN  [g \in {Key(j) : j \in 1..n} |->
         LET j == CHOOSE j \in 1..n : Key(j) = g
         IN  <<postings[1] + index[j], index[j + 1] - index[j]>>]

readIndexData(f, toc) ==
  LET meta == jsonUnmarshal(readSectionBlob(f, toc.metaData))
      repo == jsonUnmarshal(readSectionBlob(f, toc.repoMetaData))
      names == readNgrams(f, toc.nameNgramText, toc.namePostings)
  IN  [file |-> f, metaData |-> meta, repoMetaData |-> repo,
       boundariesStart |-> toc.fileContents[1], boundaries |-> relativeIndex(f, toc.fileContents),
       newlinesStart |-> toc.newlines[1], newlinesIndex |-> relativeIndex(f, toc.newlines),
       docSectionsStart |-> toc.fileSections[1], docSectionsIndex |-> relativeIndex(f, toc.fileSections),
       checksums |-> readSectionBlob(f, toc.contentChecksums),
       languages |-> readSectionBlob(f, toc.languages),
       ngrams |-> readNgrams(f, toc.ngramText, toc.postings),
       fileBranchMasks |-> readSectionU64(f, toc.branchMasks),
       fileNameStart |-> toc.fileNames[1],
       fileNameContent |-> readSectionBlob(f, <<toc.fileNames[1], toc.fileNames[2]>>),
       fileNameIndex |-> relativeIndex(f, toc.fileNames),
       fileNameNgrams |-> [g \in DOMAIN names |-> fromDeltas(readSectionBlob(f, names[g]))],
       branchNames |-> [i \in DOMAIN repo.Branches |-> repo.Branches[i].Name],
       runeDocSections |-> unmarshalDocSections(readSectionBlob(f, toc.runeDocSections)),
       subRepos |-> fromSizedDeltas(readSectionBlob(f, toc.subRepos)),
       runeOffsets |-> fromSizedDeltas(readSectionBlob(f, toc.runeOffsets)),
       fileNameRuneOffsets |-> fromSizedDeltas(readSectionBlob(f, toc.nameRuneOffsets)),
       fileNameEndRunes |-> fromSizedDeltas(readSectionBlob(f, toc.nameEndRunes)),
       fileEndRunes |-> fromSizedDeltas(readSectionBlob(f, toc.fileEndRunes)),
       subRepoPaths |-> SortedPaths(repo)]

\* verify: every per-document table has an entry for every document.
verifyFails(d) ==
  /\ d.fileNameIndex # <<>>
  /\ \E got \in {Len(d.boundaries) - 1, Len(d.fileBranchMasks), Len(d.docSectionsIndex) - 1, Len(d.newlinesIndex) - 1} :
       got # Len(d.fileNameIndex) - 1

\* NewSearcher refuses the file.
NewSearcherFails(f) ==
  LET toc == readTOC(f)
  IN  \/ toc.err
      \/ \E name \in tocNames :
           \/ OutOfBounds(f, toc.secs[name][1], toc.secs[name][2])
           \/ isCompound(name) /\ (OutOfBounds(f, toc.secs[name][3], toc.secs[name][4]) \/ toc.secs[name][4] % 4 # 0)
      \/ toc.secs.branchMasks[2] % 8 # 0
      \/ jsonUnmarshal(readSectionBlob(f, toc.secs.metaData)).IndexFormatVersion # IndexFormatVersion
      \/ verifyFails(readIndexData(f, toc.secs))

NewSearcher(f) == readIndexData(f, readTOC(f).secs)

(***************************************************************************)
(* What is read per document, i counting from 0.                           *)
(***************************************************************************)
readContents(d, i)    == ItemOf(d.file, d.boundariesStart, d.boundaries, i)
readNewlines(d, i)    == fromSizedDeltas(ItemOf(d.file, d.newlinesStart, d.newlinesIndex, i))
readDocSections(d, i) == unmarshalDocSections(ItemOf(d.file, d.docSectionsStart, d.docSectionsIndex, i))
fileName(d, i)        == Slice(d.fileNameContent, d.fileNameIndex[i + 1], d.fileNameIndex[i + 2])
getChecksum(d, i)     == Slice(d.checksums, 8 * i, 8 * i + 8)

readContentSlice(d, off, sz) == Read(d.file, d.boundariesStart + off, sz)
=============================================================================
