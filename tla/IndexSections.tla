---------------------------- MODULE IndexSections ----------------------------
(***************************************************************************)
(* section.go, toc.go, indexfile_linux.go and the readers of read.go: an   *)
(* index file as sections of bytes, and the table of contents at its end.  *)
(***************************************************************************)
EXTENDS Codings

CONSTANT pageSize   \* bytes in a page of memory (4096)

ASSUME PageAssumption == pageSize \in Nat \ {0}

(***************************************************************************)
(* Writing.  w holds the bytes so far and the table of contents; a section *)
(* is the range of its items, and a compound one also that of the offsets  *)
(* at which the items start.                                               *)
(***************************************************************************)
simple(name, blob)    == [name |-> name, compound |-> FALSE, items |-> <<blob>>]
compound(name, items) == [name |-> name, compound |-> TRUE, items |-> items]

\* indexTOC.sections
tocSections ==
  <<"metaData", "repoMetaData", "fileContents", "fileNames", "fileSections", "newlines", "ngramText",
    "postings", "nameNgramText", "namePostings", "branchMasks", "subRepos", "runeOffsets",
    "nameRuneOffsets", "fileEndRunes", "nameEndRunes", "contentChecksums", "languages", "runeDocSections">>

tocNames == {tocSections[i] : i \in DOMAIN tocSections}

isCompound(name) == name \in {"fileContents", "fileNames", "fileSections", "newlines", "postings", "namePostings"}

\* The bytes of a section after each of its items, and where in them the items start.
addItem(s, item) == [data |-> s.data \o item, starts |-> Append(s.starts, Len(s.data))]

ItemsLoop(items) ==
  LET s[i \in 0..Len(items)] == IF i = 0 THEN [data |-> <<>>, starts |-> <<>>] ELSE addItem(s[i - 1], items[i])
  IN  s

\* writer.U32 of each.
U32s(ns) == [k \in 1..(4 * Len(ns)) |-> BigEndian(ns[(k - 1) \div 4 + 1], 4)[((k - 1) % 4) + 1]]

EndSection(w, sec, s) ==
  LET start == Len(w.buf)
      index == U32s([i \in DOMAIN s.starts |-> start + s.starts[i]])
      end   == start + Len(s.data)
  IN  IF sec.compound
      THEN [buf |-> w.buf \o s.data \o index,
            toc |-> [w.toc EXCEPT ![sec.name] = <<start, Len(s.data), end, Len(index)>>]]
      ELSE [buf |-> w.buf \o s.data, toc |-> [w.toc EXCEPT ![sec.name] = <<start, Len(s.data)>>]]

writeSection(w, sec) == EndSection(w, sec, ItemsLoop(sec.items)[Len(sec.items)])

\* The table of contents after each of its sections.
TocLoop(toc) ==
  LET t[i \in 0..Len(tocSections)] ==
        IF i = 0 THEN U32s(<<Len(tocSections)>>) ELSE t[i - 1] \o U32s(toc[tocSections[i]])
  IN  t

writeTOC(toc) == TocLoop(toc)[Len(tocSections)]

\* The file after each section.
WriteLoop(secs) ==
  LET w[i \in 0..Len(secs)] ==
        IF i = 0 THEN [buf |-> <<>>, toc |-> [name \in tocNames |-> <<>>]] ELSE writeSection(w[i - 1], secs[i])
  IN  w

EndFile(buf, toc) == buf \o toc \o U32s(<<Len(buf), Len(toc)>>)

WriteSections(secs) == LET w == WriteLoop(secs)[Len(secs)] IN EndFile(w.buf, writeTOC(w.toc))

(***************************************************************************)
(* Reading.  A file is mapped in whole pages; Read checks its bounds in    *)
(* uint32.                                                                 *)
(***************************************************************************)
NewIndexFile(bytes) ==
  [size |-> Len(bytes), data |-> bytes \o [i \in 1..((-Len(bytes)) % pageSize) |-> 0]]

OutOfBounds(f, off, sz) == (off + sz) % wordBase > Len(f.data)

Read(f, off, sz) == Slice(f.data, off, off + sz)

U32(f, off) == FromBigEndian(Read(f, off, 4))

readSectionBlob(f, sec) == Read(f, sec[1], sec[2])

readSectionU32(f, sec) == [i \in 1..(sec[2] \div 4) |-> U32(f, sec[1] + 4 * (i - 1))]

readSectionU64(f, sec) == [i \in 1..(sec[2] \div 8) |-> FromBigEndian(Read(f, sec[1] + 8 * (i - 1), 8))]

\* The numbers in the entry of a section.
EntryLen(name) == IF isCompound(name) THEN 4 ELSE 2

\* Where the entries of the table of contents end, after the number of them and each.
EntryLoop(toc) ==
  LET at[k \in 0..Len(tocSections)] == IF k = 0 THEN toc + 4 ELSE at[k - 1] + 4 * EntryLen(tocSections[k])
  IN  at

SectionNumber(name) == CHOOSE i \in DOMAIN tocSections : tocSections[i] = name

readTOC(f) ==
  LET toc == U32(f, f.size - 8)
  IN  [err  |-> U32(f, toc) # Len(tocSections),
       secs |-> [name \in tocNames |->
                   [i \in 1..EntryLen(name) |-> U32(f, EntryLoop(toc)[SectionNumber(name) - 1] + 4 * (i - 1))]]]

relativeIndex(f, sec) ==
  LET offs == readSectionU32(f, <<sec[3], sec[4]>>)
  IN  IF offs = <<>> THEN <<>> ELSE Append([i \in DOMAIN offs |-> offs[i] - offs[1]], sec[2])

\* Item i, counting from 0, of the compound section at start.
ItemOf(f, start, index, i) == Read(f, start + index[i + 1], index[i + 2] - index[i + 1])
=============================================================================
