---------------------------- MODULE ShardIndexing ----------------------------
(***************************************************************************)
(* One shard from its documents to an open searcher: IndexGitRepo, the Add *)
(* and buildShard of build.Builder, IndexBuilder.Add for each of the       *)
(* documents, Write and NewSearcher.                                       *)
(*                                                                         *)
(* An input has the repository (git), the branches asked for, the options  *)
(* allowMissing, incremental and mustSucceed (CTagsMustSucceed) and the    *)
(* versions an earlier index has.  SetDefaults turns ctags off, so that no *)
(* document of IndexGitRepo has symbols or a language of its own; those of *)
(* a program that calls the Builder itself may (given).                    *)
(***************************************************************************)
EXTENDS GitIndex, ContentProvider

CONSTANTS
  Inputs,     \* the inputs
  Blob,       \* the content of a blob
  SizeMax     \* largest document that is indexed

VARIABLES
  input,
  stage,      \* where the indexing is
  desc,       \* RepositoryDescription with its SubRepoMap
  todo,       \* documents, in the order they will be added
  next,       \* the document that is added next
  ib,         \* the IndexBuilder
  file,       \* the bytes of the shard
  d           \* indexData, once the shard is open

vars == <<input, stage, desc, todo, next, ib, file, d>>

Init ==
  /\ input \in Inputs
  /\ stage = "git" /\ desc = <<>> /\ todo = <<>> /\ next = 1
  /\ ib = <<>> /\ file = <<>> /\ d = <<>>

\* Builder.Add
SkipFor(doc, reason) == IF reason = "" THEN doc ELSE [doc EXCEPT !.SkipReason = reason, !.Language = binaryLanguage]

builderAdd(doc) ==
  IF Len(doc.Content) > SizeMax THEN [doc EXCEPT !.SkipReason = "large"] ELSE SkipFor(doc, CheckText(doc.Content))

\* NewBuilder: ctags is required though it is off, or there are too many branches.
NewBuilderFails(repo) == input.mustSucceed \/ setRepositoryFails(repo)

Fail == stage' = "failed" /\ UNCHANGED <<desc, todo, next, ib, file, d>>

\* IndexGitRepo up to builder.Finish.
IndexGitRepo ==
  /\ stage = "git" /\ input.given = <<>>
  /\ UNCHANGED input
  /\ \E r \in {ReadBranches(input.git, input.allowMissing, input.branches)} :
       LET repo == [Name |-> input.git.url, Branches |-> r.Branches, SubRepoMap |-> SubRepositories(r)]
       IN  IF r.err THEN Fail
           ELSE IF input.incremental /\ input.versions = r.Branches
           THEN stage' = "unchanged" /\ UNCHANGED <<desc, todo, next, ib, file, d>>
           ELSE IF NewBuilderFails(repo) THEN Fail
           ELSE \E ks \in KeyOrders(r) :
                  /\ stage' = "sort"
                  /\ desc' = repo
                  /\ todo' = Each(ks, LAMBDA k : builderAdd(DocumentOf(r, k, Blob[k.ID], SizeMax)))
                  /\ UNCHANGED <<next, ib, file, d>>

\* A program that hands the Builder documents of its own, with their symbols and languages.
AddGiven ==
  /\ stage = "git" /\ input.given # <<>>
  /\ LET repo == [Name |-> input.git.url, SubRepoMap |-> <<>>,
                  Branches |-> Each(input.git.Branches, LAMBDA b : [Name |-> b, Version |-> input.git.heads[b].commit])]
     IN  IF NewBuilderFails(repo) THEN Fail
         ELSE /\ stage' = "sort"
              /\ desc' = repo
              /\ todo' = Each(input.given, builderAdd)
              /\ UNCHANGED <<next, ib, file, d>>
  /\ UNCHANGED input

(***************************************************************************)
(* buildShard.                                                             *)
(***************************************************************************)
testRe == <<7, 7>>
isTest(name) == \E i \in 0..(Len(name) - Len(testRe)) : Slice(name, i, i + Len(testRe)) = testRe

\* rank: what sortDocuments prefers, in this order; every field is put on a
\* scale that keeps its order.
rank(doc, origIdx) ==
  << IF isTest(doc.Name) THEN 1 ELSE 0,
     -Len(doc.Symbols), Len(doc.Content), Len(doc.Name), -Len(doc.Branches), origIdx >>

sortDocuments(docs) ==
  LET Less(i, j) == LET ri == rank(docs[i], i)
                        rj == rank(docs[j], j)
                    IN  \E k \in DOMAIN ri : ri[k] < rj[k] /\ \A l \in 1..(k - 1) : ri[l] = rj[l]
      order == SetToSortSeq(DOMAIN docs, Less)
  IN  [i \in DOMAIN docs |-> docs[order[i]]]

SortDocuments ==
  /\ stage = "sort"
  /\ stage' = "add"
  /\ ib' = NewIndexBuilder(desc)
  /\ todo' = sortDocuments(todo)
  /\ UNCHANGED <<input, desc, next, file, d>>

AddDocument ==
  /\ stage = "add" /\ next <= Len(todo)
  /\ \E a \in {Add(ib, todo[next])} :
       IF a.err # "" THEN stage' = "refused" /\ UNCHANGED <<ib, next>>
       ELSE ib' = a.b /\ next' = next + 1 /\ UNCHANGED stage
  /\ UNCHANGED <<input, desc, todo, file, d>>

WriteShard ==
  /\ stage = "add" /\ next > Len(todo)
  /\ stage' = "written"
  /\ file' = Write(ib)
  /\ UNCHANGED <<input, desc, todo, next, ib, d>>

OpenShard ==
  /\ stage = "written"
  /\ LET f == NewIndexFile(file)
     IN  IF NewSearcherFails(f) THEN stage' = "unreadable" /\ UNCHANGED d
         ELSE stage' = "open" /\ d' = NewSearcher(f)
  /\ UNCHANGED <<input, desc, todo, next, ib, file>>

Next ==
  \/ IndexGitRepo
  \/ AddGiven
  \/ SortDocuments
  \/ AddDocument
  \/ WriteShard
  \/ OpenShard

Spec == Init /\ [][Next]_vars

(***************************************************************************)
(* Properties.                                                             *)
(***************************************************************************)
Documents == 0..(Len(d.fileNameIndex) - 2)

Indexed(blob) ==
  IF Len(blob) > SizeMax THEN NotIndexed("large")
  ELSE IF CheckText(blob) # "" THEN NotIndexed(CheckText(blob)) ELSE blob

HasBit(mask, i) == (mask \div 2 ^ (i - 1)) % 2 = 1

(***************************************************************************)
(* A search that is limited to a branch sees the files of the commit the   *)
(* branch is at, submodules included, each once, under its name, with its  *)
(* content or the reason it is left out and in its subrepository; however  *)
(* the files are shared between branches and whatever order they are added *)
(* in (IndexGitRepo, Add, Write, readIndexData).                           *)
(***************************************************************************)
BranchViews ==
  stage = "open" /\ input.given = <<>> =>
    \A i \in DOMAIN d.branchNames :
      LET head  == input.git.heads[d.branchNames[i]]
          keys  == DOMAIN TreeToFiles(head.tree, input.git.url, input.git.cache).files
          docs  == {k \in Documents : HasBit(d.fileBranchMasks[k + 1], i)}
      IN  /\ {<<FullPath(k), Indexed(Blob[k.ID]), k.SubRepoPath>> : k \in keys}
               = {<<fileName(d, k), readContents(d, k), d.subRepoPaths[d.subRepos[k + 1] + 1]>> : k \in docs}
          /\ Cardinality(docs) = Cardinality(keys)

\* The positions of g, in runes of the corpus of the names or the contents.
RECURSIVE PositionsFrom(_, _, _, _)
PositionsFrom(g, isName, k, base) ==
  IF k \notin Documents THEN <<>>
  ELSE LET ngrams == splitNGrams(data(d, k, isName))
           at     == SelectSeq(Indices(Len(ngrams)), LAMBDA i : ngrams[i] = g)
       IN  [i \in DOMAIN at |-> base + at[i] - 1]
             \o PositionsFrom(g, isName, k + 1, base + Len(Runes(data(d, k, isName))))

Ngrams(isName) == UNION {ToSet(splitNGrams(data(d, k, isName))) : k \in Documents}

(***************************************************************************)
(* The posting list of an ngram, read back from the file, is all of its    *)
(* positions in the corpus in order, and no ngram of a name or a content   *)
(* is without one (newSearchableString, writePostings, readNgrams).        *)
(***************************************************************************)
PostingsExact ==
  stage = "open" =>
    /\ DOMAIN d.ngrams = Ngrams(FALSE) /\ DOMAIN d.fileNameNgrams = Ngrams(TRUE)
    /\ \A g \in Ngrams(FALSE) :
         fromDeltas(readSectionBlob(d.file, d.ngrams[g])) = PositionsFrom(g, FALSE, 0, 0)
    /\ \A g \in Ngrams(TRUE) : d.fileNameNgrams[g] = PositionsFrom(g, TRUE, 0, 0)

(***************************************************************************)
(* Walking on from the sample before a rune finds the byte at which it     *)
(* starts, in every document and name of the corpus (findOffset with the   *)
(* samples newSearchableString takes).                                     *)
(***************************************************************************)
OffsetsExact ==
  stage = "open" =>
    \A k \in Documents, isName \in BOOLEAN :
      LET runes == Decode(data(d, k, isName))
      IN  \A r \in DOMAIN runes : findOffset(d, k, isName, r - 1) = runes[r].off

(***************************************************************************)
(* What IndexGitRepo collects over the branches is of one piece: no        *)
(* document names a branch or a subrepository the description does not     *)
(* have, which Add would refuse and fail the build of the shard for; and a *)
(* shard that was written can be opened (IndexGitRepo against the checks   *)
(* of Add, Write against those of readTOC and verify).                     *)
(***************************************************************************)
DocumentsAccepted == stage # "unreadable" /\ (stage = "refused" => input.given # <<>>)

=============================================================================
