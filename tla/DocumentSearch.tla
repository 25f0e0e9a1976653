--------------------------- MODULE DocumentSearch ---------------------------
(***************************************************************************)
(* eval.go over a shard that was indexed and opened: a request is parsed   *)
(* and searched document by document, or listed.                           *)
(*                                                                         *)
(* A request has the text of a query and what is meant by it; or, when it  *)
(* comes over the API, that query itself.  It has its SearchOptions,       *)
(* whether it is for List and whether its context may be cancelled.        *)
(***************************************************************************)
EXTENDS ShardIndexing, MatchTree, SearchLoop

VARIABLES
  request,
  q,           \* the query, as parsed
  mt,          \* its match tree
  repos        \* the repositories List found

searchVars == <<request, q, mt, repos, loopVars>>

SearchInit ==
  /\ Init /\ LoopInit
  /\ request = <<>> /\ q = nil /\ mt = <<>> /\ repos = {}

\* indexData.simplify
RECURSIVE KnownToShard(_)
KnownToShard(query) ==
  LET p == MapChildren(query, KnownToShard)
  IN  CASE p.op = "repo"    -> Const(ContainsText(d.repoMetaData.Name, p.Pattern))
        [] p.op = "reposet" -> Const(d.repoMetaData.Name \in p.Set)
        [] p.op = "lang"    -> IF p.Language \in DOMAIN d.metaData.LanguageMap THEN p ELSE Const(FALSE)
        [] OTHER            -> p

simplify(query) == Simplify(KnownToShard(query))

\* SetDefaults, for the limits of one shard.
SetDefaults(o) ==
  [o EXCEPT !.ShardMaxMatchCount = IF @ = 0 THEN 100000 ELSE @,
            !.ShardMaxImportantMatch = IF @ = 0 THEN 10 ELSE @]

StartRequest ==
  /\ stage = "open" /\ course = "idle"
  /\ \E r \in input.requests :
       \E p \in {Parse(r.text)} :
         /\ request' = r
         /\ IF r.api THEN q' = r.want /\ Receive("parsed")
            ELSE IF p.err THEN Receive("rejected") /\ UNCHANGED q
            ELSE q' = p.q /\ Receive("parsed")
  /\ UNCHANGED <<mt, repos>>

Cancel == request # <<>> /\ request.mayCancel /\ Interrupt /\ UNCHANGED <<request, q, mt, repos>>

LoopBounds(o, t) ==
  [ShardMaxMatchCount |-> o.ShardMaxMatchCount, ShardMaxImportantMatch |-> o.ShardMaxImportantMatch,
   docCount |-> Len(d.fileBranchMasks), Documents |-> Len(d.newlinesIndex) - 1,
   threshold |-> scoreImportantThreshold * Len(visitMatchTree(t)) * Len(d.boundaries)]

\* Search up to its loop.
BeginSearch ==
  LET known == simplify(q)
      tree  == newMatchTree(d, ExpandFileContent(known))
  IN  /\ course = "parsed" /\ ~request.list
      /\ IF d.fileNameIndex = <<>> \/ (~canceled /\ known = Const(FALSE)) THEN Leave("done", 0) /\ UNCHANGED mt
         ELSE IF canceled THEN Leave("skipped", 0) /\ UNCHANGED mt
         ELSE IF request.opts.EstimateDocCount THEN Leave("done", Len(d.fileBranchMasks)) /\ UNCHANGED mt
         ELSE IF tree.err # "" THEN Leave(IF tree.err = "panic" THEN "crashed" ELSE "error", 0) /\ UNCHANGED mt
         ELSE mt' = tree.t /\ Enter(LoopBounds(SetDefaults(request.opts), tree.t))
      /\ UNCHANGED <<request, q, repos>>

(***************************************************************************)
(* gatherMatches: content matches before those of the name, merged where   *)
(* they touch.                                                             *)
(***************************************************************************)
\* Merges only what overlaps (a mutation of touches).
overlaps(last, c) == last.byteOffset + last.byteMatchSz > c.byteOffset

touches(last, c) == last.byteOffset + last.byteMatchSz >= c.byteOffset

MergeCandidate(res, c) ==
  LET last == Last(res)
  IN  IF res = <<>> THEN <<c>>
      ELSE IF touches(last, c)
      THEN Append(Front(res), [last EXCEPT !.byteMatchSz = Max({@, c.byteOffset + c.byteMatchSz - last.byteOffset})])
      ELSE Append(res, c)

LeafMatches(leaf, idx) ==
  CASE leaf.mt = "substr" -> Pruned(d, idx, leaf) [] leaf.mt = "regexp" -> Found(d, idx, leaf) [] OTHER -> <<>>

ContentFirst(all) == LET content == SelectSeq(all, LAMBDA c : ~c.fileName) IN IF content # <<>> THEN content ELSE all

gatherMatches(t, idx, known) ==
  FoldLeft(MergeCandidate, <<>>,
           SortSeq(ContentFirst(FlattenSeq(Each(visitMatches(t, known, <<>>), LAMBDA leaf : LeafMatches(leaf, idx)))),
                   LAMBDA a, b : a.byteOffset < b.byteOffset))

HasBranch(k, i) == HasBit(d.fileBranchMasks[k + 1], i)

\* branchIndex, from 1; 0 if there is none.
branchIndex(k) == LET on == {i \in DOMAIN d.branchNames : HasBranch(k, i)} IN IF on = {} THEN 0 ELSE Least(on)

\* d.branchNames of a mask, which knows only those of one bit.
nameOfMask(mask) ==
  LET at == {i \in DOMAIN d.branchNames : mask = 2 ^ (i - 1)}
  IN  IF at = {} THEN <<>> ELSE d.branchNames[Least(at)]

\* In the loop over all of them the id is a uint32: the 33rd shift leaves 0, which has no name.
nameOfID(i) == IF i <= 32 THEN nameOfMask(2 ^ (i - 1)) ELSE <<>>

gatherBranches(t, idx, known) ==
  LET asked == SelectSeq(visitMatches(t, known, <<>>), LAMBDA leaf : leaf.mt = "branch")
      all   == SelectSeq(Indices(Len(d.branchNames)), LAMBDA i : HasBranch(idx, i))
  IN  IF asked # <<>> THEN Each(asked, LAMBDA leaf : nameOfMask(leaf.mask)) ELSE Each(all, nameOfID)

(***************************************************************************)
(* The FileMatch of a document.  Scores are the code's times the product   *)
(* of the number of atoms and the number of boundaries, which makes them   *)
(* whole; the lines of a file are sorted with their scores times their     *)
(* number.                                                                 *)
(***************************************************************************)
scoreFactorAtomMatch == 400
scoreFileOrderFactor == 10

RankLines(lines) ==
  LET n      == Len(lines)
      scored == [i \in DOMAIN lines |-> [lines[i] EXCEPT !.Score = @ * n + (n - (i - 1))]]
  IN  SortSeq(scored, LAMBDA a, b : a.Score > b.Score)

FileScore(t, idx, known, maxFileScore) ==
  LET atoms == Len(visitMatchTree(t))
      bs    == Len(d.boundaries)
  IN  maxFileScore * atoms * bs + scoreFactorAtomMatch * Len(visitMatches(t, known, <<>>)) * bs
        + scoreFileOrderFactor * (bs - idx) * atoms

WholeName(idx) == <<[byteOffset |-> 0, byteMatchSz |-> Len(fileName(d, idx)), fileName |-> TRUE]>>

ShownMatches(cands, idx) == IF cands = <<>> THEN WholeName(idx) ELSE cands

FileOfLines(t, idx, known, lines) ==
  LET best  == Max({lines[i].Score : i \in DOMAIN lines})
      path  == d.subRepoPaths[d.subRepos[idx + 1] + 1]
      repo  == IF d.subRepos[idx + 1] > 0 THEN d.repoMetaData.SubRepoMap[path] ELSE d.repoMetaData
  IN  [doc |-> idx, Repository |-> d.repoMetaData.Name, FileName |-> fileName(d, idx), Checksum |-> getChecksum(d, idx),
       Language |-> CHOOSE l \in DOMAIN d.metaData.LanguageMap : d.metaData.LanguageMap[l] = d.languages[idx + 1],
       SubRepositoryPath |-> path, SubRepositoryName |-> IF d.subRepos[idx + 1] > 0 THEN repo.Name ELSE <<>>,
       Version |-> IF branchIndex(idx) > 0 THEN repo.Branches[branchIndex(idx)].Version ELSE "",
       Score |-> FileScore(t, idx, known, best), Branches |-> gatherBranches(t, idx, known),
       LineMatches |-> RankLines(lines)]

FileMatch(t, idx, known) ==
  FileOfLines(t, idx, known, fillMatches(d, idx, ShownMatches(gatherMatches(t, idx, known), idx)))

(***************************************************************************)
(* The costs: the answer of the tree for a document, cheapest first, and   *)
(* what is known then.  Not to have decided in the end is a panic.         *)
(***************************************************************************)
RECURSIVE Decide(_, _, _, _)
Decided(t, idx, cost, a) ==
  IF a.ok /\ ~a.v THEN [match |-> FALSE, ok |-> TRUE, known |-> a.known]
  ELSE IF cost = costRegexp THEN [match |-> TRUE, ok |-> a.ok, known |-> a.known]
  ELSE Decide(t, idx, cost + 1, a.known)

Decide(t, idx, cost, known) == Decided(t, idx, cost, matches(d, idx, cost, known, t, <<>>))

\* The tree, prepared for document k, is asked about it.
AskTree(k, prepared) ==
  /\ mt' = prepared
  /\ \E a \in {Decide(prepared, k, costConst, <<>>)} :
       LookAt(k, a.ok, IF a.ok /\ a.match THEN <<FileMatch(prepared, k, a.known)>> ELSE <<>>)

NextFile ==
  /\ course = "search"
  /\ \E k \in {nextDoc(NextDoc(d, mt))} :
       \/ (Exhausted(k) \/ StopEarly(k)) /\ UNCHANGED mt
       \/ k < bounds.docCount /\ ~canceled /\ ~limitReached /\ AskTree(k, Prepare(mt, k))
  /\ UNCHANGED <<request, q, repos>>

List ==
  /\ course = "parsed" /\ request.list
  /\ LET known == simplify(q)
     IN  IF known.op # "const" THEN Leave("error", 0) /\ UNCHANGED repos
         ELSE Leave("listed", 0) /\ repos' = IF known.Value THEN {d.repoMetaData.Name} ELSE {}
  /\ UNCHANGED <<request, q, mt>>

IndexStep  == Next /\ UNCHANGED searchVars
SearchStep == (StartRequest \/ Cancel \/ BeginSearch \/ NextFile \/ List) /\ UNCHANGED vars

SearchNext == IndexStep \/ SearchStep

SearchSpec == SearchInit /\ [][SearchNext]_<<vars, searchVars>>

(***************************************************************************)
(* What a query means for document k: the ranges of bytes at which its     *)
(* atoms are found, and whether it holds.  A pattern shorter than an ngram *)
(* is found as a regular expression is, without overlaps.                  *)
(***************************************************************************)
SameRune(a, b, caseSensitive) == IF caseSensitive THEN a = b ELSE ToLower(a) = ToLower(b)

RECURSIVE Leftmost(_)
Leftmost(S) ==
  IF S = {} THEN {}
  ELSE LET r == CHOOSE r \in S : \A s \in S : r.from <= s.from IN {r} \cup Leftmost({s \in S : s.from >= r.to})

RunesAt(runes, want, caseSensitive, isName) ==
  LET w     == Len(want)
      at    == {i \in 0..(Len(runes) - w) : \A j \in 1..w : SameRune(runes[i + j].r, want[j], caseSensitive)}
      all   == {[name |-> isName, from |-> runes[i + 1].off, to |-> runes[i + w].off + runes[i + w].sz] : i \in at}
  IN  IF w < ngramSize THEN Leftmost(all) ELSE all

Occurrences(p, caseSensitive, k, isName) == RunesAt(Decode(data(d, k, isName)), Runes(p), caseSensitive, isName)

RegexpRanges(a, k, isName) ==
  {[name |-> isName, from |-> m.byteOffset, to |-> m.byteOffset + m.byteMatchSz] :
     m \in ToSet(FindAllIndex(a.Regexp, data(d, k, isName), ~a.CaseSensitive))}

Where(a) == IF a.FileName THEN {TRUE} ELSE IF a.Content THEN {FALSE} ELSE BOOLEAN

MatchesAll(a) == (a.op = "substr" /\ a.Pattern = <<>>) \/ (a.op = "regexp" /\ a.Regexp.Op = "empty")

RECURSIVE Holds(_, _)
RECURSIVE Ranges(_, _)
Ranges(a, k) ==
  CASE a.op = "substr" -> UNION {Occurrences(a.Pattern, a.CaseSensitive, k, w) : w \in Where(a)}
    [] a.op = "regexp" -> UNION {RegexpRanges(a, k, w) : w \in Where(a)}
    [] a.op = "sym"    -> {r \in Occurrences(a.Atom.Pattern, a.Atom.CaseSensitive, k, FALSE) :
                             \E s \in ToSet(readDocSections(d, k)) : s.Start <= r.from /\ r.to <= s.End}
    [] a.op \in {"and", "or"} -> UNION {Ranges(c, k) : c \in {c \in ToSet(a.Children) : Holds(c, k)}}
    [] OTHER -> {}

Holds(a, k) ==
  CASE a.op = "and"     -> \A c \in ToSet(a.Children) : Holds(c, k)
    [] a.op = "or"      -> \E c \in ToSet(a.Children) : Holds(c, k)
    [] a.op = "not"     -> ~Holds(a.Child, k)
    [] a.op = "const"   -> a.Value
    [] a.op \in {"substr", "regexp", "sym"} -> MatchesAll(a) \/ Ranges(a, k) # {}
    [] a.op = "branch"  -> \E i \in DOMAIN d.branchNames :
                             HasBranch(k, i) /\ IF a.Pattern = HEAD THEN i = 1 ELSE ContainsText(d.branchNames[i], a.Pattern)
    [] a.op = "repo"    -> ContainsText(d.repoMetaData.Name, a.Pattern)
    [] a.op = "reposet" -> d.repoMetaData.Name \in a.Set
    [] a.op = "lang"    -> todo[k + 1].Language = a.Language

(***************************************************************************)
(* Properties.                                                             *)
(***************************************************************************)
Searched == course = "search" \/ (course = "done" /\ ~request.opts.EstimateDocCount)

(***************************************************************************)
(* At every step of a search the files found are those, of the documents   *)
(* passed so far, for which the query holds: no document is skipped by the *)
(* iterators and the short cuts of the match tree that a look at its text  *)
(* would have found, none is found twice and none for nothing; the search  *)
(* always decides (Search, matchTree, hitIterator).  A list has the        *)
(* repository exactly if the query holds for it.                           *)
(***************************************************************************)
FilesFound ==
  /\ course # "crashed"
  /\ Searched =>
       LET passed == IF course = "search" THEN 0..lastDoc
                     ELSE IF stats.FilesSkipped > 0 THEN 0..(lastDoc - 1) ELSE Documents
       IN  /\ {files[i].doc : i \in DOMAIN files} = {k \in passed : Holds(q, k)}
           /\ \A i, j \in DOMAIN files : i # j => files[i].doc # files[j].doc
  /\ course = "listed" => \A k \in Documents : (repos # {}) = Holds(q, k)

CoveredBy(rs, k) ==
  LET content == {r \in rs : ~r.name}
      shown   == IF content # {} THEN content ELSE rs
      all     == IF shown = {} THEN {[name |-> TRUE, from |-> 0, to |-> Len(fileName(d, k))]} ELSE shown
  IN  UNION {{[name |-> r.name, at |-> i] : i \in r.from..(r.to - 1)} : r \in all}

(***************************************************************************)
(* The matches shown of a file are the longest stretches of the bytes that *)
(* atoms of the query cover, in its content if there are any there, else   *)
(* in its name; those of the content come in whole lines with the right    *)
(* number, each beginning and ending within its own (gatherMatches,        *)
(* findOffset, fillMatches).                                               *)
(***************************************************************************)
MatchesExact ==
  Searched => \A f \in ToSet(files) : \A covered \in {CoveredBy(Ranges(q, f.doc), f.doc)}, content \in {data(d, f.doc, FALSE)} :
    LET Bytes(l, m) == {[name |-> l.FileName, at |-> i] : i \in m.Offset..(m.Offset + m.MatchLength - 1)}
    IN  /\ covered = UNION {UNION {Bytes(l, m) : m \in ToSet(l.LineFragments)} : l \in ToSet(f.LineMatches)}
        /\ \A l \in ToSet(f.LineMatches) : \A m \in ToSet(l.LineFragments) :
             /\ [name |-> l.FileName, at |-> m.Offset - 1] \notin covered
             /\ [name |-> l.FileName, at |-> m.Offset + m.MatchLength] \notin covered
             /\ ~l.FileName => /\ m.Offset = l.LineStart + m.LineOffset
                               /\ l.LineStart <= m.Offset /\ m.Offset + m.MatchLength <= l.LineEnd
        /\ \A l \in {l \in ToSet(f.LineMatches) : ~l.FileName} :
             /\ l.LineStart = 0 \/ content[l.LineStart] = Newline
             /\ l.LineEnd = Len(content) \/ content[l.LineEnd + 1] = Newline
             /\ l.LineNumber = 1 + Cardinality({i \in 1..l.LineStart : content[i] = Newline})

(***************************************************************************)
(* The text of a query is refused only if it is malformed, and what it is  *)
(* parsed to holds for the same documents as what was meant: operators     *)
(* bind, groups, quotes and escapes delimit, and case: applies as the      *)
(* syntax has it (Parse, Simplify, setCase).                               *)
(***************************************************************************)
ParseKeepsMeaning ==
  course # "idle" /\ ~request.api =>
    /\ (course = "rejected") = request.malformed
    /\ course # "rejected" => \A k \in Documents : Holds(q, k) = Holds(request.want, k)

=============================================================================
