------------------------------ MODULE MatchTree ------------------------------
(***************************************************************************)
(* matchtree.go: the tree of a query over a shard.  A node has its type in *)
(* mt; a brute force node has the document it was prepared for, -1 before  *)
(* the first.  A node is named by its path, the numbers of the children    *)
(* that lead to it: the code keys known by its address.                    *)
(***************************************************************************)
EXTENDS HitIterators, ContentProvider, QueryParse

costConst   == 0
costMemory  == 1
costContent == 2
costRegexp  == 3

ContainsText(in, sub) == \E i \in 0..(Len(in) - Len(sub)) : Slice(in, i, i + Len(sub)) = sub

(***************************************************************************)
(* newMatchTree; err is "" or what keeps the tree from being built.        *)
(***************************************************************************)
Built(t) == [err |-> "", t |-> t]

RegexpTree(r, caseSensitive, isName) ==
  [mt |-> "regexp", re |-> r, fold |-> ~caseSensitive, fileName |-> isName, docID |-> -1]

newSubstringMatchTree(d, q) ==
  IF Len(Runes(q.Pattern)) < ngramSize THEN RegexpTree(QuoteMeta(q.Pattern), q.CaseSensitive, q.FileName)
  ELSE [mt |-> "substr", q |-> q, iter |-> iterateNgrams(d, q), current |-> <<>>]

branchIDs(d, name) == 2 ^ (Max({i \in DOMAIN d.branchNames : d.branchNames[i] = name}) - 1)

maskOfPattern(d, pattern) ==
  IF pattern = HEAD THEN 1
  ELSE MaskOf({branchIDs(d, name) : name \in {name \in ToSet(d.branchNames) : ContainsText(name, pattern)}})

languageDocs(d, l) ==
  SelectSeq([i \in DOMAIN d.languages |-> i - 1], LAMBDA k : d.languages[k + 1] = d.metaData.LanguageMap[l])

\* The substrings of a regular expression are searched where it is.
RECURSIVE LikeRegexp(_, _)
LikeRegexp(q, s) ==
  IF q.op = "substr" THEN [q EXCEPT !.FileName = s.FileName, !.CaseSensitive = s.CaseSensitive]
  ELSE MapChildren(q, LAMBDA c : LikeRegexp(c, s))

ListTree(op, children) ==
  LET failed == {i \in DOMAIN children : children[i].err # ""}
  IN  IF failed # {} THEN children[Least(failed)] ELSE Built([mt |-> op, children |-> Each(children, LAMBDA c : c.t)])

NotTree(child) == IF child.err # "" THEN child ELSE Built([mt |-> "not", child |-> child.t])

SymbolTree(d, q, atom) ==
  IF atom.mt = "regexp" THEN [err |-> "short"]
  ELSE Built([atom EXCEPT !.iter = newTrimByDocSectionIter(d, q.Atom, @)])

RECURSIVE newMatchTree(_, _)
newMatchTree(d, q) ==
  CASE q.op = "regexp" ->
         Built([mt |-> "and", children |->
                  <<RegexpTree(q.Regexp, q.CaseSensitive, q.FileName),
                    [mt |-> "noVisit", child |-> newMatchTree(d, LikeRegexp(RegexpToQuery(q.Regexp, ngramSize), q)).t]>>])
    [] q.op \in {"and", "or"} -> ListTree(q.op, Each(q.Children, LAMBDA c : newMatchTree(d, c)))
    [] q.op = "not"    -> NotTree(newMatchTree(d, q.Child))
    [] q.op = "substr" -> Built(newSubstringMatchTree(d, q))
    [] q.op = "branch" -> Built([mt |-> "branch", mask |-> maskOfPattern(d, q.Pattern), docID |-> -1])
    [] q.op = "const"  -> Built(IF q.Value THEN [mt |-> "brute", docID |-> -1] ELSE [mt |-> "none"])
    [] q.op = "lang"   ->
         Built(IF q.Language \notin DOMAIN d.metaData.LanguageMap THEN [mt |-> "none"]
               ELSE [mt |-> "docs", docs |-> languageDocs(d, q.Language), current |-> <<>>])
    [] q.op = "sym"    -> SymbolTree(d, q, newSubstringMatchTree(d, q.Atom))
    [] OTHER -> [err |-> "panic"]

(***************************************************************************)
(* nextDoc and prepare.                                                    *)
(***************************************************************************)
CommonBit(m, n) == \E i \in 0..maxBranches : (m \div 2 ^ i) % 2 = 1 /\ (n \div 2 ^ i) % 2 = 1

andNextDoc(docs) == Max({0} \cup docs)

RECURSIVE NextDoc(_, _)
NextDoc(d, t) ==
  LET docs == {NextDoc(d, t.children[i]) : i \in DOMAIN t.children}
  IN  CASE t.mt = "and"     -> andNextDoc(docs)
        [] t.mt = "or"      -> Least({maxUInt32} \cup docs)
        [] t.mt = "not"     -> 0
        [] t.mt = "noVisit" -> NextDoc(d, t.child)
        [] t.mt = "substr"  -> NextDocOf(t.iter)
        [] t.mt \in {"regexp", "brute"} -> t.docID + 1
        [] t.mt = "docs"    -> IF t.docs = <<>> THEN maxUInt32 ELSE t.docs[1]
        [] t.mt = "none"    -> maxUInt32
        [] t.mt = "branch"  ->
             Least({maxUInt32} \cup {k \in (t.docID + 1)..(Len(d.fileBranchMasks) - 1) : CommonBit(t.mask, d.fileBranchMasks[k + 1])})

WithCandidates(t, c) == [t EXCEPT !.current = c.found, !.iter = c.iter]

RECURSIVE Prepare(_, _)
Prepare(t, k) ==
  CASE t.mt \in {"and", "or"}      -> [t EXCEPT !.children = Each(@, LAMBDA c : Prepare(c, k))]
    [] t.mt \in {"not", "noVisit"} -> [t EXCEPT !.child = Prepare(@, k)]
    [] t.mt = "substr" -> WithCandidates(t, Candidates(PrepareIter(t.iter, k)))
    [] t.mt \in {"regexp", "brute", "branch"} -> [t EXCEPT !.docID = k]
    [] t.mt = "docs"   -> [t EXCEPT !.current = SelectSeq(t.docs, LAMBDA k2 : k2 = k),
                                    !.docs = SelectSeq(@, LAMBDA k2 : k2 > k)]
    [] t.mt = "none"   -> t

(***************************************************************************)
(* The matches of the leaves in document idx.  matchContent compares a     *)
(* case sensitive pattern with the bytes of the file from the match on,    *)
(* which may be those of the next document too.                            *)
(***************************************************************************)
matchContent(d, idx, q, byteOffset) ==
  LET start == IF q.FileName THEN d.fileNameStart + d.fileNameIndex[idx + 1] ELSE d.boundariesStart + d.boundaries[idx + 1]
  IN  IF q.CaseSensitive
      THEN IF Read(d.file, start + byteOffset, Len(q.Pattern)) = q.Pattern THEN Len(q.Pattern) ELSE -1
      ELSE caseFoldingEqualsRunes(toLower(q.Pattern), From(data(d, idx, q.FileName), byteOffset))

\* What substrMatchTree.matches leaves of the candidates.
Pruned(d, idx, t) ==
  LET At(r)    == IF r > 0 THEN findOffset(d, idx, t.q.FileName, r) ELSE 0
      Match(b) == [byteOffset |-> b, byteMatchSz |-> matchContent(d, idx, t.q, b), fileName |-> t.q.FileName]
  IN  SelectSeq(Each(Each(t.current, At), Match), LAMBDA m : m.byteMatchSz >= 0)

\* What regexpMatchTree.matches finds.
Found(d, idx, t) ==
  Each(FindAllIndex(t.re, data(d, idx, t.fileName), t.fold),
       LAMBDA m : [byteOffset |-> m.byteOffset, byteMatchSz |-> m.byteMatchSz, fileName |-> t.fileName])

(***************************************************************************)
(* matches: the answer, whether it is sure, and what is known after it.    *)
(* An and stops at the first child that surely fails.                      *)
(***************************************************************************)
Answer(v, ok, known) == [v |-> v, ok |-> ok, known |-> known, stop |-> FALSE]

RECURSIVE matches(_, _, _, _, _, _)

\* Answers that are sure are known from then on.
remember(r, path) == IF r.ok THEN [r EXCEPT !.known = (path :> r.v) @@ @] ELSE r

evalMatchTree(d, idx, cost, known, t, path) ==
  IF path \in DOMAIN known THEN Answer(known[path], TRUE, known)
  ELSE remember(matches(d, idx, cost, known, t, path), path)

matches(d, idx, cost, known, t, path) ==
  LET n == IF t.mt \in {"and", "or"} THEN Len(t.children) ELSE 0
      Child(acc, i) == evalMatchTree(d, idx, cost, acc.known, t.children[i], Append(path, i))
      AndStep(acc, i) ==
        IF acc.stop THEN acc
        ELSE LET c == Child(acc, i)
             IN  IF c.ok /\ ~c.v THEN [c EXCEPT !.stop = TRUE] ELSE Answer(TRUE, acc.ok /\ c.ok, c.known)
      OrStep(acc, i) ==
        LET c == Child(acc, i) IN Answer(acc.v \/ (c.ok /\ c.v), acc.ok /\ c.ok, c.known)
  IN  CASE t.mt = "and"     -> [FoldLeft(AndStep, Answer(TRUE, TRUE, known), Indices(n)) EXCEPT !.stop = FALSE]
        [] t.mt = "or"      -> FoldLeft(OrStep, Answer(FALSE, TRUE, known), Indices(n))
        [] t.mt = "not"     -> LET c == evalMatchTree(d, idx, cost, known, t.child, Append(path, 1))
                               IN  Answer(~c.v, c.ok, c.known)
        [] t.mt = "noVisit" -> matches(d, idx, cost, known, t.child, Append(path, 1))
        [] t.mt = "regexp"  -> IF cost < costRegexp THEN Answer(FALSE, FALSE, known)
                               ELSE Answer(Found(d, idx, t) # <<>>, TRUE, known)
        [] t.mt = "substr"  ->
             IF t.current = <<>> THEN Answer(FALSE, TRUE, known)
             ELSE IF cost < (IF t.q.FileName THEN costMemory ELSE costContent) THEN Answer(FALSE, FALSE, known)
             ELSE Answer(Pruned(d, idx, t) # <<>>, TRUE, known)
        [] t.mt = "branch"  -> Answer(CommonBit(t.mask, d.fileBranchMasks[idx + 1]), TRUE, known)
        [] t.mt = "docs"    -> Answer(t.current # <<>>, TRUE, known)
        [] t.mt = "brute"   -> Answer(TRUE, TRUE, known)
        [] t.mt = "none"    -> Answer(FALSE, TRUE, known)

\* The leaves that contributed: not those below a not or a noVisit.
RECURSIVE visitMatches(_, _, _)
visitMatches(t, known, path) ==
  CASE t.mt \in {"and", "or"} ->
         FlattenSeq([i \in DOMAIN t.children |->
                       IF Get(known, Append(path, i), FALSE) THEN visitMatches(t.children[i], known, Append(path, i)) ELSE <<>>])
    [] t.mt \in {"not", "noVisit"} -> <<>>
    [] OTHER -> <<t>>

\* All leaves of the tree.
RECURSIVE visitMatchTree(_)
visitMatchTree(t) ==
  CASE t.mt \in {"and", "or"}      -> FlattenSeq(Each(t.children, visitMatchTree))
    [] t.mt \in {"not", "noVisit"} -> visitMatchTree(t.child)
    [] OTHER                       -> <<t>>

=============================================================================
