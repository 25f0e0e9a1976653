-------------------------------- MODULE Query --------------------------------
(***************************************************************************)
(* query/query.go and query/regexp.go: queries and what is done to them    *)
(* before they are searched.  A query is a record with its type in op and  *)
(* the fields of that type; a regular expression has its Op, its Rune (the *)
(* runes of a literal) and its Sub-expressions.                            *)
(***************************************************************************)
EXTENDS Bits

And(qs)   == [op |-> "and", Children |-> qs]
Or(qs)    == [op |-> "or", Children |-> qs]
Not(q)    == [op |-> "not", Child |-> q]
Const(v)  == [op |-> "const", Value |-> v]
nil       == [op |-> "nil"]
Substring(p, content, file) ==
  [op |-> "substr", Pattern |-> p, CaseSensitive |-> FALSE, FileName |-> file, Content |-> content]
Regexp(r, content, file) ==
  [op |-> "regexp", Regexp |-> r, CaseSensitive |-> FALSE, FileName |-> file, Content |-> content]
Symbol(p)   == [op |-> "sym", Atom |-> Substring(p, FALSE, FALSE)]
Branch(p)   == [op |-> "branch", Pattern |-> p]
Repo(p)     == [op |-> "repo", Pattern |-> p]
RepoSet(s)  == [op |-> "reposet", Set |-> s]
Language(l) == [op |-> "lang", Language |-> l]
Case(f)     == [op |-> "case", Flavor |-> f]
orOperator  == [op |-> "orOp"]

RE(op, runes, sub) == [Op |-> op, Rune |-> runes, Sub |-> sub]

\* What Map does at one node: f on the children.
MapChildren(q, f(_)) ==
  CASE q.op \in {"and", "or"} -> [q EXCEPT !.Children = Each(@, f)]
    [] q.op = "not"           -> [q EXCEPT !.Child = f(@)]
    [] OTHER                  -> q

(***************************************************************************)
(* evalConstants.                                                          *)
(***************************************************************************)
evalAndOrConstants(isAnd, children) ==
  LET decided == {i \in DOMAIN children : children[i].op = "const" /\ children[i].Value # isAnd}
      newCH   == SelectSeq(children, LAMBDA c : c.op # "const")
  IN  IF decided # {} THEN Const(~isAnd)
      ELSE IF newCH = <<>> THEN Const(isAnd)
      ELSE IF isAnd THEN And(newCH) ELSE Or(newCH)

invertConst(q) == Const(~q.Value)

RECURSIVE evalConstants(_)
evalConstants(query) ==
  LET q == MapChildren(query, evalConstants)
  IN  CASE q.op \in {"and", "or"} -> evalAndOrConstants(q.op = "and", q.Children)
        [] q.op = "not"     -> IF q.Child.op = "const" THEN invertConst(q.Child) ELSE q
        [] q.op = "substr"  -> IF q.Pattern = <<>> THEN Const(TRUE) ELSE q
        [] q.op = "regexp"  -> IF q.Regexp.Op = "empty" THEN Const(TRUE) ELSE q
        [] q.op = "branch"  -> IF q.Pattern = <<>> THEN Const(TRUE) ELSE q
        [] q.op = "reposet" -> IF q.Set = {} THEN Const(TRUE) ELSE q
        [] OTHER            -> q

(***************************************************************************)
(* flatten: one pass, with whether it changed anything.                    *)
(***************************************************************************)
RECURSIVE flatten(_)

flattenAndOr(q) ==
  LET fs == Each(q.Children, flatten)
      Splice(f) == IF f.q.op = q.op THEN f.q.Children ELSE <<f.q>>
  IN  [q |-> [q EXCEPT !.Children = FlattenSeq(Each(fs, Splice))],
       changed |-> \E i \in DOMAIN fs : fs[i].changed \/ fs[i].q.op = q.op]

flatten(q) ==
  CASE q.op \in {"and", "or"} -> IF Len(q.Children) = 1 THEN [q |-> q.Children[1], changed |-> TRUE]
                                 ELSE flattenAndOr(q)
    [] q.op = "not"           -> LET f == flatten(q.Child) IN [q |-> Not(f.q), changed |-> f.changed]
    [] OTHER                  -> [q |-> q, changed |-> FALSE]

RECURSIVE FlattenAll(_)
FlattenAll(q) == LET f == flatten(q) IN IF f.changed THEN FlattenAll(f.q) ELSE f.q

Simplify(q) == FlattenAll(evalConstants(q))

\* ExpandFileContent, mapped over the query.
RECURSIVE ExpandFileContent(_)
ExpandFileContent(query) ==
  LET q == MapChildren(query, ExpandFileContent)
  IN  IF q.op \in {"substr", "regexp"} /\ ~q.FileName /\ ~q.Content
      THEN Or(<<[q EXCEPT !.FileName = TRUE], [q EXCEPT !.Content = TRUE]>>)
      ELSE q

(***************************************************************************)
(* Regular expressions.                                                    *)
(***************************************************************************)
LowerRune(r) == IF r[1] \in Upper THEN <<r[1] + 2>> ELSE r

RECURSIVE LowerRegexp(_)
LowerRegexp(r) ==
  IF r.Op = "literal" THEN [r EXCEPT !.Rune = Each(@, LowerRune)] ELSE [r EXCEPT !.Sub = Each(@, LowerRegexp)]

RECURSIVE regexpToQueryRecursive(_, _)
regexpToQueryRecursive(r, minTextSize) ==
  LET Sub(s) == regexpToQueryRecursive(s, minTextSize)
  IN  CASE r.Op = "literal" /\ Len(FlattenSeq(r.Rune)) >= minTextSize -> Substring(FlattenSeq(r.Rune), FALSE, FALSE)
        [] r.Op \in {"capture", "plus", "repeat"} -> Sub(r.Sub[1])
        [] r.Op = "concat"    -> And(Each(r.Sub, Sub))
        [] r.Op = "alternate" -> Or(Each(r.Sub, Sub))
        [] OTHER              -> Const(TRUE)

RegexpToQuery(r, minTextSize) == Simplify(regexpToQueryRecursive(r, minTextSize))

\* toLower of query/bits.go, byte by byte.
toLowerBytes(in) == [i \in DOMAIN in |-> IF in[i] \in Upper THEN in[i] + 2 ELSE in[i]]

\* setCase of an atom.
setCaseAtom(q, k) ==
  LET sensitive(auto) == CASE k = "yes" -> TRUE [] k = "no" -> FALSE [] k = "auto" -> auto
  IN  CASE q.op = "substr" -> [q EXCEPT !.CaseSensitive = sensitive(q.Pattern # toLowerBytes(q.Pattern))]
        [] q.op = "regexp" -> [q EXCEPT !.CaseSensitive = sensitive(q.Regexp # LowerRegexp(q.Regexp))]
        [] q.op = "sym"    -> [q EXCEPT !.Atom.CaseSensitive = sensitive(q.Atom.Pattern # toLowerBytes(q.Atom.Pattern))]
        [] OTHER           -> q

RECURSIVE setCase(_, _)
setCase(q, k) == setCaseAtom(MapChildren(q, LAMBDA c : setCase(c, k)), k)

(***************************************************************************)
(* Package regexp: the ends of the matches of r from offset i, the one it  *)
(* prefers first; the matches in a text, leftmost first.                   *)
(***************************************************************************)
FoldEqual(a, b) == b \in {a, SimpleFold(a), SimpleFold(SimpleFold(a))}

RECURSIVE MatchEnds(_, _, _, _)
RECURSIVE StarEnds(_, _, _, _)
StarEnds(r, in, fold, i) ==
  FlattenSeq(Each(SelectSeq(MatchEnds(r, in, fold, i), LAMBDA e : e > i), LAMBDA e : StarEnds(r, in, fold, e))) \o <<i>>

LiteralEnds(runes, d, fold, i) ==
  LET n == Len(runes)
  IN  IF n <= Len(d) /\ \A k \in 1..n : IF fold THEN FoldEqual(d[k].r, runes[k]) ELSE d[k].r = runes[k]
      THEN <<i + SizeOf(d, n)>> ELSE <<>>

AnyEnds(d, i) == IF d.sz > 0 /\ d.r # <<Newline>> THEN <<i + d.sz>> ELSE <<>>

MatchEnds(r, in, fold, i) ==
  LET rest == Slice(in, i, Len(in))
      Then(ends, s) == FlattenSeq(Each(ends, LAMBDA e : MatchEnds(s, in, fold, e)))
  IN  CASE r.Op = "literal"   -> LiteralEnds(r.Rune, DecodeFirst(rest, Len(r.Rune)), fold, i)
        [] r.Op = "any"       -> AnyEnds(DecodeRune(rest), i)
        [] r.Op = "empty"     -> <<i>>
        [] r.Op = "capture"   -> MatchEnds(r.Sub[1], in, fold, i)
        [] r.Op = "star"      -> StarEnds(r.Sub[1], in, fold, i)
        [] r.Op = "plus"      -> FlattenSeq(Each(MatchEnds(r.Sub[1], in, fold, i), LAMBDA e : StarEnds(r.Sub[1], in, fold, e)))
        [] r.Op = "repeat"    -> Then(MatchEnds(r.Sub[1], in, fold, i), r.Sub[1])
        [] r.Op = "concat"    -> FoldLeft(Then, <<i>>, r.Sub)
        [] r.Op = "alternate" -> FlattenSeq(Each(r.Sub, LAMBDA s : MatchEnds(s, in, fold, i)))

RECURSIVE FindFrom(_, _, _, _)
FindNext(r, in, fold, i, ends) ==
  IF ends = <<>> THEN FindFrom(r, in, fold, i + DecodeRune(Slice(in, i, Len(in))).sz)
  ELSE <<[byteOffset |-> i, byteMatchSz |-> ends[1] - i]>> \o FindFrom(r, in, fold, ends[1])

FindFrom(r, in, fold, i) ==
  IF i >= Len(in) THEN <<>> ELSE FindNext(r, in, fold, i, MatchEnds(r, in, fold, i))

\* FindAllIndex, for an r that matches no empty text.
FindAllIndex(r, in, fold) == FindFrom(r, in, fold, 0)

QuoteMeta(p) == RE("literal", Runes(p), <<>>)

=============================================================================
