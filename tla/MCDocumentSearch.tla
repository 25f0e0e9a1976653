-------------------------- MODULE MCDocumentSearch --------------------------
(***************************************************************************)
(* Requests to shards of up to five documents, for TLC.                    *)
(***************************************************************************)
EXTENDS MCShardIndexing, DocumentSearch

(***************************************************************************)
(* The text of a query.                                                    *)
(***************************************************************************)
JoinTexts(texts, sep) == FoldLeft(LAMBDA acc, t : IF acc = <<>> THEN t ELSE acc \o sep \o t, <<>>, texts)

RECURSIVE UnparseRE(_)
UnparseRE(r) ==
  LET subs == Each(r.Sub, UnparseRE)
  IN  CASE r.Op = "literal"   -> FlattenSeq(r.Rune)
        [] r.Op = "any"       -> <<Dot>>
        [] r.Op = "capture"   -> <<ParenOpen>> \o subs[1] \o <<ParenClose>>
        [] r.Op = "plus"      -> subs[1] \o <<Plus>>
        [] r.Op = "star"      -> subs[1] \o <<Star>>
        [] r.Op = "repeat"    -> subs[1] \o <<Twice>>
        [] r.Op = "concat"    -> FlattenSeq(subs)
        [] r.Op = "alternate" -> JoinTexts(subs, <<Bar>>)

Quoted(t) == IF ToSet(t) \cap {Space, Newline} = {} THEN t ELSE <<Quote>> \o t \o <<Quote>>

AtomText(a) ==
  LET kw == IF a.FileName THEN <<tokFile>> ELSE IF a.Content THEN <<tokContent>> ELSE <<>>
  IN  kw \o Quoted(IF a.op = "substr" THEN a.Pattern ELSE UnparseRE(a.Regexp))

RECURSIVE Unparse(_)
Grouped(q1, ops) == IF q1.op \in ops THEN <<ParenOpen>> \o Unparse(q1) \o <<ParenClose>> ELSE Unparse(q1)
Unparse(q1) ==
  CASE q1.op = "and"    -> JoinTexts(Each(q1.Children, LAMBDA c : Grouped(c, {"or", "and"})), <<Space>>)
    [] q1.op = "or"     -> JoinTexts(Each(q1.Children, LAMBDA c : Grouped(c, {"or"})), <<Space, OrWord, Space>>)
    [] q1.op = "not"    -> <<Minus>> \o Grouped(q1.Child, {"or", "and"})
    [] q1.op \in {"substr", "regexp"} -> AtomText(q1)
    [] q1.op = "sym"    -> <<tokSym>> \o Quoted(q1.Atom.Pattern)
    [] q1.op = "branch" -> <<tokBranch>> \o q1.Pattern
    [] q1.op = "repo"   -> <<tokRepo>> \o q1.Pattern
    [] q1.op = "lang"   -> <<tokLang>> \o q1.Language

\* What is meant by it under a flavor of case:.
Sensitive(text, flavor) == flavor = "yes" \/ (flavor = "auto" /\ ToSet(text) \cap Upper # {})

RECURSIVE Meant(_, _)
Meant(q1, flavor) ==
  IF q1.op = "sym" THEN [q1 EXCEPT !.Atom.CaseSensitive = Sensitive(q1.Atom.Pattern, flavor)]
  ELSE IF q1.op \in {"substr", "regexp"} THEN [q1 EXCEPT !.CaseSensitive = Sensitive(AtomText(q1), flavor)]
  ELSE MapChildren(q1, LAMBDA c : Meant(c, flavor))

CaseText == [auto |-> <<>>, yes |-> <<tokCase, 60, Space>>, no |-> <<tokCase, 61, Space>>]

(***************************************************************************)
(* Requests.                                                               *)
(***************************************************************************)
NoLimit == [ShardMaxMatchCount |-> 0, ShardMaxImportantMatch |-> 0, EstimateDocCount |-> FALSE]

Ask(q1, flavor) ==
  [text |-> CaseText[flavor] \o Unparse(q1), want |-> Meant(q1, flavor), malformed |-> FALSE, api |-> FALSE,
   opts |-> NoLimit, list |-> FALSE, mayCancel |-> FALSE]

Sub(p) == Substring(p, FALSE, FALSE)
Re(r) == Regexp(r, FALSE, FALSE)
Lit(p) == RE("literal", Runes(p), <<>>)
Op(op, r) == RE(op, <<>>, <<RE("capture", <<>>, <<r>>)>>)

kbk == <<6, 7, 6>>

Words == {Sub(kbk), Sub(<<4, 7, 6>>), Sub(<<6, 7, 6, 7>>), Sub(<<6, 1, 6>>), Sub(<<7, 2, 6>>), Sub(<<6, 7>>),
          Substring(kbk, TRUE, FALSE), Substring(<<7, 7, 6>>, FALSE, TRUE), Substring(<<7>>, FALSE, TRUE),
          Sub(<<7, 6>>), Sub(<<7, 6, 7, 6>>), Sub(<<6, 7, 7, 6>>), Sub(<<6, 1, 6, 7, 6>>), Sub(<<7, 6, 1, 6, 7>>),
          Sub(<<6, 14, 8, 9, 7>>), Sub(<<7, 15, 8, 9, 10>>), Sub(<<15, 8, 9, 10, 12, 9, 6, 7>>)}

Patterns == {Re(RE("concat", <<>>, <<Lit(<<6>>), RE("any", <<>>, <<>>), Lit(<<6>>)>>)),
             Re(RE("concat", <<>>, <<Lit(kbk), Op("star", Lit(<<7>>))>>)),
             Re(Op("plus", Lit(<<6, 7>>))), Re(Op("repeat", Lit(<<6, 7>>))),
             Re(RE("alternate", <<>>, <<Lit(kbk), Lit(<<7, 7, 6>>)>>)),
             Regexp(RE("capture", <<>>, <<RE("alternate", <<>>, <<Lit(<<5, 6>>), Lit(<<7, 2>>)>>)>>), TRUE, FALSE)}

Names == {Branch(<<6, 7>>), Branch(n), Branch(HEAD), Branch(<<>>), Branch(x), Repo(lib), Repo(x),
          Language(<<7, 6>>), Language(x), Symbol(kbk), Symbol(<<7, 6, 7>>), Symbol(<<6, 7>>), Sub(<<>>)}

Parts == {Sub(kbk), Sub(<<5, 6>>), Substring(<<7>>, FALSE, TRUE), Branch(n), Not(Sub(<<6, 7, 6, 7>>)), Re(Op("plus", Lit(<<6, 7>>)))}

Trees2 == {And(<<a, b>>) : a, b \in Parts} \cup {Or(<<a, b>>) : a, b \in Parts}
Trees3 == UNION {{Or(<<And(<<a, b>>), c>>), And(<<a, Or(<<b, c>>)>>), Not(Or(<<a, And(<<b, c>>)>>)), And(<<Not(And(<<a, b>>)), Not(c)>>)} :
                   a \in {Sub(kbk), Branch(n)}, b \in {Sub(<<5, 6>>), Substring(<<7>>, FALSE, TRUE)}, c \in Parts}

Plain1 == {Ask(q1, "auto") : q1 \in Words \cup Patterns \cup Names \cup {Not(a) : a \in Words}}
CaseGiven  == {Ask(q1, f) : q1 \in Words \cup Patterns, f \in {"yes", "no"}}
Nested == {Ask(q1, "auto") : q1 \in Trees2 \cup Trees3}

Limits == {[Ask(q1, "auto") EXCEPT !.opts.ShardMaxMatchCount = c, !.opts.ShardMaxImportantMatch = i, !.mayCancel = may] :
             q1 \in {Sub(<<6, 7>>), Not(Sub(kbk)), Sub(kbk)}, c \in 0..2, i \in 0..1, may \in BOOLEAN}

Others == {[Ask(Sub(kbk), "auto") EXCEPT !.opts.EstimateDocCount = TRUE]}
  \cup {[Ask(q1, "auto") EXCEPT !.list = TRUE] : q1 \in {Repo(lib), Repo(x), Sub(<<>>), Sub(kbk)}}
  \cup {[Ask(Repo(lib), "auto") EXCEPT !.api = TRUE, !.want = And(<<RepoSet(S), Sub(kbk)>>)] : S \in {{root}, {lib}, {}}}

(***************************************************************************)
(* case: within an or, twice in one list, and in a group, where it gives   *)
(* way to the one of the list around it (auto, if that has none).          *)
(***************************************************************************)
Said(words) == JoinTexts(words, <<Space>>)
yes == <<tokCase, 60>>
no  == <<tokCase, 61>>
KBk == <<4, 7, 6>>
Or1 == Or(<<Sub(kbk), Sub(KBk)>>)
Group1(words) == <<ParenOpen>> \o Said(words) \o <<Space, ParenClose>>

CaseMixed == {[Ask(p[2], p[3]) EXCEPT !.text = Said(p[1])] :
  p \in {<< <<kbk, <<OrWord>>, KBk, yes>>, Or1, "yes" >>, << <<kbk, no, <<OrWord>>, KBk>>, Or1, "no" >>,
         << <<yes, KBk, no>>, Sub(KBk), "no" >>, << <<no, kbk, yes>>, Sub(kbk), "yes" >>,
         << <<Group1(<<yes, kbk>>)>>, Sub(kbk), "auto" >>, << <<Group1(<<no, KBk>>)>>, Sub(KBk), "auto" >>,
         << <<yes, Group1(<<kbk, <<OrWord>>, no, KBk>>)>>, Or1, "yes" >>,
         << <<no, <<Minus>> \o Group1(<<yes, KBk>>), <<7, 6>> >>, And(<<Not(Sub(KBk)), Sub(<<7, 6>>)>>), "no" >> }}

\* Quotes, escapes and spaces; and texts that are malformed.
Written == {[Ask(Sub(p[2]), "auto") EXCEPT !.text = p[1]] :
              p \in {<< <<6, Quote, 7, 2, Quote, 6>>, <<6, 7, 2, 6>> >>, << <<7, Backslash, 2, 6>>, <<7, 2, 6>> >>,
                     << <<2, 2, 6, 7, 6, 2>>, kbk >>, << <<tokRegex, 6, 7, 6>>, kbk >>,
                     << <<tokCase, 62, 2, ParenOpen, 6, 7, 6, 2, ParenClose>>, kbk >>}}
Malformed == {[Ask(Sub(kbk), "auto") EXCEPT !.text = t, !.malformed = TRUE] :
                t \in {<<Quote, 6>>, <<Quote, Backslash>>, <<6, Backslash>>, <<ParenOpen, 6, 2>>, <<OrWord>>, <<6, 2, OrWord>>,
                       <<tokCase, 6>>, <<tokCase, 60, 2, OrWord, 2, 6>>, <<tokSym>>, <<Star>>, <<6, ParenOpen>>, <<ParenOpen, 6, 2, OrWord, ParenClose>>,
                       <<Minus, Star>>, <<ParenOpen, 2, Star, 2, ParenClose>>}}

(***************************************************************************)
(* Shards.                                                                 *)
(***************************************************************************)
Two == GivenOn((m :> Tree(<<>>)) @@ (n :> Tree(<<>>)),
         <<Doc(f1, "plain", <<m>>, root, <<Sec(0, 3), Sec(4, 6)>>), Doc(f3, "plain", <<n>>, root, <<Sec(4, 7)>>),
           Doc(f2, "lines", <<m, n>>, root, <<Sec(4, 6)>>)>>)
Wide == Given(<<Doc(f1, "wide", <<m>>, root, <<Sec(0, 4), Sec(11, 14)>>), Doc(f2, "caps", <<m>>, root, <<Sec(0, 3)>>),
                Doc(f3, "broken", <<m>>, <<>>, <<>>)>>)
Five == m :> Tree((f1 :> File("small")) @@ (<<7>> :> File("empty")) @@ (<<6, 6>> :> File("broken"))
                    @@ (<<6, 6, 6>> :> File("small")) @@ (f2 :> File("plain")))

Shards == {Two, Wide, Input(Git(Five, NoCache))}

Searches == {[i EXCEPT !.requests = Plain1 \cup CaseGiven \cup Nested \cup Limits \cup Others \cup CaseMixed \cup Written \cup Malformed] : i \in Shards}
  \cup {[i EXCEPT !.requests = {Ask(Sub(kbk), "auto"), Ask(Branch(n), "auto")}] :
          i \in {i \in Subs : i.git.heads[m].tree = SubTree("c1")} \cup {Input(Git(m :> Tree(<<>>), NoCache))}}

MCSearchInputs == MCInputs \cup Searches
=============================================================================
