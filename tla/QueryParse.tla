----------------------------- MODULE QueryParse -----------------------------
(***************************************************************************)
(* query/parse.go: from the text of a query to the query.  The text is a   *)
(* sequence of symbols: the bytes of Bits, one symbol for every character  *)
(* that has a meaning here, and one for each keyword with its colon, for   *)
(* the word "or" and for the arguments of case:.                           *)
(***************************************************************************)
EXTENDS Query, TLC

ParenOpen  == 16
ParenClose == 17
Minus      == 18
Quote      == 19
Backslash  == 20
Dot        == 21
Plus       == 22
Star       == 23
Bar        == 24
Twice      == 25     \* {2}
OrWord     == 30

tokFile    == 40
tokContent == 41
tokRepo    == 42
tokBranch  == 43
tokCase    == 44
tokLang    == 45
tokSym     == 46
tokRegex   == 47
prefixes   == tokFile..tokRegex

caseArgs == [n \in {60, 61, 62} |-> CASE n = 60 -> "yes" [] n = 61 -> "no" [] n = 62 -> "auto"]

\* Types of tokens without a keyword.
tokText       == 1
tokParenOpen  == 2
tokParenClose == 3
tokNegate     == 4
tokOr         == 5

From(b, n) == Slice(b, n, Len(b))

isSpace(c) == c = Space

RECURSIVE SkipSpace(_)
SkipSpace(b) == IF b # <<>> /\ isSpace(b[1]) THEN SkipSpace(Tail(b)) ELSE b

(***************************************************************************)
(* parseStringLiteral, from the quote on: the literal and the bytes that   *)
(* were consumed.                                                          *)
(***************************************************************************)
Failure == [err |-> TRUE]

RECURSIVE Literal(_, _, _)
Literal(left, lit, n) ==
  IF left = <<>> THEN Failure
  ELSE IF left[1] = Quote THEN [err |-> FALSE, lit |-> lit, n |-> n + 1]
  ELSE IF left[1] # Backslash THEN Literal(Tail(left), Append(lit, left[1]), n + 1)
  ELSE IF Len(left) = 1 THEN Failure
  ELSE Literal(From(left, 2), Append(lit, left[2]), n + 2)

parseStringLiteral(in) == Literal(Tail(in), <<>>, 1)

(***************************************************************************)
(* nextToken.  A token has its Type, its Text and the length of its Input; *)
(* nil is the end.  Scan is the loop: text is what it has collected.       *)
(***************************************************************************)
RECURSIVE Scan(_, _, _, _)
Scan(left, text, n, parenCount) ==
  LET c    == left[1]
      Take == Scan(Tail(left), Append(text, c), n + 1, parenCount + (IF c = ParenOpen THEN 1 ELSE IF c = ParenClose THEN -1 ELSE 0))
      Stop(space) == [err |-> FALSE, text |-> text, n |-> n, foundSpace |-> space]
      s    == parseStringLiteral(left)
  IN  IF left = <<>> THEN Stop(FALSE)
      ELSE CASE c = ParenClose /\ parenCount = 0 ->
                  IF text = <<>> THEN [Stop(FALSE) EXCEPT !.text = <<c>>, !.n = n + 1] ELSE Stop(FALSE)
             [] c = Quote -> IF s.err THEN Failure ELSE Scan(From(left, s.n), text \o s.lit, n + s.n, parenCount)
             [] c = Backslash -> IF Len(left) = 1 THEN Failure
                                 ELSE Scan(From(left, 2), text \o <<c, left[2]>>, n + 2, parenCount)
             [] c \in {Space, Newline} -> Stop(parenCount > 0)
             [] OTHER -> Take

setType(input, text) ==
  IF text # <<>> /\ input # <<>> /\ input[1] \in prefixes THEN [Type |-> input[1], Text |-> Tail(text)]
  ELSE [Text |-> text,
        Type |-> CASE text = <<OrWord>> /\ input = text -> tokOr
                   [] text = <<ParenOpen>>  -> tokParenOpen
                   [] text = <<ParenClose>> -> tokParenClose
                   [] OTHER -> tokText]

noToken == [err |-> FALSE, Type |-> 0, Text |-> <<>>, n |-> 0]

Typed(t, n) == [err |-> FALSE, Type |-> t.Type, Text |-> t.Text, n |-> n]

\* The token of what was scanned: "(" alone if it is the start of a group.
Token(in, s) ==
  IF s.err THEN Failure
  ELSE IF s.text = <<>> THEN noToken
  ELSE IF s.foundSpace /\ s.text[1] = ParenOpen THEN Typed(setType(Slice(in, 0, 1), <<ParenOpen>>), 1)
  ELSE Typed(setType(Slice(in, 0, s.n), s.text), s.n)

nextToken(in) ==
  IF in = <<>> THEN noToken
  ELSE IF in[1] = Minus THEN [err |-> FALSE, Type |-> tokNegate, Text |-> <<Minus>>, n |-> 1]
  ELSE Token(in, Scan(in, <<>>, 0, 0))

(***************************************************************************)
(* regexp/syntax: the expression a text stands for.                        *)
(***************************************************************************)
Postfix == (Plus :> "plus") @@ (Star :> "star") @@ (Twice :> "repeat")

\* An escaped symbol c becomes the symbol Escaped + c, which has no meaning but its own.
Escaped == 100

RECURSIVE Unescape(_)
Unescape(t) ==
  IF t = <<>> THEN <<>>
  ELSE IF t[1] = Backslash THEN <<Escaped + t[2]>> \o Unescape(From(t, 2)) ELSE <<t[1]>> \o Unescape(Tail(t))

Depth(t, i) == Cardinality({j \in 1..i : t[j] = ParenOpen}) - Cardinality({j \in 1..i : t[j] = ParenClose})

RECURSIVE Alternatives(_)
RECURSIVE Factors(_)
Factors(t) ==
  IF t = <<>> THEN <<>>
  ELSE LET close == CHOOSE i \in DOMAIN t : Depth(t, i) = 0 /\ \A j \in 1..(i - 1) : Depth(t, j) > 0
           n     == IF t[1] = ParenOpen THEN close ELSE IF t[1] >= byteBase THEN 1 ELSE RuneSize(t[1])
           atom  == CASE t[1] = ParenOpen -> RE("capture", <<>>, <<Alternatives(Slice(t, 1, n - 1))>>)
                      [] t[1] = Dot       -> RE("any", <<>>, <<>>)
                      [] OTHER            -> RE("literal", <<IF t[1] >= Escaped THEN <<t[1] - Escaped>> ELSE SubSeq(t, 1, n)>>, <<>>)
       IN  IF n < Len(t) /\ t[n + 1] \in DOMAIN Postfix
           THEN <<RE(Postfix[t[n + 1]], <<>>, <<atom>>)>> \o Factors(From(t, n + 1))
           ELSE <<atom>> \o Factors(From(t, n))

MergeLiterals(fs, f) ==
  IF fs # <<>> /\ f.Op = "literal" /\ Last(fs).Op = "literal"
  THEN Append(Front(fs), RE("literal", Last(fs).Rune \o f.Rune, <<>>)) ELSE Append(fs, f)

Concat(fs) == IF Len(fs) = 1 THEN fs[1] ELSE RE("concat", <<>>, fs)

Alternate(r, rest) == RE("alternate", <<>>, <<r>> \o IF rest.Op = "alternate" THEN rest.Sub ELSE <<rest>>)

Alternatives(t) ==
  LET bars == {i \in DOMAIN t : t[i] = Bar /\ Depth(t, i) = 0}
      bar  == CHOOSE i \in bars : \A j \in bars : i <= j
  IN  IF t = <<>> THEN RE("empty", <<>>, <<>>)
      ELSE IF bars # {} THEN Alternate(Alternatives(Slice(t, 0, bar - 1)), Alternatives(From(t, bar)))
      ELSE Concat(FoldLeft(MergeLiterals, <<>>, Factors(t)))

BadSyntax(t) ==
  \/ \E i \in DOMAIN t : Depth(t, i) < 0
  \/ Depth(t, Len(t)) # 0
  \/ \E i \in DOMAIN t : t[i] \in DOMAIN Postfix /\ (i = 1 \/ t[i - 1] \in {ParenOpen, Bar} \cup DOMAIN Postfix)

syntaxFails(text) == (text # <<>> /\ Last(text) = Backslash) \/ BadSyntax(Unescape(text))

syntaxParse(text) == Alternatives(Unescape(text))

\* One atom: a regular expression, or a substring when it is a literal.
AtomOf(r, content, file) ==
  IF r.Op = "literal" THEN Substring(FlattenSeq(r.Rune), content, file) ELSE Regexp(r, content, file)

regexpQuery(text, content, file) ==
  IF syntaxFails(text) THEN Failure ELSE [err |-> FALSE, q |-> AtomOf(syntaxParse(text), content, file)]

(***************************************************************************)
(* parseOperators: or binds weaker than the lists on its two sides.        *)
(***************************************************************************)
SplitAtOr(in) ==
  FoldLeft(LAMBDA acc, q : IF q.op = "orOp" THEN Append(acc, <<>>) ELSE Append(Front(acc), Append(Last(acc), q)),
           << <<>> >>, in)

\* Joins every operand of an or with the next (a mutation of parseOperators).
parseOperatorsTight(in) ==
  LET lists == SplitAtOr(in)
  IN  IF Len(lists) > 1 /\ \E i \in DOMAIN lists : lists[i] = <<>> THEN Failure
      ELSE [err |-> FALSE, q |-> IF Len(lists) > 1 /\ Len(lists[1]) > 1
                                 THEN And(<<lists[1][1], Or(<<And(Tail(lists[1]))>> \o Each(Tail(lists), And))>>)
                                 ELSE Or(Each(lists, And))]

parseOperators(in) ==
  LET lists == SplitAtOr(in)
  IN  IF Len(lists) > 1 /\ \E i \in DOMAIN lists : lists[i] = <<>> THEN Failure
      ELSE [err |-> FALSE, q |-> Or(Each(lists, And))]

(***************************************************************************)
(* parseExpr and parseExprList: the query or the queries, and the bytes    *)
(* that were consumed.                                                     *)
(***************************************************************************)
Parsed(q, n) == [err |-> FALSE, q |-> q, n |-> n]

RECURSIVE parseExprList(_)
RECURSIVE parseExpr(_)

\* What a part e of it, n bytes from the start, was parsed to.
Inner(e, n, q(_)) == IF e.err THEN Failure ELSE Parsed(q(e.q), n + e.n)

Whole(a, n) == IF a.err THEN Failure ELSE Parsed(a.q, n)

\* The group behind an open parenthesis.
Closed(list, pTok) ==
  IF pTok.err \/ pTok.Type # tokParenClose THEN Failure ELSE Whole(parseOperators(list.qs), list.n + pTok.n)

Group(b, list) == IF list.err THEN Failure ELSE Closed(list, nextToken(From(b, list.n)))

parseGroup(b) == Group(b, parseExprList(b))

\* The expression that starts with tok, after which left is left.
ExprOf(tok, left, n) ==
  LET text == tok.Text
  IN  IF tok.err THEN Failure
      ELSE CASE tok.Type = 0          -> Parsed(nil, 0)
             [] tok.Type = tokCase    -> IF Len(text) = 1 /\ text[1] \in DOMAIN caseArgs THEN Parsed(Case(caseArgs[text[1]]), n) ELSE Failure
             [] tok.Type = tokRepo    -> Parsed(Repo(text), n)
             [] tok.Type = tokBranch  -> Parsed(Branch(text), n)
             [] tok.Type \in {tokText, tokRegex, tokFile, tokContent} ->
                  Whole(regexpQuery(text, tok.Type = tokContent, tok.Type = tokFile), n)
             [] tok.Type = tokLang    -> Parsed(Language(text), n)
             [] tok.Type = tokSym     -> IF text = <<>> THEN Failure ELSE Parsed(Symbol(text), n)
             [] tok.Type = tokParenOpen  -> Inner(parseGroup(left), n, LAMBDA q : q)
             [] tok.Type = tokNegate     -> Inner(parseExpr(left), n, Not)
             [] OTHER                    -> Parsed(nil, n)

ExprFrom(in, b, tok) == ExprOf(tok, From(b, tok.n), Len(in) - Len(b) + tok.n)
ExprIn(in, b) == ExprFrom(in, b, nextToken(b))
parseExpr(in) == ExprIn(in, SkipSpace(in))

\* The loop of parseExprList over what is left.
RECURSIVE Exprs(_, _)
Listed(qs, left) == [err |-> FALSE, qs |-> qs, left |-> left]

AfterExpr(b, qs, e) ==
  IF e.err THEN Failure ELSE IF e.q = nil THEN Listed(qs, b) ELSE Exprs(From(b, e.n), Append(qs, e.q))

AfterToken(b, qs, tok) ==
  IF ~tok.err /\ tok.Type = tokParenClose THEN Listed(qs, b)
  ELSE IF ~tok.err /\ tok.Type = tokOr THEN Exprs(From(b, tok.n), Append(qs, orOperator))
  ELSE AfterExpr(b, qs, parseExpr(b))

ExprsIn(b, qs) == AfterToken(b, qs, nextToken(b))
Exprs(left, qs) == IF left = <<>> THEN Listed(qs, left) ELSE ExprsIn(SkipSpace(left), qs)

\* The last case: of the list applies to all of it.
Cased(list, in) ==
  LET cases == SelectSeq(list.qs, LAMBDA q : q.op = "case")
      k     == IF cases = <<>> THEN "auto" ELSE Last(cases).Flavor
  IN  IF list.err THEN Failure
      ELSE [err |-> FALSE, n |-> Len(in) - Len(list.left),
            qs  |-> Each(SelectSeq(list.qs, LAMBDA q : q.op # "case"), LAMBDA q : setCase(q, k))]

parseExprList(in) == Cased(Exprs(in, <<>>), in)

Simplified(ops) == IF ops.err THEN Failure ELSE [err |-> FALSE, q |-> Simplify(ops.q)]

Joined(list) == IF list.err THEN Failure ELSE Simplified(parseOperators(list.qs))

Parse(text) == Joined(parseExprList(text))

=============================================================================
