-------------------------- MODULE MCShardIndexing --------------------------
(***************************************************************************)
(* Repositories of up to three files in up to two branches, for TLC.       *)
(***************************************************************************)
EXTENDS ShardIndexing

\* Blobs: letters and lines, runes of one to four bytes, a broken rune, ...
MCBlob == [
  plain   |-> <<6, 7, 6, 1, 6, 7, 6, 7>>,
  wide    |-> <<6, 14, 8, 9, 7, 15, 8, 9, 10, 12, 9, 6, 7, 6>>,
  broken  |-> <<6, 14, 8, 7, 10, 7, 6, 7>>,
  caps    |-> <<4, 7, 6, 1, 14, 8, 10, 7, 6, 2, 6, 5, 6>>,
  lines   |-> <<7, 2, 6, 1, 6, 7, 6, 7, 1, 1, 7, 6, 6>>,
  empty   |-> <<>>,
  small   |-> <<6, 7>>,
  binary  |-> <<6, 0, 7, 6>>,
  large   |-> [i \in 1..20 |-> 6 + (i % 2)],
  quads   |-> [i \in 1..20 |-> CASE i % 4 = 1 -> 15 [] i % 4 = 2 -> 8 [] i % 4 = 3 -> 9 [] OTHER -> 10] ]

f1 == <<6>>
f2 == <<7, 7, 6>>
f3 == <<6, Slash, 7>>
sub == <<6>>

\* Branches, one with the name of the other in its own, and repositories.
m    == <<6, 7>>
n    == <<6, 7, 7>>
x    == <<5>>
root == <<7, 6>>
lib  == <<7>>
deep == <<6>>

NoMod == [p \in {} |-> lib]
File(id) == [Mode |-> "regular", ID |-> id]
Tree(entries) == [entries |-> entries, modules |-> NoMod, badModules |-> FALSE]
With(entries, modules) == [Tree(entries) EXCEPT !.modules = modules]

Git(heads, cache) ==
  [url |-> root, Head |-> m, Branches |-> SelectSeq(<<m, n>>, LAMBDA b : b \in DOMAIN heads),
   heads |-> [b \in DOMAIN heads |-> [commit |-> IF b = m THEN "cm" ELSE "cn", tree |-> heads[b]]], cache |-> cache]

Input(git) ==
  [git |-> git, branches |-> <<anyBranch>>, allowMissing |-> FALSE, incremental |-> FALSE, versions |-> <<>>,
   mustSucceed |-> FALSE, given |-> <<>>, requests |-> {}]

NoCache == [p \in {} |-> <<>>]

\* Two branches that share, change or drop files.
Trees == UNION {[S -> {File("plain"), File("wide")}] : S \in SUBSET {f1, f2}}
Shared == {Input(Git((m :> Tree(s)) @@ (n :> Tree(t)), NoCache)) : s \in Trees, t \in Trees}

\* Every mix of three contents.
Mixes == {Input(Git(m :> Tree((f1 :> File(a)) @@ (f2 :> File(b)) @@ (f3 :> File(c))), NoCache)) :
            a, b, c \in DOMAIN MCBlob \ {"caps", "lines", "quads"}}

\* A submodule that is, or is not, in the cache; that is a directory in the
\* other branch; one within another.
Cache == (lib :> [c1 |-> With((<<7>> :> File("plain")) @@ (<<6>> :> [Mode |-> "submodule", ID |-> "c2"]), (<<6>> :> deep)),
                   c3 |-> [Tree(<<7>> :> File("wide")) EXCEPT !.badModules = TRUE]])
         @@ (deep :> [c2 |-> Tree(<<7>> :> [Mode |-> "executable", ID |-> "wide"])])
SubTree(c) == With((sub :> [Mode |-> "submodule", ID |-> c]) @@ (f2 :> File("plain"))
                     @@ (<<7>> :> [Mode |-> "symlink", ID |-> "small"]), (sub :> lib))
Subs == {Input(Git((m :> SubTree(c)) @@ (n :> t), Cache)) :
           c \in {"c1", "c3", "c4"}, t \in {SubTree("c1"), Tree(f3 :> File("plain")), [SubTree("c1") EXCEPT !.badModules = TRUE]}}

\* The options.
Plain == Git((m :> Tree(f1 :> File("plain"))) @@ (n :> Tree(f1 :> File("wide"))), NoCache)
Options ==
  {[Input(Plain) EXCEPT !.branches = bs, !.allowMissing = a, !.incremental = TRUE, !.versions = v] :
     bs \in {<<HEAD>>, <<n, x>>, <<m, n, HEAD, n>>}, a \in BOOLEAN,
     v \in {<<>>, <<[Name |-> m, Version |-> "cm"]>>}}
  \cup {[Input(Plain) EXCEPT !.mustSucceed = TRUE]}

\* Documents of a program's own: with sections that Add takes, that overlap,
\* that reach past the end or that begin within a rune; and more languages
\* than a shard has room for.
Sec(start, end) == [Start |-> start, End |-> end]
Doc(name, id, brs, lang, secs) ==
  [Name |-> name, Branches |-> brs, SubRepositoryPath |-> <<>>, Content |-> MCBlob[id], SkipReason |-> "",
   Language |-> lang, Symbols |-> secs]
GivenOn(heads, docs) == [Input(Git(heads, NoCache)) EXCEPT !.given = docs]
Given(docs) == GivenOn(m :> Tree(<<>>), docs)

Sections1 == {<<Sec(4, 6), Sec(0, 3)>>, <<Sec(0, 3), Sec(2, 5)>>, <<Sec(4, 9)>>, <<Sec(0, 8)>>, <<Sec(3, 3)>>}
Sections2 == {<<Sec(0, 4), Sec(11, 14)>>, <<Sec(2, 5)>>, <<Sec(1, 6)>>, <<Sec(5, 9)>>}
GivenDocs == {Given(<<Doc(f1, "plain", <<m>>, <<>>, s), Doc(f2, "wide", <<m>>, root, t)>>) : s \in Sections1, t \in Sections2}
  \cup {Given([i \in 1..k |-> Doc(<<7, i>>, "plain", <<m>>, <<i>>, <<>>)]) : k \in 3..4}
  \cup {[Given(<<Doc(f1, "plain", <<m>>, <<>>, <<>>)>>) EXCEPT !.mustSucceed = TRUE]}

\* Runes of four bytes only.
Quads == {Input(Git(m :> Tree(f1 :> File("quads")), NoCache))}

MCInputs == Shared \cup Mixes \cup Subs \cup Options \cup GivenDocs
=============================================================================
