------------------------------ MODULE GitIndex ------------------------------
(***************************************************************************)
(* gitindex/git.go and gitindex/tree.go: the documents of a git            *)
(* repository.                                                             *)
(*                                                                         *)
(* A git repository g has its Branches, a sequence of names; its Head; the *)
(* tree each branch is at (heads[b], [commit, tree]); and the repository   *)
(* cache, in which cache[url][commit] is a tree.  A tree has entries, from *)
(* paths to [Mode, ID]; the URLs that .gitmodules gives to paths; and      *)
(* badModules when that file does not parse.                               *)
(***************************************************************************)
EXTENDS IndexBuilder

Slash == 3

\* filepath.Join
Join(p, q) == IF p = <<>> THEN q ELSE IF q = <<>> THEN p ELSE p \o <<Slash>> \o q

FullPath(k) == Join(k.SubRepoPath, k.Path)

\* A pattern that every branch matches.
anyBranch == <<NUL>>

\* The branches of g that are asked for, under their own names.
expandBranches(g, bs) ==
  FlattenSeq([i \in DOMAIN bs |-> CASE bs[i] = HEAD -> <<g.Head>>
                                    [] bs[i] = anyBranch -> g.Branches
                                    [] OTHER -> <<bs[i]>>])

(***************************************************************************)
(* TreeToFiles: files maps the keys of the blobs to the URL of their       *)
(* repository, versions the paths of submodules to commits.  A submodule   *)
(* without an entry, a repository or a commit is left out, and one whose   *)
(* own tree fails keeps its version.                                       *)
(***************************************************************************)
RECURSIVE TreeToFiles(_, _, _)

handleSubmodule(t, cache, p) ==
  LET url == t.modules[p]
      sub == TreeToFiles(cache[url][t.entries[p].ID], url, cache)
      At(k) == [k EXCEPT !.SubRepoPath = Join(p, @)]
  IN  [files |-> IF sub.err THEN <<>>
                 ELSE [key \in {At(k) : k \in DOMAIN sub.files} |->
                         sub.files[CHOOSE k \in DOMAIN sub.files : At(k) = key]],
       versions |-> (p :> t.entries[p].ID) @@
                    IF sub.err THEN <<>>
                    ELSE [path \in {Join(p, q) : q \in DOMAIN sub.versions} |->
                            sub.versions[CHOOSE q \in DOMAIN sub.versions : Join(p, q) = path]]]

TreeToFiles(t, url, cache) ==
  LET own  == {[SubRepoPath |-> <<>>, Path |-> p, ID |-> t.entries[p].ID] :
                 p \in {p \in DOMAIN t.entries : t.entries[p].Mode \in {"regular", "executable"}}}
      subs == {p \in DOMAIN t.entries :
                 /\ t.entries[p].Mode = "submodule"
                 /\ p \in DOMAIN t.modules
                 /\ t.modules[p] \in DOMAIN cache
                 /\ t.entries[p].ID \in DOMAIN cache[t.modules[p]]}
      Join2(acc, p) == LET s == handleSubmodule(t, cache, p)
                       IN  [acc EXCEPT !.files = s.files @@ @, !.versions = s.versions @@ @]
      all  == FoldLeft(Join2, [files |-> [k \in own |-> url], versions |-> <<>>, err |-> FALSE], SetToSeq(subs))
  IN  IF t.badModules THEN [files |-> <<>>, versions |-> <<>>, err |-> TRUE] ELSE all

(***************************************************************************)
(* The loop of IndexGitRepo over the branches.  acc collects the branches, *)
(* the repos of the keys and branchMap; brs is the branch.                 *)
(***************************************************************************)
AddBranch(g, allowMissing, acc, b) ==
  LET tf == TreeToFiles(g.heads[b].tree, g.url, g.cache)
  IN  IF acc.err \/ (allowMissing /\ b \notin DOMAIN g.heads) THEN acc
      ELSE IF b \notin DOMAIN g.heads THEN [acc EXCEPT !.err = TRUE]
      ELSE IF tf.err THEN [acc EXCEPT !.err = TRUE]
      ELSE [acc EXCEPT
              !.Branches  = Append(@, [Name |-> b, Version |-> g.heads[b].commit]),
              !.repos     = tf.files @@ @,
              !.branchMap = [k \in DOMAIN tf.files |-> Append(Get(acc.branchMap, k, <<>>), b)] @@ @,
              !.branchVersions = (b :> tf.versions) @@ @]

ReadBranches(g, allowMissing, bs) ==
  FoldLeft(LAMBDA acc, b : AddBranch(g, allowMissing, acc, b),
           [Branches |-> <<>>, repos |-> <<>>, branchMap |-> <<>>, branchVersions |-> <<>>, err |-> FALSE],
           expandBranches(g, bs))

noVersion == "0"

RepositoryAt(r, p) ==
  [Name     |-> r.repos[CHOOSE k \in DOMAIN r.repos : k.SubRepoPath = p],
   Branches |-> [i \in DOMAIN r.Branches |->
                   [Name    |-> r.Branches[i].Name,
                    Version |-> Get(r.branchVersions[r.Branches[i].Name], p, noVersion)]]]

\* Only those that every branch has (a mutation of SubRepositories).
SubRepositoriesOfAll(r) ==
  LET paths == {k.SubRepoPath : k \in DOMAIN r.repos}
  IN  [p \in {p \in paths : p = <<>> \/ \A b \in DOMAIN r.branchVersions : p \in DOMAIN r.branchVersions[b]} |->
         RepositoryAt(r, p)]

\* SubRepositories; the Name stands for what SetTemplatesFromOrigin makes of the URL.
SubRepositories(r) == [p \in {k.SubRepoPath : k \in DOMAIN r.repos} |-> RepositoryAt(r, p)]

\* The document of a key: a blob above the limit comes without its content.
DocumentOf(r, k, blob, SizeMax) ==
  [Name |-> FullPath(k), Branches |-> r.branchMap[k], SubRepositoryPath |-> k.SubRepoPath,
   Content    |-> IF Len(blob) > SizeMax THEN <<>> ELSE blob,
   SkipReason |-> IF Len(blob) > SizeMax THEN "large" ELSE "",
   Language |-> <<>>, Symbols |-> <<>>]

\* The orders in which the keys are visited: by name, and the keys of one name
\* in the order of a Go map.
KeyOrders(r) ==
  {ks \in SetToSeqs(DOMAIN r.repos) :
     \A i, j \in DOMAIN ks : i < j => ~PathLess(FullPath(ks[j]), FullPath(ks[i]))}

=============================================================================
