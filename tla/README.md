# Verification of zoekt in TLA+

zoekt indexes source code into *shards* (files of trigram postings) and serves
searches from them. This directory holds TLA+ modules that model its moving
parts, TLC configurations that check them on small instances, and TLAPS proofs
for every instance. `PROJECT.json` lists components, runs, mutations, hazards
and theorems, and maps every definition to the lines it models.

## The system and its inventory

| Part | Source | State that changes | Modelled by |
|---|---|---|---|
| Shard lock | `shards/shards.go` rlock, lock; `semaphore.Weighted` | tokens, waiters | `ShardLock` |
| Sharded searcher | `shards/shards.go` | map of shards, running calls, workers, mappings | `ShardedSearcher` |
| Directory watcher | `shards/watcher.go` | timestamps, events, what is loaded | `DirectoryWatcher` |
| Shard builder | `build/builder.go` | todo, shard jobs, temporary files, index files | `Builder` |
| Index queue | `cmd/zoekt-sourcegraph-indexserver/queue.go` | items, heap | `IndexQueue` (abstract), `IndexHeap` |
| Sourcegraph index server | `cmd/zoekt-sourcegraph-indexserver/main.go`, `sem.go` | queue, sync state, jobs, index directory | `IndexServer` |
| Git indexing | `gitindex/git.go`, `tree.go` | none that outlives a run | `GitIndex` |
| Symbols | `build/ctags.go`, `ctags/` | none | not modelled: never run |
| Index construction | `indexbuilder.go`, `bits.go` | postings, samples, sections | `Codings`, `RuneText`, `Bits`, `IndexBuilder` |
| Index file | `write.go`, `read.go`, `section.go`, `toc.go`, `indexfile_linux.go` | bytes of a file | `IndexSections`, `IndexFile` |
| Queries and their parser | `query/` | none: rewriting of trees | `Query`, `QueryParse` |
| Posting and document iterators | `hititer.go`, `matchiter.go`, `indexdata.go` | positions | `PostingIterator`, `HitIterators` |
| Match trees | `matchtree.go` | prepared document, known results | `MatchTree` |
| Content and lines | `contentprovider.go` | none: runes to bytes to lines | `RuneText`, `ContentProvider` |
| Document loop | `eval.go` | files found, statistics, limits | `SearchLoop`, `DocumentSearch` |
| RPC client | `rpc/rpc.go`, `rpc/internal/srv`, vendored `keegancsmith/rpc/client.go` | connection, generation, calls | `RpcClient` |
| Standalone index server, mirrors, command-line tools | `cmd/` | directories | not modelled |
| Web server | `web/` | none | not modelled |

How they interact: an index server decides which repository to index at which
commit (queue) and runs an indexer; it walks the trees of the commit and hands
documents to a builder, which makes shards of them and
writes these as files into a directory. The watcher of a search server notices
the files and calls load and drop of the sharded searcher; searches, which may
come over RPC, run on the shards that are loaded, under a lock that loads take
as writers. In each shard a query is parsed, simplified, turned into a match tree
over posting lists and evaluated document by document.

The modules come in two families. `ShardLock` to `IndexServer` and `RpcClient` are
about *concurrency and faults*: data is reduced to versions, ranks and tokens.
`Codings` to `DocumentSearch` are about *one shard*: a sequential pipeline from a git
repository to search results, checked against what a plain reading of the texts
says. `Builder` meets both: its shards are the files of the second family.

## Modules

**`ShardLock`**: `semaphore.Weighted` as the searcher uses it. `cur`, `waiters`
are the fields of `Weighted`; `holders` is the set of calls whose Acquire
returned. `Acquire` is the locked part of Acquire, `CancelAcquire` a context
that ends while waiting, `Release` a release with the grants it makes. Readers
ask for one token, writers for all.

**`ShardedSearcher`** extends it. `shards` is the map, `mapping` tells which
index files are mapped, `pc`, `ctx`, `task`, `matches`, `skipped` belong to
calls of Search and List, `wpc` and `target` to calls of load, drop and Close.
Workers take shards from `feeder` by rank, answer ok, with an error or as
crashed; the collector counts matches, cancels above the limit and returns
early on an error. `replace` under the lock closes the old shard. Close closes all
shards and leaves them in the map; calls may come before and after it.

**`DirectoryWatcher`**: the files under each name with content and modification
time, and the watcher's Glob, Lstat, comparison, drops, parallel loads and event
loop as separate steps, between which files change. Its specification is
`WatchSpec`, with `WatchInit` and `WatchNext`.

**`Builder`**: Add, flush, parallel shard jobs, Finish with its rename and delete
loops. Several builds of one repository follow each other on one directory;
writes, renames and removals may fail, and the process may be killed. `leftover` is
a history variable: the shards of the build whose temporary file could not be renamed
or removed.

**`IndexQueue`** is what the queue promises: the repositories in the order they
were added, stale ones first. **`IndexHeap`** is the code: `items` with the place
each has in the heap `pq`. The operations enter `container/heap` (external, from
how queue.go calls it), whose loops up and down are steps of their own: `loop` says
which loop runs, `at` where it is and `from` where it began; each step makes one
swap or ends the loop. The queue's mutex keeps other operations out meanwhile. `queue` is a
history variable, what `IndexQueue` would hold; the heap is shown to implement it.

**`IndexServer`** uses `IndexQueue`: listRepos, the resolve goroutines bounded
by a semaphore, deleteStaleIndexes, the main loop, HTTP requests that index past
the queue, and the services around them: HEADs that move, repositories enabled
and disabled, failures, restarts. The index of a repository is one value that
a job replaces in a step; `Builder` models what is inside that step. Commit 0
stands for the empty commit and for the dummy commit of an empty shard.

**`RpcClient`**: callers that share one connection. `mu`, `cl`, `gen` are the
fields of client; `conns` remembers every connection ever dialed. `Lock`,
`GetCurrent`, `Dial` and `DialFails` are getRPCClient, the steps from `Send` to
`CtxDone` are call and the Go and Call of the vendored rpc client, `Lose`, `Notice` and `Close`
are what happens to a connection. `met` is a history variable: the callers whose
call has seen a fault.

### One shard

**`Codings`**: varints and numbers of fixed size (external), the deltas of posting
lists, sized deltas and document sections, over bytes of `byteBase` values; the
code's 256 and the runs' 16 are both instances. The loops of this and the next
modules are recursive functions of the number of turns, which is what lets them be
proved about. **`RuneText`**: a text is a sequence of bytes of which four bits are
kept, those by which UTF-8 tells the kinds of bytes apart, so that runes have one to
four bytes and may be broken. It has the loops over `utf8.DecodeRune`: of
newSearchableString, which samples offsets (`RuneSamples`), and of findOffset, which
walks from a sample to a rune (`runeByte`). **`IndexSections`**: sections, the table of
contents and their readers. **`PostingIterator`**: compressedPostingIterator and
nextFileIndex. **`Bits`** adds ngrams and case folding, which may change a rune's
length (a letter like the Kelvin sign).
**`IndexBuilder`**: newSearchableString, CheckText and Add.
**`IndexFile`**: which sections Write makes, and NewSearcher with its checks.
**`GitIndex`**: expandBranches, TreeToFiles with
submodules and the order of documents.
**`ContentProvider`**: from runes back to bytes and to lines with fragments and
scores. **`ShardIndexing`** composes them: `stage` goes from a git repository to
documents, a shard in the making, a file and an open searcher, with one
action per step and per way it can fail; `d` is the opened index. IndexGitRepo gives
documents without symbols, and NewBuilder clears the path of ctags; documents with
symbols and a language come from programs that call the Builder themselves (`AddGiven`).

**`Query`**: queries as records, Simplify, flattening, ExpandFileContent, setCase,
RegexpToQuery, and `regexp` (external) as a matcher by position. **`QueryParse`**: Parse
from symbols. **`HitIterators`**: the posting, merging, distance and document
iterators as values. **`MatchTree`**: newMatchTree, pruning, nextDoc, prepare and
matches with costs and remembered results. **`SearchLoop`** is the course of a request
to one shard and the loop of Search: its limits, counters and ends, with the answers
of the match tree left open. **`DocumentSearch`** composes all of
it with `ShardIndexing`: `StartRequest` parses a request, `BeginSearch` builds the
tree, `NextFile` is one turn of the loop, and `List` and
`Cancel` are actions of their own. Each of them changes the variables of `SearchLoop`
by one of its actions only (`Receive`, `Leave`, `Enter`, `Exhausted`, `StopEarly`, `LookAt`,
`Interrupt`), with what the shard and its tree answer as arguments, so that what is
proved of `LoopSpec` is about these steps. Each property there
compares with a definition that knows nothing of
postings, offsets or trees: `Holds` and `Ranges` read the texts.

### Proofs and instances

**`ShardLock_proofs`, `ShardedSearcher_proofs`, `Builder_proofs`, `IndexHeap_proofs`,
`IndexServer_proofs`, `Serving_proofs`** (of `DirectoryWatcher`, `RpcClient` and
`SearchLoop`)**, `Codings_proofs`** (of `Codings`, `PostingIterator` and
`IndexSections`)**, `RuneText_proofs`**: theorems and proofs. The last two have a
few lemmas on numbers and induction in common: a theorem of `Codings_proofs` is
about any byte base, `RuneText` fixes its own, and neither imports the other.
**`MC...`**: inputs, symmetry sets and
constants that a configuration cannot express.

Definitions called a *mutation* in their comment are not part of any
specification: each is a plausible bug that the property it is listed with in
`PROJECT.json` must catch.

## Runs

| Run | Instance | Shows |
|---|---|---|
| `shardlock` | 3 readers, 2 writers, capacity 2 | tokens accounted for, writers alone, no lost wakeup, FIFO grants, writers served |
| `searcher` | a Search, a List, two loads, a drop, Close; two files | what a call works on stays loaded, and nothing closes it under the call; no mapping leaks; results account for every shard |
| `searcher_live` | a Search, the same writers, two workers | calls, workers and writers end |
| `searcher_closed` | a Search, two loads, a drop | **violation**: see Findings |
| `watcher` | two files, four changes, three clock values | at rest the loader serves the directory; drops follow loads; the watcher comes to rest |
| `builder` | two builds of up to three documents, serial and parallel | the index is that of the last good build, every document once, no temporary file but those whose write, rename or removal failed, Finish returns |
| `builder_frankenstein` | the same | **violation**: see Findings |
| `indexheap` | four repositories, two commits, five insertions | stored places are right; the heap implements the queue |
| `indexserver` | two repositories, two commits, two changes, one fault | no stale repository is forgotten; indexes converge to the enabled HEADs |
| `search` | some 450 repositories and lists of documents, of up to five files in up to two branches; seven are searched, three of them with some 330 requests each | each branch sees its commit; posting lists and rune offsets are exact; Add accepts what IndexGitRepo collects, and what was written can be opened; searches find the files and the bytes the query means, stop only at a limit; parsing keeps the meaning |
| `rune_offsets` | one file of five four-byte runes | **violation**: see Findings |
| `rpc` | two callers, three faults | an old fault costs a second try only; only dead connections are replaced; calls return if the network keeps nobody for ever |

Why these bounds are enough to be interesting. With capacity 2 a writer blocks
on one reader and a reader behind it queues although a token is free. Two loads
of one file make replace displace a shard; one shard's error needs a second
shard still in flight. Three clock values and four changes allow replacement
within one timestamp as well as delete, create, delete. A shard limit of 2 and
document sizes 1 and 3 give shards closed by one large document, by two small
ones and by the end. Four heap items are the least for which Down has a choice
of children two levels deep. In `indexserver` two changes suffice for a push that
races the main loop or an HTTP request, and one fault for each failing call and
for a restart at any point. Two callers and three faults let both find the same
connection dead, one of them with a generation that is two behind. Symmetry is
used where only safety is checked.

In `search` the constants of the code are scaled down so that their limits are
met: a sample every 5 runes instead of 100, at most 12 different trigrams instead
of 20000 and 16 bytes a file. The repositories share, change and drop
files between branches, mix every kind of content (plain, wide, broken runes,
empty, short, binary, too large), have submodules that are missing, broken, nested
or turn into directories. Lists of documents given to the Builder have symbols that
overlap, are out of order, empty or reach behind the text. The requests are the words, regular expressions
and atoms of `MCDocumentSearch`, their negations, all pairs under and/or, and
nested trees of three, under each flavour of case:, once or twice, at the top, under
or and in groups, with quotes, escapes and malformed texts, and with limits of 0 to 2.
Patterns of four and more runes make
the distance iterator use two ngrams; those of less than three make brute force.

`CHECK_DEADLOCK FALSE` marks systems that really stop: calls return, builds end,
the watcher is closed, a search is over, budgets run out. `ShardLock`, `IndexHeap`,
`IndexServer` and `RpcClient` run for ever and are checked for deadlock.

### Fairness

Weak fairness of steps that the Go scheduler runs once they can: the goroutines
of a call and its writers, the watcher's scan, the builder's jobs and Finish,
the server's loops, with external commands and requests assumed to return. No
fairness is assumed of callers, of changes of files and HEADs, of failures or
kills. Liveness is stated for finitely many changes and failures (the bounds).
In `ShardLock` holders are assumed to release, which `CallsEnd` and `WritersEnd` show
for the searcher. In `RpcClient` the steps of a call that no network
delays are weakly fair, and the mutex strongly: Go's mutex hands over to a waiter it
has starved. Nothing is assumed of dials, writes and answers, which have no
deadline (`client.go:268-280` reads the answer to CONNECT without one, and the
mutex is held meanwhile): `CallsReturn` has as its hypothesis that no caller stays on
the network for ever.

### Findings

* `searcher_closed`: Search returns on the first shard error (`shards.go:177`)
  and the deferred runlock frees the lock while other workers still search; a
  waiting replace then unmaps the shard a worker reads. The comment at
  `shards.go:133` says this is what the critical section prevents. The theorem
  `NoUseAfterReplace` shows that for replace and drop the error return is the only way.
  The other way to search a closed shard is a call that gets the lock after Close.
* `builder_frankenstein`: Finish renames shard by shard (`builder.go:255`); a
  failed rename or a kill in between leaves shards of two builds together, which
  the comment at `builder.go:94` says is avoided.
* `rune_offsets`: findOffset (`contentprovider.go:120`) reads three bytes for every
  rune of an interval, but a rune may have four. Behind more than 75 such runes in
  an interval of 100 the walk stands still and gives a wrong offset, where
  `indexbuilder.go:47` says that walking finds the precise one. In the other
  runs' texts, with fewer of them, `OffsetsExact` holds.

## Proofs

All proofs are for arbitrary constants under the named ASSUMEs. Besides the
theorems below, `LockTypes`, `SearcherTypes`, `WatchTypes`, `BuilderTypes`, `ServerTypes`
and `RpcTypes` prove the type invariants, on which the others rest.

* `LockCountsTokens`, `LockExcludes`, `LockWakes`, `LockFIFO` (`ShardLock_proofs`): token
  accounting, exclusion of writers, no lost wakeup and FIFO order. The inductive
  invariant `LockInv` adds that nobody queues twice or queues while holding. Weights
  add up over disjoint sets of calls (`WeightAdds`), so two holders, one a writer,
  would exceed the capacity. No wakeup is lost although a cancelled waiter wakes
  nobody: only readers give up, and a reader at the front means that no token is
  free.
* `SearchKeepsShards`, `CallsKeepShards`, `ReplaceLeaksNothing`, `SearchAccounts`,
  `NoUseAfterReplace` (`ShardedSearcher_proofs`):
  every step of the searcher is a step of the lock or leaves it alone, so the
  lock's invariant carries over; `LockMatchesCalls` ties holding the lock to what
  a call is doing; hence replace and Close exclude calls, a call's snapshot is the
  map throughout, and no step closes a shard of it. `MapByTarget`, `MappingByProgress`
  (a mapping closed while loaded was closed by a Close that is over) and
  `SkipsFollowContext` are the strengthenings that make the conjunction
  `SearcherInv` inductive. `NoUseAfterReplace` assumes that no shard search ends
  in an error.
* `HeapKnowsPlaces`, `HeapImplementsQueue` (`IndexHeap_proofs`), for any repositories
  and any number of operations. `HeapInv` is the inductive invariant: the types,
  `PlacesKnown`, `LoopInHeap` (where a running loop stands), `HeapOrdered` (every item
  but the one a loop moves is in order with its parent, and the children of a
  moving item with its parent) and `QueueByTime` (the queue lists what the heap
  holds, by the numbers AddOrUpdate gives). That Pop takes the first item follows
  from the order along paths to the root: of the items that would go before the
  root take the one with the least place; its parent would be another
  (`RootIsNext`). A swap changes no queue, and so stutters.
* `NoneForgotten` (`IndexServer_proofs`): `NoForgottenRepo` alone is not
  inductive, since SetIndexed with an old commit makes a repository stale.
  `NewerIsQueued` says what saves it: a commit that arrived during the job has put
  the repository back on the queue.
* `ServerUsesQueue` (`IndexServer_proofs`): every step of the server is, for the queue,
  a step of `IndexQueue`, a restart, or nothing. With `HeapImplementsQueue` the server
  can be read with the heap of queue.go in the place of its queue.
* `DropsAreOfLoads`, `RestIsCurrent` (`Serving_proofs`): the clock orders
  what scan saw, what it loaded and what is on disk (`TimesOrdered`), so that at
  rest equal times mean the same file or a replacement within one tick.
* `IndexReplacedAsAWhole`, `NoDocumentLost`, `NoTempsLeft` (`Builder_proofs`), for any
  number of builds, documents, sizes and jobs. `BuilderInv` adds to the three
  properties: `Placed` (a document is in todo or in exactly one job), `Numbered`
  (jobs are exactly the numbers below nextShardNum), `TempsOwned` (who a temporary
  file belongs to) and `LoopsInv`, what is on disk in the middle of the rename and
  delete loops: there is a number of shards N such that the finished ones below
  N that are renamed are of this build, those from N to nextShardNum are gone and
  the rest are still of the last build.
* `CallsHeal`, `RedialSafe`, `RpcTypes` (`Serving_proofs`): a caller that is to
  redial for the current generation knows its connection to be dead; one with an
  older generation has noticed the end of every later connection (`CallerInv`).

* `DeltasReadBack`, `PostingsExtend`, `SizedDeltasReadBack`, `DocSectionsReadBack`
  (`Codings_proofs`), for every list of uint32 values, in any order, and any even
  byte base of at least 4: what is read from posting lists, sized deltas and
  sections is what was written, differences that wrap around included; and
  posting lists extended one offset at a time, as newSearchableString does, are the
  deltas of the whole list. Induction is by the least counterexample (`LeastNat`,
  from the library's well-founded minimum): the least number of turns at which a
  loop is not yet defined (`ShiftedTurns`, `DigitsTurns`, `DeltasTurns`, `ReadTurns`), or at
  which reading has not given the first offsets back (`ReadLoopReads`). A varint ends
  at its only unmarked byte (`UvarintEnds`), so it is read whatever follows it.
* `IteratorSkips` (`Codings_proofs`): on the posting list of any offsets next moves
  the iterator to the first offset behind the limit, and its blob to what follows
  that offset (`Stands` says so of an iterator); if there is none, it stays at the
  last offset and the next call ends it. `NextFileFound`: the
  galloping loop of nextFileIndex ends, and gives the first document that ends
  behind the offset; the bound on its turns, 2 * (documents left) + step, comes
  down with each of them.
* `SamplesExact`, `RuneByteFound`, `ThreeBytesEnough` (`RuneText_proofs`), for every text, any
  sampling frequency and broken runes included. The samples that
  newSearchableString adds, document by document, are those of the corpus as one
  text (`NothingSampled` is where it starts); from a sample the walk of findOffset
  comes to the byte of a rune exactly when what was read there reaches it; three
  bytes for each rune of an interval do if no rune has four. The argument is that
  where a rune ends depends on its first bytes only, so that two texts that agree
  from a place on are walked alike (`WalksTogether`).
* `SectionsReadBack` (`Codings_proofs`): whatever sections are written, in any order,
  with any items and any such byte base, readTOC accepts the file and every section
  is read back through its entry: the blob of a simple one, the items of a compound
  one by relativeIndex, all within the bounds that Read checks; the length of the
  file is to be a uint32, as the code's offsets are. Besides bytes the items may hold
  values of any set `JsonCells`, as the model's JSON blobs do.
* `LimitsHold`, `CountsHold`, `LoopAdvances` (`Serving_proofs`): for any shard, limits,
  cancellation and answers of a match tree, the loop of Search stops early only when cancelled or
  full, its counters are those of its files, and each turn passes a document. The
  inductive invariant `LoopInv` says of a running loop that the files are of
  different documents up to lastDoc, that counters and cardinalities agree, and
  that without its last file it was not full.

Only model-checked:

* liveness (`WriterServed`, `CallsEnd`, `WorkersEnd`, `WritersEnd`, `ComesToRest`,
  `FinishReturns`, `IndexesConverge`, `CallsReturn`): the prover does no fairness;
* the properties of one shard as a whole (`BranchViews`, `PostingsExact`,
  `OffsetsExact`, `DocumentsAccepted`, `FilesFound`, `MatchesExact`,
  `ParseKeepsMeaning`): queries, match trees, git trees and regular expressions are
  recursive data, parsed and matched by recursive operators, which the prover does
  not handle. Of what they rest on, the codings, the sections of a file, the rune
  offsets, the skipping of iterators and the document loop are proved.

## Abstractions

In the runs bytes have 16 values. One shard is searched at a time, with rank 0; how shards are
combined is in `ShardedSearcher`. Scores are whole numbers on a common scale.
Regular expressions match no empty text, have no character classes, and
alternatives have no common prefix that the syntax package would factor out. The
counters of loaded bytes are left out. A submodule keeps its URL across branches,
and the branches asked for expand to distinct names. JSON is a cell from which
the value comes back. The cached data of a document in contentProvider is not
kept, since setDocument resets it. The files read are those that Write wrote.

Met on the way and worth knowing, though no document says otherwise:
a negation without an operand parses to Not{nil}, and one before case: to a Not around
it, which newMatchTree does not expect (the sharded searcher recovers and counts the
shard as crashed; no request of the run `search` is such a query); an unmatched `)` or a
newline silently ends a query; gatherBranches shifts a uint32, so that of 64 branches
only the first 32 would have names;
`(?i)` on a literal is dropped by RegexpToQuery; an empty RepoSet is true for
query.Simplify and false for indexData.simplify; a posting iterator whose list runs
out may stay at or below the limit it was to pass, which its callers make good;
documents are decoded one by one when they are indexed but as one corpus when
findOffset walks, so that a document that starts with continuation bytes behind one
that ends in a broken rune shifts the offsets after it (the hypothesis `StartsWhole` of
`SamplesExact`); the incremental check compares commits only and looks at shard 0 only, so that an
index torn by a kill counts as complete.

## Not modelled

* The *composition of the index server with the builder's files*: `IndexServer`
  replaces an index in one step. What it would add is an index torn by a kill,
  whose states `builder_frankenstein` shows.
* The *standalone index server* (`cmd/zoekt-indexserver`): goroutines that share
  only directories and run external commands in loops. Its refresh retries
  without a pause when FindGitRepos fails.
* *Damaged files*: the bounds checks are modelled, but files come from Write.
* *ctags* (`build/ctags.go`, `ctags/`): SetDefaults clears its path (`builder.go:119-120`),
  so that it never runs. *Cloning*, the repository cache on disk, and names and URL
  templates from git configurations.
* *RPC*: encoding; Close before the first call, which dereferences nil.
* Formatting, logging, flags, memory profiles and statistics of bytes.
* The *web server*, the *mirror tools* and the other *commands*: they keep no
  state, or call what is modelled once.
* Repositories whose indexing fails for ever: the faults of `IndexServer` are
  bounded.
