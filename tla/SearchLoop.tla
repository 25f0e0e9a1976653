----------------------------- MODULE SearchLoop -----------------------------
(***************************************************************************)
(* The course of a request to one shard, and the loop over documents of    *)
(* indexData.Search in eval.go: what it counts and compares, and when it   *)
(* stops.  What a match tree answers is left open here; DocumentSearch     *)
(* takes these steps with the answers of the match tree it models.         *)
(***************************************************************************)
EXTENDS Integers, Sequences, FiniteSets

VARIABLES
  course,       \* idle, parsed, search, and how it ended: done, listed, skipped, rejected, error, crashed
  bounds,      \* what the loop compares with, once it is entered
  canceled,    \* ctx.Done() is closed
  lastDoc,     \* the document looked at last
  files,       \* res.Files
  stats        \* res.Stats, and importantMatchCount

loopVars == <<course, bounds, canceled, lastDoc, files, stats>>

\* The limits of opts, docCount, d.repoListEntry.Stats.Documents, and the
\* score above which a file is important.
Bounds == [ShardMaxMatchCount : Int, ShardMaxImportantMatch : Int, docCount : Nat, Documents : Nat, threshold : Int]

LoopInit ==
  /\ course = "idle" /\ canceled = FALSE /\ lastDoc = -1 /\ files = <<>>
  /\ bounds = [ShardMaxMatchCount |-> 0, ShardMaxImportantMatch |-> 0, docCount |-> 0, Documents |-> 0, threshold |-> 0]
  /\ stats = [MatchCount |-> 0, FileCount |-> 0, FilesConsidered |-> 0, FilesSkipped |-> 0,
              ShardFilesConsidered |-> 0, important |-> 0]

\* A request arrives; its text is parsed or refused.
Receive(p) ==
  /\ course = "idle" /\ p \in {"parsed", "rejected"}
  /\ course' = p
  /\ UNCHANGED <<bounds, canceled, lastDoc, files, stats>>

\* Somebody else: the client goes away, or the time is up.
Interrupt ==
  /\ course \in {"parsed", "search"} /\ ~canceled
  /\ canceled' = TRUE
  /\ UNCHANGED <<course, bounds, lastDoc, files, stats>>

\* Search returns before its loop, or the request was for List; considered:
\* the estimate of documents.
Leave(p, considered) ==
  /\ course = "parsed" /\ p \in {"done", "listed", "skipped", "error", "crashed"}
  /\ course' = p
  /\ stats' = [stats EXCEPT !.ShardFilesConsidered = considered]
  /\ UNCHANGED <<bounds, canceled, lastDoc, files>>

Enter(b) ==
  /\ course = "parsed" /\ ~canceled
  /\ course' = "search"
  /\ bounds' = b
  /\ UNCHANGED <<canceled, lastDoc, files, stats>>

(***************************************************************************)
(* A turn of the loop, with mt.nextDoc() for answer.                       *)
(***************************************************************************)
nextDoc(answer) == IF answer <= lastDoc THEN lastDoc + 1 ELSE answer

\* One match more than allowed (a mutation of limitReached).
limitPassed == stats.MatchCount > bounds.ShardMaxMatchCount \/ stats.important > bounds.ShardMaxImportantMatch

limitReached == stats.MatchCount >= bounds.ShardMaxMatchCount \/ stats.important >= bounds.ShardMaxImportantMatch

\* The orders by falling score; sort.Sort is free to order files of the same
\* score.
Orders(fs) ==
  {p \in [DOMAIN fs -> DOMAIN fs] : /\ \A i \in DOMAIN fs : \E j \in DOMAIN fs : p[j] = i
                                   /\ \A i, j \in DOMAIN fs : i < j => fs[p[i]].Score >= fs[p[j]].Score}

SortFilesByScore(fs) == {[i \in DOMAIN fs |-> fs[p[i]]] : p \in Orders(fs)}

Returns == course' = "done" /\ files' \in SortFilesByScore(files) /\ UNCHANGED <<bounds, canceled>>

Exhausted(k) ==
  /\ course = "search" /\ k >= bounds.docCount
  /\ Returns
  /\ UNCHANGED <<lastDoc, stats>>

StopEarly(k) ==
  /\ course = "search" /\ k < bounds.docCount
  /\ canceled \/ limitReached
  /\ lastDoc' = k
  /\ stats' = [stats EXCEPT !.FilesSkipped = @ + bounds.Documents - k]
  /\ Returns

important(f) == f.Score > bounds.threshold

\* The tree is asked about document k.  That it does not decide is a panic;
\* found has the FileMatch of the document if it matches, else nothing.
LookAt(k, decided, found) ==
  /\ course = "search" /\ k < bounds.docCount /\ ~canceled /\ ~limitReached
  /\ lastDoc' = k
  /\ course' = IF decided THEN "search" ELSE "crashed"
  /\ files' = files \o found
  /\ stats' = [stats EXCEPT !.FilesConsidered = @ + 1,
                            !.MatchCount = IF found = <<>> THEN @ ELSE @ + Len(found[1].LineMatches),
                            !.FileCount = @ + Len(found),
                            !.important = IF found # <<>> /\ important(found[1]) THEN @ + 1 ELSE @]
  /\ UNCHANGED <<bounds, canceled>>

FileMatchOf(f, k) == f.doc = k /\ f.Score \in Int /\ Len(f.LineMatches) \in Nat

LoopNext ==
  \/ \E p \in {"parsed", "rejected"} : Receive(p)
  \/ Interrupt
  \/ \E p \in {"done", "listed", "skipped", "error", "crashed"}, n \in Nat : Leave(p, n)
  \/ \E b \in Bounds : b.Documents = b.docCount /\ Enter(b)       \* indexData.verify
  \/ \E answer \in Nat : LET k == nextDoc(answer) IN
       \/ Exhausted(k)
       \/ StopEarly(k)
       \/ \E decided \in BOOLEAN : LookAt(k, decided, <<>>)
       \/ \E f : FileMatchOf(f, k) /\ LookAt(k, TRUE, <<f>>)

LoopSpec == LoopInit /\ [][LoopNext]_loopVars

(***************************************************************************)
(* Properties.                                                             *)
(***************************************************************************)
FilesIn(fs) == {fs[i] : i \in DOMAIN fs}

FoundFiles == FilesIn(files)

\* The lines of a set of files, each named by its document and its place.
LinesOf(S) == UNION {{f.doc} \X (1..Len(f.LineMatches)) : f \in S}

Full(S) ==
  \/ Cardinality(LinesOf(S)) >= bounds.ShardMaxMatchCount
  \/ Cardinality({f \in S : important(f)}) >= bounds.ShardMaxImportantMatch

(***************************************************************************)
(* A search leaves documents out only if it was cancelled or has as many   *)
(* lines, or important files, as it may have; it says how many it left     *)
(* out; and without the file it found last it would have had less than     *)
(* either (the limits of Search against its statistics).                   *)
(***************************************************************************)
StopsAtLimit ==
  course \in {"search", "done"} =>
    /\ FoundFiles # {} => ~Full({f \in FoundFiles : \E g \in FoundFiles : g.doc > f.doc})
    /\ stats.FilesSkipped > 0 => /\ canceled \/ Full(FoundFiles)
                                 /\ stats.FilesSkipped = Cardinality(lastDoc..(bounds.docCount - 1))
=============================================================================
