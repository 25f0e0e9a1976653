-------------------------- MODULE PostingIterator --------------------------
(***************************************************************************)
(* The loops under a search for an ngram: compressedPostingIterator of     *)
(* hititer.go, which skips in a posting list without decoding all of it,   *)
(* and nextFileIndex of matchiter.go, which finds the document of a hit.   *)
(***************************************************************************)
EXTENDS Codings

(***************************************************************************)
(* An iterator keeps its first hit decoded, and one that runs out while it *)
(* skips keeps the last hit even if that is not past the limit.            *)
(***************************************************************************)
compressedPostingIterator(first, blob) == [it |-> "compressed", first |-> first, blob |-> blob]

newCompressedPostingIterator(b) == compressedPostingIterator(Uvarint(b).n, Slice(b, Uvarint(b).sz, Len(b)))

\* A turn of the loop of next; when its condition fails the loop has ended.
SkipPosting(i, limit) ==
  IF i.first <= limit /\ i.blob # <<>>
  THEN LET u == Uvarint(i.blob)
       IN  compressedPostingIterator((i.first + u.n) % wordBase, Slice(i.blob, u.sz, Len(i.blob)))
  ELSE i

\* A turn takes a byte or more, so that there are at most Len(i.blob) of them.
SkipPostings(i, limit) ==
  LET turn[k \in 0..Len(i.blob)] == IF k = 0 THEN i ELSE SkipPosting(turn[k - 1], limit) IN turn

nextPosting(i, limit) ==
  IF limit = maxUInt32 \/ (i.first <= limit /\ i.blob = <<>>) THEN compressedPostingIterator(maxUInt32, <<>>)
  ELSE SkipPostings(i, limit)[Len(i.blob)]

(***************************************************************************)
(* nextFileIndex gallops: it doubles its step while that stays before the  *)
(* end it looks for, and else shortens it.                                 *)
(***************************************************************************)
\* A turn; s has the index reached, and the step.
Gallop(s, offset, ends) ==
  IF s.f >= Len(ends) \/ ends[s.f + 1] > offset THEN s
  ELSE IF s.f + s.d < Len(ends) /\ ends[s.f + s.d + 1] <= offset THEN [f |-> s.f + s.d, d |-> s.d * 2]
  ELSE IF s.d > 1 THEN [s EXCEPT !.d = @ \div 4 + 1]
  ELSE [s EXCEPT !.f = @ + 1]

\* Every turn brings 2 * (Len(ends) - f) + d down.
GallopLoop(offset, f, ends) ==
  LET turn[k \in 0..(2 * Len(ends) + 1)] == IF k = 0 THEN [f |-> f, d |-> 1] ELSE Gallop(turn[k - 1], offset, ends)
  IN  turn

nextFileIndex(offset, f, ends) == GallopLoop(offset, f, ends)[2 * Len(ends) + 1].f
=============================================================================
