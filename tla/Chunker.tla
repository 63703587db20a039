-------------------------------- MODULE Chunker --------------------------------
(***************************************************************************)
(* How a page is cut into overlapping windows of tokens                    *)
(* (ingestion/chunker.py, chunk_page).                                     *)
(*                                                                         *)
(* A page is `total` tokens and the set of positions at which a word       *)
(* starts; its text is left out.  A chunk is the interval of tokens from   *)
(* `from` up to, not including, `to`.  One action is one turn of the loop. *)
(***************************************************************************)
EXTENDS Integers, Sequences

CONSTANTS
  ChunkSize,  \* chunk_size_tokens
  Overlap,    \* chunk_overlap_tokens
  MaxTokens   \* bound: tokens of a page

\* Settings._check_chunking and chunk_page refuse anything else.
ASSUME ChunkerAssumption ==
  /\ ChunkSize \in Nat
  /\ Overlap \in 0 .. ChunkSize - 1
  /\ MaxTokens \in Nat

VARIABLES
  total,     \* tokens of the page
  words,     \* positions at which a word starts
  start,     \* where the next window begins
  chunks,    \* the chunks cut so far, in order
  chunking   \* "idle", "cutting" or "done"

\* Chunk: where it begins and ends in the page.
Spans == [from : 0 .. total, to : 0 .. total]

chunkVars == <<total, words, start, chunks, chunking>>

ChunkInit ==
  /\ total = 0
  /\ words = {}
  /\ start = 0
  /\ chunks = <<>>
  /\ chunking = "idle"

-------------------------------------------------------------------------------
\* The page fits one chunk, whose text may have no token at all; the loop starts
\* otherwise.
ChunkPage ==
  /\ chunking = "idle"
  /\ start' = 0
  /\ \E t \in 0 .. MaxTokens : \E inner \in SUBSET (1 .. t - 1) :
       /\ total' = t
       /\ words' = {0} \union inner
       /\ IF t <= ChunkSize
          THEN chunks' = <<[from |-> 0, to |-> t]>> /\ chunking' = "done"
          ELSE chunks' = <<>> /\ chunking' = "cutting"

\* Nothing is left of a page once it is normalised.
BlankPage ==
  /\ chunking = "idle"
  /\ chunking' = "done"
  /\ UNCHANGED <<total, words, start, chunks>>

\* Where a window edge at p may snap back to.
WordStarts(p) == {q \in words : start < q /\ q <= p}

\* Mutant: the edge snaps to the first word start instead of the last.
SnapsToFirst(p, edge, otherwise) ==
  IF WordStarts(p) = {}
  THEN edge = otherwise
  ELSE edge \in WordStarts(p) /\ \A q \in WordStarts(p) : edge <= q

\* The edge is the last of them, or `otherwise` if there is none.
SnapsTo(p, edge, otherwise) ==
  IF WordStarts(p) = {}
  THEN edge = otherwise
  ELSE edge \in WordStarts(p) /\ \A q \in WordStarts(p) : q <= edge

\* Mutant: the edge moves on to the end of the word it cuts.
EndsAtNextWord(end) ==
  LET after == {q \in words : start + ChunkSize <= q} IN
  IF after = {} THEN end = total ELSE end \in after /\ \A q \in after : end <= q

\* A word longer than the window is cut where it is.
EndsAt(end) ==
  IF start + ChunkSize < total
  THEN SnapsTo(start + ChunkSize, end, start + ChunkSize)
  ELSE end = total

\* Mutant: the overlap is not snapped to a word.
StartsNextUnsnapped(end, next) == next = IF end - Overlap > start THEN end - Overlap ELSE end

\* Mutant: a window that would not move forward skips a token.
StartsNextPastEnd(end, next) == SnapsTo(end - Overlap, next, end + 1)

\* The overlap, unless snapping ate all of it.
StartsNext(end, next) == SnapsTo(end - Overlap, next, end)

CutWindow ==
  /\ chunking = "cutting"
  /\ \E end \in 0 .. total :
       /\ EndsAt(end)
       /\ chunks' = Append(chunks, [from |-> start, to |-> end])
       /\ IF end = total
          THEN chunking' = "done" /\ start' = start
          ELSE chunking' = "cutting" /\ \E next \in 0 .. total : StartsNext(end, next) /\ start' = next
  /\ UNCHANGED <<total, words>>

\* The caller has the chunks of the page.
ChunksReturned ==
  /\ chunking = "done"
  /\ total' = 0
  /\ words' = {}
  /\ start' = 0
  /\ chunks' = <<>>
  /\ chunking' = "idle"

ChunkNext == ChunkPage \/ BlankPage \/ CutWindow \/ ChunksReturned

ChunkSpec == ChunkInit /\ [][ChunkNext]_chunkVars

-------------------------------------------------------------------------------
(* Properties.                                                             *)

\* The values the variables take; a chunk is never longer than ChunkSize.
ChunkTypeOK ==
  /\ total \in 0 .. MaxTokens
  /\ words \subseteq 0 .. total
  /\ start \in 0 .. total
  /\ chunks \in Seq(Spans)
  /\ \A i \in 1 .. Len(chunks) : chunks[i].to - chunks[i].from \in 0 .. ChunkSize
  /\ chunking \in {"idle", "cutting", "done"}

\* The chunks cover the page from its first token to its last without a gap, and
\* each begins after the one before it and ends no earlier: nothing is lost
\* wherever the edges snap to, and the loop comes to an end.
NothingLost ==
  /\ \A i \in 1 .. Len(chunks) - 1 :
       /\ chunks[i].from < chunks[i + 1].from
       /\ chunks[i + 1].from <= chunks[i].to
       /\ chunks[i].to <= chunks[i + 1].to
  /\ chunks # <<>> => chunks[1].from = 0
  /\ chunking = "done" /\ chunks # <<>> => chunks[Len(chunks)].to = total
  /\ chunking = "done" /\ chunks = <<>> => total = 0
  /\ chunking = "cutting" /\ chunks # <<>> =>
       chunks[Len(chunks)].from < start /\ start <= chunks[Len(chunks)].to

\* "no chunk ends or begins mid-word" (chunker.py): a chunk ends at a word start or
\* at the end of the page, unless one word fills its window, and begins at a word
\* start, unless the chunk before it was cut there.
EdgesAtWords ==
  \A i \in 1 .. Len(chunks) :
    LET c == chunks[i] IN
    /\ \/ c.to \in words \union {total}
       \/ c.to = c.from + ChunkSize /\ \A q \in words : q <= c.from \/ c.to < q
    /\ c.from \in words \/ (i > 1 /\ c.from = chunks[i - 1].to)

\* No word has more tokens than half of what a window adds to the one before it
\* (170 tokens with the defaults).
WordsAreShort ==
  \A p \in 0 .. total - 1 :
    \E q \in words \union {total} : p < q /\ 2 * (q - p) <= ChunkSize - Overlap + 1

\* "a passage split across a boundary still appears intact in at least one chunk"
\* (chunker.py): of a page without overlong words, any passage no longer than the
\* overlap lies in one chunk, as soon as the windows have passed where it begins.
PassagesIntact ==
  WordsAreShort =>
    \A a \in 0 .. (IF chunking = "done" THEN total ELSE start) - 1, b \in 0 .. total :
      a < b /\ b <= a + Overlap =>
        \E i \in 1 .. Len(chunks) : chunks[i].from <= a /\ b <= chunks[i].to
================================================================================
