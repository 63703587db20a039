----------------------------- MODULE ChunkerProofs -----------------------------
(***************************************************************************)
(* Chunker, proved for any chunk size and overlap and pages of any length: *)
(* no token is lost, chunks are cut at words, and a passage no longer than *)
(* the overlap lies in one chunk.                                          *)
(***************************************************************************)
EXTENDS Chunker, TLAPS

\* Where the loop stands between two windows.
LoopInv ==
  /\ chunking = "idle" => chunks = <<>> /\ total = 0 /\ start = 0
  /\ chunking = "cutting" =>
       /\ ChunkSize < total
       /\ start < total
       /\ chunks = <<>> => start = 0
       /\ start \in words \/ (chunks # <<>> /\ start = chunks[Len(chunks)].to)
       /\ chunks # <<>> => chunks[Len(chunks)].to < total

Inv == ChunkTypeOK /\ LoopInv /\ NothingLost /\ EdgesAtWords

-------------------------------------------------------------------------------
(* One window.                                                             *)

\* A window moves forward, is no longer than ChunkSize, ends at a word start unless
\* one word fills it, and ends no earlier than the one before it.
LEMMA WindowFacts ==
  ASSUME Inv, chunking = "cutting", NEW end \in 0 .. total, EndsAt(end)
  PROVE  /\ start < end
         /\ end - start <= ChunkSize
         /\ \/ end \in words \union {total}
            \/ end = start + ChunkSize /\ \A q \in words : q <= start \/ end < q
         /\ end # total => start + ChunkSize < total
         /\ chunks # <<>> => chunks[Len(chunks)].to <= end
<1> USE ChunkerAssumption
<1>1. total \in Nat /\ start \in 0 .. total /\ start < total /\ words \subseteq Int
  BY DEF Inv, ChunkTypeOK, LoopInv
<1>2. /\ start < end
      /\ end - start <= ChunkSize
      /\ \/ end \in words \union {total}
         \/ end = start + ChunkSize /\ \A q \in words : q <= start \/ end < q
      /\ end # total => start + ChunkSize < total
  BY <1>1 DEF EndsAt, SnapsTo, WordStarts
<1>3. ASSUME chunks # <<>> PROVE chunks[Len(chunks)].to <= end
  <2> DEFINE c == chunks[Len(chunks)]
  <2>1. /\ Len(chunks) \in 1 .. Len(chunks) /\ c \in Spans
        /\ c.from \in 0 .. total /\ c.to \in 0 .. total
    <3>1. chunks \in Seq(Spans)
      BY DEF Inv, ChunkTypeOK
    <3>2. Len(chunks) \in 1 .. Len(chunks) /\ c \in Spans
      BY <1>3, <3>1
    <3> QED
      BY <3>2 DEF Spans
  <2>2. c.from < start /\ start <= c.to /\ c.to < total
    BY <1>3 DEF Inv, NothingLost, LoopInv
  <2>3. \/ c.to \in words
        \/ c.to = c.from + ChunkSize /\ \A q \in words : q <= c.from \/ c.to < q
    BY <2>1, <2>2 DEF Inv, EdgesAtWords
  <2>4. start \in words \/ start = c.to
    BY <1>3 DEF Inv, LoopInv
  <2>5. c.to - c.from <= ChunkSize
    BY <2>1 DEF Inv, ChunkTypeOK
  <2>6. CASE c.to \in words /\ start < c.to
    <3>1. c.to <= start + ChunkSize
      BY <1>1, <2>1, <2>2, <2>5
    <3>2. c.to \in WordStarts(start + ChunkSize)
      BY <2>6, <3>1 DEF WordStarts
    <3> QED
      BY <1>1, <2>1, <2>2, <3>2 DEF EndsAt, SnapsTo
  <2>7. CASE start = c.to
    BY <1>1, <1>2, <2>7
  <2> QED
    BY <1>1, <2>1, <2>2, <2>3, <2>4, <2>6, <2>7
<1> QED
  BY <1>2, <1>3

\* The next window begins after this one does and no later than it ends, at a word
\* start unless it begins where this one ends.
LEMMA NextFacts ==
  ASSUME Inv, chunking = "cutting", NEW end \in 0 .. total, EndsAt(end), end # total,
         NEW next \in 0 .. total, StartsNext(end, next)
  PROVE  /\ start < next
         /\ next <= end
         /\ next < total
         /\ next \in words \/ next = end
         /\ WordStarts(end - Overlap) # {} => next <= end - Overlap
<1>1. total \in Nat /\ start \in 0 .. total /\ words \subseteq Int /\ start < end /\ end < total
  BY WindowFacts DEF Inv, ChunkTypeOK
<1> QED
  BY <1>1, ChunkerAssumption DEF StartsNext, SnapsTo, WordStarts

\* Of a page without overlong words, snapping never eats the whole overlap.
LEMMA OverlapSurvives ==
  ASSUME Inv, chunking = "cutting", NEW end \in 0 .. total, EndsAt(end), end # total, WordsAreShort
  PROVE  WordStarts(end - Overlap) # {}
<1> USE ChunkerAssumption
<1>1. /\ total \in Nat /\ start \in 0 .. total - 1 /\ words \subseteq Int
      /\ start < end /\ end < total /\ start + ChunkSize < total
  BY WindowFacts DEF Inv, ChunkTypeOK, LoopInv
<1>2. PICK q \in words \union {total} : start < q /\ 2 * (q - start) <= ChunkSize - Overlap + 1
  BY <1>1 DEF WordsAreShort
<1>3. q \in words /\ q \in Int /\ q <= start + ChunkSize
  BY <1>1, <1>2
<1>4. q \in WordStarts(start + ChunkSize)
  BY <1>2, <1>3 DEF WordStarts
<1>5. \A r \in words : end < r => start + ChunkSize < r
  BY <1>1, <1>4 DEF EndsAt, SnapsTo, WordStarts
<1>6. PICK r \in words \union {total} : end < r /\ 2 * (r - end) <= ChunkSize - Overlap + 1
  BY <1>1 DEF WordsAreShort
<1>7. r \in Int /\ start + ChunkSize < r
  BY <1>1, <1>5, <1>6
<1>8. q <= end - Overlap
  BY <1>1, <1>2, <1>3, <1>6, <1>7
<1> QED
  BY <1>2, <1>3, <1>8 DEF WordStarts

-------------------------------------------------------------------------------
(* The invariant, step by step.                                            *)

LEMMA InitInv == ChunkInit => Inv
  BY ChunkerAssumption DEF ChunkInit, Inv, ChunkTypeOK, LoopInv, NothingLost, EdgesAtWords

LEMMA PageInv == Inv /\ (ChunkPage \/ BlankPage \/ ChunksReturned) => Inv'
<1> SUFFICES ASSUME Inv, ChunkPage \/ BlankPage \/ ChunksReturned PROVE Inv'
  OBVIOUS
<1> USE ChunkerAssumption DEF Inv
<1>1. CASE ChunkPage
  <2>1. PICK t \in 0 .. MaxTokens :
          \E inner \in SUBSET (1 .. t - 1) :
            /\ total' = t
            /\ words' = {0} \union inner
            /\ start' = 0
            /\ IF t <= ChunkSize
               THEN chunks' = <<[from |-> 0, to |-> t]>> /\ chunking' = "done"
               ELSE chunks' = <<>> /\ chunking' = "cutting"
    BY <1>1 DEF ChunkPage
  <2>2. words' \subseteq 0 .. total' /\ 0 \in words' /\ t \in Nat
    BY <2>1
  <2>3. CASE t <= ChunkSize
    <3> DEFINE c == [from |-> 0, to |-> t]
    <3>0. c.from = 0 /\ c.to = t /\ c \in Spans'
      BY <2>1, <2>2 DEF Spans
    <3>1. chunks' = <<c>> /\ chunking' = "done"
      BY <2>1, <2>3
    <3>2. chunks' \in Seq(Spans') /\ Len(chunks') = 1 /\ chunks'[1] = c
      <4> HIDE DEF c
      <4> QED
        BY <3>0, <3>1
    <3>3. \A i \in 1 .. Len(chunks') : i = 1
      BY <3>2
    <3> QED
      BY <2>1, <2>2, <2>3, <3>0, <3>1, <3>2, <3>3 DEF ChunkTypeOK, LoopInv, NothingLost, EdgesAtWords
  <2>4. CASE ~(t <= ChunkSize)
    BY <2>1, <2>2, <2>4 DEF ChunkTypeOK, LoopInv, NothingLost, EdgesAtWords
  <2> QED
    BY <2>3, <2>4
<1>2. CASE BlankPage
  BY <1>2 DEF BlankPage, ChunkTypeOK, LoopInv, NothingLost, EdgesAtWords
<1>3. CASE ChunksReturned
  BY <1>3 DEF ChunksReturned, ChunkTypeOK, LoopInv, NothingLost, EdgesAtWords
<1> QED
  BY <1>1, <1>2, <1>3
LEMMA WindowInv == Inv /\ CutWindow => Inv'
<1> SUFFICES ASSUME Inv, CutWindow PROVE Inv'
  OBVIOUS
<1> USE ChunkerAssumption
<1>1. PICK end \in 0 .. total :
        /\ EndsAt(end)
        /\ chunks' = Append(chunks, [from |-> start, to |-> end])
        /\ IF end = total
           THEN chunking' = "done" /\ start' = start
           ELSE chunking' = "cutting" /\ \E next \in 0 .. total : StartsNext(end, next) /\ start' = next
  BY DEF CutWindow
<1> DEFINE c == [from |-> start, to |-> end]
<1>2. chunking = "cutting" /\ total' = total /\ words' = words
  BY DEF CutWindow
<1>3. /\ total \in 0 .. MaxTokens /\ start \in 0 .. total - 1 /\ words \subseteq 0 .. total
      /\ chunks \in Seq(Spans)
  BY <1>2 DEF Inv, ChunkTypeOK, LoopInv
<1>4. /\ start < end
      /\ end - start <= ChunkSize
      /\ \/ end \in words \union {total}
         \/ end = start + ChunkSize /\ \A q \in words : q <= start \/ end < q
      /\ chunks # <<>> => chunks[Len(chunks)].to <= end
  BY <1>1, <1>2, WindowFacts
<1>5. /\ c \in Spans /\ Spans' = Spans /\ c.from = start /\ c.to = end
  BY <1>2, <1>3 DEF Spans
<1>6. /\ chunks' \in Seq(Spans)
      /\ Len(chunks) \in Nat /\ Len(chunks') = Len(chunks) + 1
      /\ chunks'[Len(chunks')] = c
      /\ \A i \in 1 .. Len(chunks) : chunks'[i] = chunks[i]
  BY <1>1, <1>3, <1>5
<1>7. end # total => /\ start < start' /\ start' <= end /\ start' < total
                     /\ start' \in words \/ start' = end
                     /\ start' \in 0 .. total
  BY <1>1, <1>2, NextFacts
<1>8. chunks # <<>> <=> Len(chunks) > 0
  BY <1>3
<1>9. ChunkTypeOK'
  <2>1. \A i \in 1 .. Len(chunks') : chunks'[i].to - chunks'[i].from \in 0 .. ChunkSize
    BY <1>3, <1>4, <1>5, <1>6 DEF Inv, ChunkTypeOK
  <2> QED
    BY <1>1, <1>2, <1>3, <1>5, <1>6, <1>7, <2>1 DEF ChunkTypeOK
<1>10. LoopInv'
  BY <1>1, <1>2, <1>3, <1>5, <1>6, <1>7 DEF Inv, LoopInv
<1>11. NothingLost'
  <2>1. ASSUME NEW i \in 1 .. Len(chunks') - 1
        PROVE  /\ chunks'[i].from < chunks'[i + 1].from
               /\ chunks'[i + 1].from <= chunks'[i].to
               /\ chunks'[i].to <= chunks'[i + 1].to
    <3>1. CASE i = Len(chunks)
      BY <1>2, <1>4, <1>5, <1>6, <1>8, <3>1 DEF Inv, NothingLost
    <3>2. CASE i # Len(chunks)
      BY <1>5, <1>6, <3>2 DEF Inv, NothingLost
    <3> QED
      BY <3>1, <3>2
  <2>2. chunks'[1].from = 0
    BY <1>2, <1>5, <1>6, <1>8 DEF Inv, NothingLost, LoopInv
  <2> QED
    BY <1>1, <1>2, <1>5, <1>6, <1>7, <2>1, <2>2 DEF NothingLost
<1>12. EdgesAtWords'
  <2> SUFFICES ASSUME NEW i \in 1 .. Len(chunks')
               PROVE  /\ \/ chunks'[i].to \in words \union {total}
                         \/ /\ chunks'[i].to = chunks'[i].from + ChunkSize
                            /\ \A q \in words : q <= chunks'[i].from \/ chunks'[i].to < q
                      /\ chunks'[i].from \in words \/ (i > 1 /\ chunks'[i].from = chunks'[i - 1].to)
    BY <1>2 DEF EdgesAtWords
  <2>1. CASE i = Len(chunks')
    BY <1>2, <1>4, <1>5, <1>6, <1>8, <2>1 DEF Inv, LoopInv
  <2>2. CASE i # Len(chunks')
    BY <1>5, <1>6, <2>2 DEF Inv, EdgesAtWords
  <2> QED
    BY <2>1, <2>2
<1> QED
  BY <1>9, <1>10, <1>11, <1>12 DEF Inv

LEMMA NextInv == Inv /\ [ChunkNext]_chunkVars => Inv'
<1> SUFFICES ASSUME Inv, [ChunkNext]_chunkVars PROVE Inv'
  OBVIOUS
<1>1. CASE UNCHANGED chunkVars
  BY <1>1 DEF chunkVars, Inv, ChunkTypeOK, Spans, LoopInv, NothingLost, EdgesAtWords
<1> QED
  BY <1>1, PageInv, WindowInv DEF ChunkNext

-------------------------------------------------------------------------------
\* The values of the variables, and no chunk longer than the reranker's budget.
THEOREM ChunksFit == ChunkSpec => []ChunkTypeOK
<1>1. Inv => ChunkTypeOK
  BY DEF Inv
<1> QED
  BY <1>1, InitInv, NextInv, PTL DEF ChunkSpec

\* Every token of a page is in a chunk, in order, and each window moves forward.
THEOREM NoTokenIsLost == ChunkSpec => []NothingLost
<1>1. Inv => NothingLost
  BY DEF Inv
<1> QED
  BY <1>1, InitInv, NextInv, PTL DEF ChunkSpec

\* A chunk begins and ends at a word, unless one word fills its window.
THEOREM ChunksKeepWords == ChunkSpec => []EdgesAtWords
<1>1. Inv => EdgesAtWords
  BY DEF Inv
<1> QED
  BY <1>1, InitInv, NextInv, PTL DEF ChunkSpec

-------------------------------------------------------------------------------
(* A passage no longer than the overlap.                                   *)

\* One window keeps the passages that begin before the next one whole.
LEMMA WindowKeepsPassages == Inv /\ PassagesIntact /\ CutWindow => PassagesIntact'
<1> SUFFICES ASSUME Inv, PassagesIntact, CutWindow, WordsAreShort',
                    NEW a \in 0 .. (IF chunking' = "done" THEN total' ELSE start') - 1,
                    NEW b \in 0 .. total', a < b, b <= a + Overlap
             PROVE  \E i \in 1 .. Len(chunks') : chunks'[i].from <= a /\ b <= chunks'[i].to
  BY DEF PassagesIntact
<1> USE ChunkerAssumption
<1>1. PICK end \in 0 .. total :
        /\ EndsAt(end)
        /\ chunks' = Append(chunks, [from |-> start, to |-> end])
        /\ IF end = total
           THEN chunking' = "done" /\ start' = start
           ELSE chunking' = "cutting" /\ \E next \in 0 .. total : StartsNext(end, next) /\ start' = next
  BY DEF CutWindow
<1>2. chunking = "cutting" /\ total' = total /\ words' = words /\ WordsAreShort
  BY DEF CutWindow, WordsAreShort
<1>3. /\ total \in Nat /\ start \in 0 .. total - 1
      /\ chunks \in Seq(Spans)
  BY <1>2 DEF Inv, ChunkTypeOK, LoopInv
<1>4. /\ Len(chunks) \in Nat /\ Len(chunks') = Len(chunks) + 1
      /\ chunks'[Len(chunks')] = [from |-> start, to |-> end]
      /\ \A i \in 1 .. Len(chunks) : chunks'[i] = chunks[i]
  BY <1>1, <1>3
<1>5. /\ a \in Nat /\ b \in 0 .. total /\ a + Overlap \in Nat
      /\ chunking' = "cutting" => start' \in 0 .. total /\ a < start'
  BY <1>1, <1>2, <1>3
<1>6. CASE a < start
  <2>1. \E i \in 1 .. Len(chunks) : chunks[i].from <= a /\ b <= chunks[i].to
    <3>1. a \in 0 .. (IF chunking = "done" THEN total ELSE start) - 1
      BY <1>2, <1>3, <1>5, <1>6
    <3> QED
      BY <1>2, <1>5, <3>1 DEF PassagesIntact
  <2> QED
    BY <1>4, <2>1
<1>7. CASE start <= a
  <2>1. b <= end
    <3>1. CASE end = total
      BY <1>5, <3>1
    <3>2. CASE end # total
      <4>1. PICK next \in 0 .. total : StartsNext(end, next) /\ start' = next
        BY <1>1, <3>2
      <4>2. next <= end - Overlap
        BY <1>1, <1>2, <3>2, <4>1, NextFacts, OverlapSurvives
      <4>3. a < next
        BY <1>1, <1>5, <3>2, <4>1
      <4> QED
        BY <1>3, <1>5, <4>2, <4>3
    <3> QED
      BY <3>1, <3>2
  <2> QED
    BY <1>3, <1>4, <1>7, <2>1
<1> QED
  BY <1>3, <1>5, <1>6, <1>7

LEMMA NextKeepsPassages == Inv /\ PassagesIntact /\ [ChunkNext]_chunkVars => PassagesIntact'
<1> SUFFICES ASSUME Inv, PassagesIntact, [ChunkNext]_chunkVars PROVE PassagesIntact'
  OBVIOUS
<1>1. CASE ChunkPage
  <2>1. PICK t \in 0 .. MaxTokens :
          /\ total' = t
          /\ start' = 0
          /\ \/ chunks' = <<[from |-> 0, to |-> t]>> /\ chunking' = "done"
             \/ chunks' = <<>> /\ chunking' = "cutting"
    BY <1>1 DEF ChunkPage
  <2>2. CASE chunking' = "done"
    <3>1. chunks' = <<[from |-> 0, to |-> t]>>
      BY <2>1, <2>2
    <3>2. 1 \in 1 .. Len(chunks') /\ chunks'[1].from = 0 /\ chunks'[1].to = t
      BY <3>1
    <3> QED
      BY <2>1, <2>2, <3>2 DEF PassagesIntact
  <2>3. CASE chunking' = "cutting"
    BY <2>1, <2>3 DEF PassagesIntact
  <2> QED
    BY <2>1, <2>2, <2>3
<1>2. CASE BlankPage \/ ChunksReturned
  <2>1. total' = 0 /\ start' = 0
    BY <1>2 DEF BlankPage, ChunksReturned, Inv, NothingLost, LoopInv, ChunkTypeOK
  <2> QED
    BY <2>1 DEF PassagesIntact
<1>3. CASE UNCHANGED chunkVars
  BY <1>3 DEF chunkVars, PassagesIntact, WordsAreShort
<1> QED
  BY <1>1, <1>2, <1>3, WindowKeepsPassages DEF ChunkNext

\* What an overlap is for: of a page whose words are short, a passage no longer than
\* the overlap is whole in at least one chunk.
THEOREM OverlapKeepsPassages == ChunkSpec => []PassagesIntact
<1>1. ChunkInit => PassagesIntact
  BY DEF ChunkInit, PassagesIntact
<1> QED
  BY <1>1, InitInv, NextInv, NextKeepsPassages, PTL DEF ChunkSpec
================================================================================
