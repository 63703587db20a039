------------------------- MODULE MCIngestionPipeline -------------------------
(* A document of up to two pages, of at most two chunks each, and three        *)
(* requests drawn from three payloads and the delete; or four requests that    *)
(* are given, for the race of a delete with an ingest of an existing document. *)
EXTENDS IngestionPipeline, TLC

CONSTANTS long, short, draft, final, r1, r2, r3, r4

MCContents == {long, short}
MCChunkCount == (long :> 2) @@ (short :> 1)
MCRequests == {r1, r2, r3}

Both == (1 :> long) @@ (2 :> short)

\* Against the first, the second shrinks page 1 and drops page 2, and the third
\* changes page 2 and the title.
MCOffered ==
  {Ingest(Both, draft),
   Ingest(1 :> short, draft),
   Ingest((1 :> long) @@ (2 :> long), final),
   Delete}

MCFourRequests == {r1, r2, r3, r4}
MCRaceOffered == {Ingest(1 :> long, draft), Ingest(Both, draft), Delete}

\* A document of one page is created, gains a page while it is deleted, and is
\* ingested again.
MCRaceInit ==
  /\ Init
  /\ op = (r1 :> Ingest(1 :> long, draft)) @@ (r2 :> Ingest(Both, draft))
            @@ (r3 :> Delete) @@ (r4 :> Ingest(Both, draft))

MCRaceSpec == MCRaceInit /\ [][Next]_vars

\* Requests differ only in the operation they draw.
RequestSymmetry == Permutations(Requests)
===============================================================================
