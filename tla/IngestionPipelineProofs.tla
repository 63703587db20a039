------------------------ MODULE IngestionPipelineProofs ------------------------
(***************************************************************************)
(* IngestionPipeline, proved for any pages, contents and payloads and any  *)
(* number of concurrent requests: type correctness, every page in Qdrant   *)
(* is one content as a whole, what was deleted does not come back, the     *)
(* index is what the page rows say, its chunks cite the row's title, and   *)
(* requests wait for one another in a circle in one way only.              *)
(***************************************************************************)
EXTENDS IngestionPipeline, TLAPS

\* The states of an ingest whose transaction has written the document row.
Writing == {"sync", "metadata", "own", "commit"}

\* Who may be where.  An open ingest holds the document row, so that no other creates
\* it meanwhile; the document of a row never becomes another one.
WhereInv ==
  \A r \in Requests :
    /\ pc[r] \in {"open", "sync", "metadata", "own", "record"} => r \in Ingests
    /\ pc[r] \in {"pages", "mark", "purge", "chunks"} => r \in Deletes
    /\ pc[r] \in {"pages", "mark", "purge", "chunks", "commit", "done"} /\ r \in Deletes =>
         loaded[r] # Nothing
    /\ pc[r] \in Writing /\ r \in Ingests => rowLock = r /\ (IsNew(r) => row = Nothing)
    /\ left[r] # {} => r \in Ingests /\ left[r] \subseteq DOMAIN op[r].pages
    /\ loaded[r] # Nothing => row # Nothing /\ row.id = loaded[r].id

\* All chunks of one content.
WholePage(chunk) ==
  [i \in 1 .. MostChunks |-> IF i <= ChunkCount[chunk.text] THEN chunk ELSE Nothing]

WholePages == {NoChunks} \union {WholePage(chunk) : chunk \in Chunks}

PagesInv == index \in [Requests -> [Pages -> WholePages]]

\* A delete that has removed the chunks left none of those who had ended before it.
GoneInv ==
  /\ \A r \in Requests : before[r] \subseteq Ended
  /\ \A d \in Deletes \ kept : pc[d] \in {"commit", "done"} =>
       \A p \in Pages, i \in 1 .. MostChunks :
         index[loaded[d].id][p][i] # Nothing => index[loaded[d].id][p][i].by \notin before[d]

\* The type invariant without the index, of which PagesInv says more.
Typed ==
  /\ row \in DocumentRows
  /\ pageRow \in [Pages -> Hashes]
  /\ row = Nothing => pageRow = NoPages
  /\ edge \subseteq Requests
  /\ op \in [Requests -> Offered]
  /\ pc \in [Requests -> PCs]
  /\ loaded \in [Requests -> DocumentRows]
  /\ known \in [Requests -> [Pages -> Hashes]]
  /\ staged \in [Requests -> [Pages -> Hashes]]
  /\ left \in [Requests -> SUBSET Pages]
  /\ rowLock \in {Nothing} \union {r \in Requests \ Ended : pc[r] \notin {"begin", "open", "record"}}
  /\ pageLock \in [Pages -> Requests \union {Nothing}]
  /\ torn \subseteq Pages
  /\ kept \subseteq Deletes
  /\ before \in [Requests -> SUBSET Requests]

Inv == Typed /\ WhereInv /\ PagesInv /\ GoneInv

-------------------------------------------------------------------------------
(* Requests and pages.                                                     *)

\* No content has more chunks than MostChunks.
LEMMA MostFacts == MostChunks \in Nat /\ \A c \in Contents : ChunkCount[c] \in 0 .. MostChunks
<1> DEFINE Counts == {ChunkCount[c] : c \in Contents}
<1>1. \E n \in Counts : \A c \in Contents : ChunkCount[c] <= n
  BY PipelineAssumption
<1>2. MostChunks \in Counts /\ \A c \in Contents : ChunkCount[c] <= MostChunks
  BY <1>1 DEF MostChunks
<1>3. \A c \in Contents : ChunkCount[c] \in Nat
  BY PipelineAssumption
<1> QED
  BY <1>2, <1>3

\* What a request was given.
LEMMA OpFacts ==
  ASSUME Typed, NEW r \in Requests
  PROVE  /\ r \in Ingests => /\ op[r].title \in Titles
                             /\ DOMAIN op[r].pages \subseteq Pages
                             /\ \A p \in DOMAIN op[r].pages : op[r].pages[p] \in Contents
         /\ r \in Deletes => op[r] = Delete
<1>1. op[r] \in Operations
  BY PipelineAssumption DEF Typed
<1>2. CASE op[r] = Delete
  BY <1>2 DEF Delete, Ingests, Deletes
<1>3. ASSUME NEW pages \in Payloads, NEW title \in Titles, op[r] = Ingest(pages, title)
      PROVE  /\ op[r].kind = "ingest" /\ op[r].title \in Titles
             /\ DOMAIN op[r].pages \subseteq Pages
             /\ \A p \in DOMAIN op[r].pages : op[r].pages[p] \in Contents
  BY <1>3 DEF Ingest, Payloads, PageSets
<1> QED
  BY <1>1, <1>2, <1>3 DEF Operations, Ingests, Deletes

\* The document a request works on.
LEMMA DocumentFacts ==
  ASSUME Typed, NEW r \in Requests
  PROVE  DocumentId(r) \in Requests
  BY DEF Typed, DocumentRows, Rows, DocumentId, IsNew

\* A whole page is a page of chunks, all of one ingest.
LEMMA WholeFacts ==
  ASSUME NEW chunks \in WholePages
  PROVE  /\ chunks \in [1 .. MostChunks -> Chunks \union {Nothing}]
         /\ LET present == {i \in 1 .. MostChunks : chunks[i] # Nothing}
            IN \A i \in present :
                 /\ present = 1 .. ChunkCount[chunks[i].text]
                 /\ \A j \in present : chunks[j] = chunks[i]
<1>1. CASE chunks = NoChunks
  BY <1>1 DEF NoChunks
<1>2. ASSUME NEW chunk \in Chunks, chunks = WholePage(chunk)
      PROVE  /\ chunks \in [1 .. MostChunks -> Chunks \union {Nothing}]
             /\ LET present == {i \in 1 .. MostChunks : chunks[i] # Nothing}
                IN \A i \in present :
                     /\ present = 1 .. ChunkCount[chunks[i].text]
                     /\ \A j \in present : chunks[j] = chunks[i]
  <2>1. ChunkCount[chunk.text] \in 0 .. MostChunks /\ MostChunks \in Nat /\ chunk # Nothing
    BY MostFacts, PipelineAssumption DEF Chunks
  <2>2. \A i \in 1 .. MostChunks : chunks[i] = IF i <= ChunkCount[chunk.text] THEN chunk ELSE Nothing
    BY <1>2 DEF WholePage
  <2>3. {i \in 1 .. MostChunks : chunks[i] # Nothing} = 1 .. ChunkCount[chunk.text]
    BY <2>1, <2>2
  <2> QED
    BY <1>2, <2>1, <2>2, <2>3 DEF WholePage
<1> QED
  BY <1>1, <1>2 DEF WholePages

\* A page that an ingest stores is whole, and its own.
LEMMA StoredIsWhole ==
  ASSUME Typed, NEW r \in Ingests, NEW p \in DOMAIN op[r].pages, NEW chunks
  PROVE  /\ PageChunks(r, op[r].pages[p], chunks) \in WholePages
         /\ \A i \in 1 .. MostChunks :
              PageChunks(r, op[r].pages[p], chunks)[i] # Nothing =>
                PageChunks(r, op[r].pages[p], chunks)[i].by = r
<1> DEFINE content == op[r].pages[p]
<1>1. content \in Contents /\ op[r].title \in Titles /\ r \in Requests
  BY OpFacts DEF Ingests
<1>2. Chunk(r, content) \in Chunks
  BY <1>1 DEF Chunk, Chunks
<1>3. PageChunks(r, content, chunks) = WholePage(Chunk(r, content))
  BY DEF PageChunks, Upserted, NoChunks, WholePage, Chunk
<1> QED
  BY <1>2, <1>3 DEF WholePages, WholePage, Chunk

\* A page with a new title is whole, and by whom it was.
LEMMA RetitledIsWhole ==
  ASSUME NEW chunks \in WholePages, NEW title \in Titles,
         NEW new, new = [i \in 1 .. MostChunks |->
                          IF chunks[i] = Nothing THEN Nothing ELSE [chunks[i] EXCEPT !.title = title]]
  PROVE  /\ new \in WholePages
         /\ \A i \in 1 .. MostChunks :
              new[i] # Nothing => chunks[i] # Nothing /\ new[i].by = chunks[i].by
<1>1. CASE chunks = NoChunks
  BY <1>1 DEF NoChunks, WholePages
<1>2. ASSUME NEW chunk \in Chunks, chunks = WholePage(chunk)
      PROVE  new \in WholePages
  <2> DEFINE retitled == [chunk EXCEPT !.title = title]
  <2>1. retitled \in Chunks /\ retitled.text = chunk.text /\ chunk # Nothing
    BY PipelineAssumption DEF Chunks
  <2>2. new = WholePage(retitled)
    BY <1>2, <2>1 DEF WholePage
  <2> QED
    BY <2>1, <2>2 DEF WholePages
<1>3. \A i \in 1 .. MostChunks :
        new[i] # Nothing => chunks[i] # Nothing /\ new[i].by = chunks[i].by
  <2>1. chunks \in [1 .. MostChunks -> Chunks \union {Nothing}]
    BY WholeFacts
  <2> QED
    BY <2>1 DEF Chunks
<1> QED
  BY <1>1, <1>2, <1>3 DEF WholePages

-------------------------------------------------------------------------------
(* Chunks.                                                                 *)

\* What a step of r does to Qdrant.
Stores(r) == \E id \in Requests, p \in Pages, new \in WholePages :
  /\ index' = [index EXCEPT ![id][p] = new]
  /\ \A i \in 1 .. MostChunks : new[i] # Nothing => new[i].by = r

Clears == \E id \in Requests, pages \in SUBSET Pages : index' = Cleared(id, pages)

Retitles == \E id \in Requests, title \in Titles : index' = Retitled(id, title)

\* A request that is over takes no step.  The others leave the chunks alone, store a page,
\* clear pages or give them another title.
LEMMA IndexForms ==
  ASSUME Typed, WhereInv, NEW r \in Requests, RequestStep(r)
  PROVE  /\ r \notin Ended
         /\ UNCHANGED index \/ Stores(r) \/ Clears \/ Retitles
<1> USE DocumentFacts
<1>0. NoChunks \in WholePages /\ \A i \in 1 .. MostChunks : NoChunks[i] = Nothing
  BY DEF WholePages, NoChunks
<1>1. ASSUME NEW p \in left[r], SyncPage(r, p) \/ SyncPageFails(r, p)
      PROVE  r \notin Ended /\ (UNCHANGED index \/ Stores(r))
  <2>1. r \in Ingests /\ p \in DOMAIN op[r].pages /\ p \in Pages /\ pc[r] = "sync"
    BY <1>1, OpFacts DEF WhereInv, SyncPage, SyncPageFails
  <2> DEFINE new == PageChunks(r, op[r].pages[p], index[DocumentId(r)][p])
  <2>2. new \in WholePages /\ \A i \in 1 .. MostChunks : new[i] # Nothing => new[i].by = r
    BY <2>1, StoredIsWhole
  <2>3. \/ UNCHANGED index
        \/ index' = [index EXCEPT ![DocumentId(r)][p] = new]
        \/ index' = [index EXCEPT ![DocumentId(r)][p] = NoChunks]
    BY <1>1 DEF SyncPage, SyncPageFails
  <2> HIDE DEF new
  <2>4. UNCHANGED index \/ Stores(r)
    BY <1>0, <2>1, <2>2, <2>3 DEF Stores
  <2> QED
    BY <2>1, <2>4 DEF Ended
<1>2. CASE r \in Ingests /\ (DropRemovedPages(r) \/ DropRemovedPagesFails(r))
  <2>1. Removed(r) \subseteq Pages
    BY DEF Removed
  <2>2. Clears
    BY <1>2, <2>1 DEF DropRemovedPages, DropRemovedPagesFails, Clears
  <2> QED
    BY <1>2, <2>2 DEF DropRemovedPages, DropRemovedPagesFails, Ended
<1>3. CASE UpdateMetadata(r) \/ UpdateMetadataFails(r)
  <2>1. pc[r] = "metadata" /\ op[r].title \in Titles
    BY <1>3, OpFacts DEF UpdateMetadata, UpdateMetadataFails, WhereInv
  <2>2. UNCHANGED index \/ index' = Retitled(DocumentId(r), op[r].title)
    BY <1>3 DEF UpdateMetadata, UpdateMetadataFails
  <2> QED
    BY <2>1, <2>2 DEF Retitles, Ended
<1>4. CASE RecordFailure(r) \/ DeleteChunks(r)
  <2>1. pc[r] \in {"record", "chunks"}
    BY <1>4 DEF RecordFailure, DeleteChunks
  <2>2. UNCHANGED index \/ index' = Cleared(r, Pages) \/ index' = Cleared(DocumentId(r), Pages)
    BY <1>4 DEF RecordFailure, DeleteChunks
  <2> QED
    BY <2>1, <2>2 DEF Clears, Ended
<1>5. CASE \/ Begin(r) \/ OpenDocument(r) \/ CreatedMeanwhile(r)
           \/ SetDocumentOwner(r) \/ SetDocumentOwnerFails(r)
           \/ DropPages(r) \/ MarkDeleted(r) \/ Deadlocked(r) \/ PurgeEdges(r) \/ PurgeEdgesFails(r)
           \/ Commit(r) \/ CommitFails(r)
  BY <1>5 DEF Begin, OpenDocument, CreatedMeanwhile, SetDocumentOwner, SetDocumentOwnerFails,
              DropPages, MarkDeleted, Deadlocked, PurgeEdges, PurgeEdgesFails, Commit, CommitFails,
              stores, Ended
<1> QED
  BY <1>1, <1>2, <1>3, <1>4, <1>5 DEF RequestStep

\* So a page stays whole, and a chunk is r's or is by whom it was.
LEMMA IndexStep ==
  ASSUME PagesInv, NEW r \in Requests, UNCHANGED index \/ Stores(r) \/ Clears \/ Retitles
  PROVE  /\ PagesInv'
         /\ \A id \in Requests, p \in Pages, i \in 1 .. MostChunks :
              index'[id][p][i] # Nothing =>
                \/ index'[id][p][i].by = r
                \/ index[id][p][i] # Nothing /\ index'[id][p][i].by = index[id][p][i].by
<1> USE DEF PagesInv
<1>1. CASE UNCHANGED index
  BY <1>1
<1>2. CASE Stores(r)
  <2>1. PICK id \in Requests, p \in Pages, new \in WholePages :
          /\ index' = [index EXCEPT ![id][p] = new]
          /\ \A i \in 1 .. MostChunks : new[i] # Nothing => new[i].by = r
    BY <1>2 DEF Stores
  <2>2. PagesInv'
    BY <2>1
  <2>3. \A x \in Requests, y \in Pages :
          index'[x][y] = IF x = id /\ y = p THEN new ELSE index[x][y]
    BY <2>1
  <2> QED
    BY <2>1, <2>2, <2>3
<1>3. CASE Clears
  <2>1. PICK id \in Requests, pages \in SUBSET Pages : index' = Cleared(id, pages)
    BY <1>3 DEF Clears
  <2>2. NoChunks \in WholePages /\ \A i \in 1 .. MostChunks : NoChunks[i] = Nothing
    BY DEF WholePages, NoChunks
  <2>3. index' = [index EXCEPT ![id] = [p \in Pages |-> IF p \in pages THEN NoChunks ELSE index[id][p]]]
    BY <2>1 DEF Cleared
  <2>4. PagesInv'
    BY <2>2, <2>3
  <2>5. \A x \in Requests, y \in Pages :
          index'[x][y] = IF x = id /\ y \in pages THEN NoChunks ELSE index[x][y]
    BY <2>3
  <2> QED
    BY <2>2, <2>4, <2>5
<1>4. CASE Retitles
  <2>1. PICK id \in Requests, title \in Titles : index' = Retitled(id, title)
    BY <1>4 DEF Retitles
  <2> DEFINE new(p) == [i \in 1 .. MostChunks |->
                         IF index[id][p][i] = Nothing THEN Nothing
                         ELSE [index[id][p][i] EXCEPT !.title = title]]
  <2>2. \A p \in Pages :
          /\ new(p) \in WholePages
          /\ \A i \in 1 .. MostChunks :
               new(p)[i] # Nothing => index[id][p][i] # Nothing /\ new(p)[i].by = index[id][p][i].by
    <3>1. \A p \in Pages : index[id][p] \in WholePages
      OBVIOUS
    <3> QED
      BY <3>1, RetitledIsWhole
  <2>3. index' = [index EXCEPT ![id] = [p \in Pages |-> new(p)]]
    BY <2>1 DEF Retitled
  <2> HIDE DEF new
  <2>4. PagesInv'
    BY <2>2, <2>3
  <2>5. \A x \in Requests, y \in Pages : index'[x][y] = IF x = id THEN new(y) ELSE index[x][y]
    BY <2>3
  <2> QED
    BY <2>2, <2>4, <2>5
<1> QED
  BY <1>1, <1>2, <1>3, <1>4

\* The index of whole pages is of the right type.
LEMMA IndexType ==
  ASSUME PagesInv
  PROVE  index \in [Requests -> [Pages -> [1 .. MostChunks -> Chunks \union {Nothing}]]]
  BY WholeFacts DEF PagesInv

-------------------------------------------------------------------------------
(* Types.                                                                  *)

\* The invariant holds before the first request.
LEMMA InitInv == Init => Inv
<1> SUFFICES ASSUME Init PROVE Inv
  OBVIOUS
<1>1. Typed
  <2>1. NoPages \in [Pages -> Hashes] /\ NoPages \in [Pages -> Requests \union {Nothing}]
    BY DEF NoPages, Hashes
  <2> QED
    BY <2>1 DEF Init, Typed, DocumentRows, PCs
<1>4. GoneInv
  BY DEF Init, GoneInv, Deletes
<1>2. WhereInv
  BY DEF Init, WhereInv, Writing
<1>3. PagesInv
  BY DEF Init, PagesInv, WholePages
<1> QED
  BY <1>1, <1>2, <1>3, <1>4 DEF Inv

\* A transaction that is over holds no row.
LEMMA Released ==
  ASSUME Typed, NEW r \in Requests, ReleaseRows(r)
  PROVE  /\ pageLock' \in [Pages -> Requests \union {Nothing}]
         /\ rowLock' # r
         /\ rowLock' # Nothing => rowLock' = rowLock
  BY PipelineAssumption DEF Typed, ReleaseRows

\* The steps of an ingest keep the types.
LEMMA IngestTypes ==
  ASSUME Typed, WhereInv, NEW r \in Requests,
         \/ Begin(r) \/ OpenDocument(r) \/ CreatedMeanwhile(r)
         \/ \E p \in left[r] : SyncPage(r, p)
         \/ r \in Ingests /\ DropRemovedPages(r)
         \/ UpdateMetadata(r) \/ SetDocumentOwner(r) \/ RecordFailure(r)
  PROVE  Typed'
<1> USE DEF GoTo, Ended, history, stores, postgres, locks, locals
<1>1. CASE Begin(r)
  BY <1>1 DEF Begin, Typed, PCs, Deletes, Ingests
<1>2. CASE OpenDocument(r)
  BY <1>2, OpFacts DEF OpenDocument, Typed, PCs, Deletes, Ingests, WhereInv
<1>3. CASE CreatedMeanwhile(r)
  BY <1>3 DEF CreatedMeanwhile, Typed, PCs, Deletes, Ingests
<1>4. ASSUME NEW p \in left[r], SyncPage(r, p) PROVE Typed'
  <2>1. p \in Pages /\ op[r].pages[p] \in Hashes
    BY <1>4, OpFacts DEF WhereInv, Hashes
  <2>2. left' \in [Requests -> SUBSET Pages]
    BY <1>4 DEF SyncPage, Typed
  <2>3. staged' \in [Requests -> [Pages -> Hashes]]
    <3>1. UNCHANGED staged \/ staged' = [staged EXCEPT ![r][p] = op[r].pages[p]]
      BY <1>4 DEF SyncPage
    <3>2. [staged EXCEPT ![r][p] = op[r].pages[p]] \in [Requests -> [Pages -> Hashes]]
      BY <2>1 DEF Typed
    <3> QED
      BY <3>1, <3>2 DEF Typed
  <2> QED
    BY <1>4, <2>2, <2>3 DEF SyncPage, Typed, Deletes, Ingests
<1>5. CASE r \in Ingests /\ DropRemovedPages(r)
  <2>1. staged' \in [Requests -> [Pages -> Hashes]]
    BY <1>5 DEF DropRemovedPages, Typed, Hashes
  <2>2. pageLock' \in [Pages -> Requests \union {Nothing}]
    BY <1>5 DEF DropRemovedPages, Typed
  <2>3. pc' \in [Requests -> PCs] /\ pc'[r] \in {"metadata", "own"}
        /\ \A s \in Requests \ {r} : pc'[s] = pc[s]
    BY <1>5 DEF DropRemovedPages, Typed, PCs
  <2>4. UNCHANGED <<row, pageRow, edge, op, loaded, known, left, rowLock, torn, kept, before>>
    BY <1>5 DEF DropRemovedPages
  <2> QED
    BY <2>1, <2>2, <2>3, <2>4 DEF Typed, Deletes, Ingests
<1>6. CASE UpdateMetadata(r)
  BY <1>6 DEF UpdateMetadata, Typed, PCs, Deletes, Ingests
<1>7. CASE SetDocumentOwner(r)
  BY <1>7, DocumentFacts DEF SetDocumentOwner, Typed, PCs, Deletes, Ingests
<1>8. CASE RecordFailure(r)
  <2>1. row' \in DocumentRows /\ (row' = Nothing => row = Nothing)
    <3>1. CASE IsNew(r)
      BY <1>8, <3>1 DEF RecordFailure, Typed
    <3>2. CASE ~IsNew(r)
      <4>1. row \in Rows /\ row' = [row EXCEPT !.status = "failed"]
        BY <1>8, <3>2 DEF RecordFailure, IsNew, WhereInv, Typed, DocumentRows
      <4>2. row' \in Rows
        BY <4>1 DEF Rows
      <4> QED
        BY <4>2, PipelineAssumption DEF DocumentRows
    <3> QED
      BY <3>1, <3>2
  <2> QED
    BY <1>8, <2>1 DEF RecordFailure, Typed, PCs, Deletes, Ingests
<1> QED
  BY <1>1, <1>2, <1>3, <1>4, <1>5, <1>6, <1>7, <1>8

\* So do its failures.
LEMMA FailureTypes ==
  ASSUME Typed, WhereInv, NEW r \in Requests,
         \/ \E p \in left[r] : SyncPageFails(r, p)
         \/ DropRemovedPagesFails(r)
         \/ UpdateMetadataFails(r) \/ SetDocumentOwnerFails(r)
  PROVE  Typed'
<1>1. PICK pages \in SUBSET Pages : Fail(r, pages)
  <2>1. Removed(r) \subseteq Pages
    BY DEF Removed
  <2>2. left[r] \subseteq Pages
    BY DEF Typed
  <2> QED
    BY <2>1, <2>2 DEF SyncPageFails, DropRemovedPagesFails, UpdateMetadataFails, SetDocumentOwnerFails
<1>2. edge' \subseteq Requests
  <2>1. UNCHANGED edge \/ edge' = edge \union {DocumentId(r)}
    BY DEF SyncPageFails, DropRemovedPagesFails, UpdateMetadataFails, SetDocumentOwnerFails
  <2> QED
    BY <2>1, DocumentFacts DEF Typed
<1>3. /\ pageLock' \in [Pages -> Requests \union {Nothing}] /\ rowLock' # r
      /\ rowLock' # Nothing => rowLock' = rowLock
  BY <1>1, Released DEF Fail
<1>4. torn' \subseteq Pages
  BY <1>1 DEF Fail, Changed, Typed
<1>5. pc' \in [Requests -> PCs] /\ \A s \in Requests \ {r} : pc'[s] = pc[s]
  BY <1>1 DEF Fail, GoTo, Typed, PCs
<1>6. UNCHANGED <<row, pageRow, op, loaded, known, staged, left, kept, before>>
  BY <1>1 DEF Fail, postgres, locals
<1> QED
  BY <1>2, <1>3, <1>4, <1>5, <1>6 DEF Typed, Ended, Deletes, Ingests

\* So do the steps of a delete, and the end of a transaction.
LEMMA DeleteTypes ==
  ASSUME Typed, WhereInv, NEW r \in Requests,
         \/ DropPages(r) \/ MarkDeleted(r) \/ Deadlocked(r)
         \/ PurgeEdges(r) \/ PurgeEdgesFails(r) \/ DeleteChunks(r)
         \/ Commit(r) \/ CommitFails(r)
  PROVE  Typed'
<1> USE DEF GoTo, Ended, history, stores, postgres, locks, locals
<1>1. CASE DropPages(r)
  BY <1>1 DEF DropPages, Typed, PCs, Deletes, Ingests
<1>2. CASE MarkDeleted(r)
  BY <1>2 DEF MarkDeleted, Typed, PCs, Deletes, Ingests
<1>3. CASE Deadlocked(r)
  <2>1. UNCHANGED <<row, pageRow, edge, op, loaded, known, staged, left, torn, kept, before>>
        /\ ReleaseRows(r) /\ pc' = [pc EXCEPT ![r] = "failed"]
    BY <1>3 DEF Deadlocked
  <2> QED
    BY <2>1, Released DEF Typed, PCs, Deletes, Ingests
<1>4. CASE PurgeEdges(r)
  BY <1>4 DEF PurgeEdges, Typed, PCs, Deletes, Ingests
<1>5. CASE PurgeEdgesFails(r)
  <2>1. UNCHANGED <<row, pageRow, op, loaded, known, staged, left, torn, kept, before>>
        /\ ReleaseRows(r) /\ pc' = [pc EXCEPT ![r] = "failed"] /\ edge' \subseteq edge
    BY <1>5 DEF PurgeEdgesFails
  <2> QED
    BY <2>1, Released DEF Typed, PCs, Deletes, Ingests
<1>6. CASE DeleteChunks(r)
  <2>1. kept' \subseteq Deletes
    BY <1>6 DEF DeleteChunks, Typed, WhereInv
  <2> QED
    BY <1>6, <2>1 DEF DeleteChunks, Typed, PCs, Deletes, Ingests
<1>7. CASE Commit(r)
  <2>1. /\ row' \in DocumentRows /\ row' # Nothing
    <3>1. CASE CommitIngest(r)
      <4>1. DocumentId(r) \in Requests /\ op[r].title \in Titles
        BY <3>1, DocumentFacts, OpFacts DEF CommitIngest
      <4>2. ~IsNew(r) => row.title \in Titles
        BY DEF IsNew, WhereInv, Typed, DocumentRows, Rows
      <4>3. row' \in Rows
        BY <3>1, <4>1, <4>2 DEF CommitIngest, Rows
      <4> QED
        BY <4>3, PipelineAssumption DEF DocumentRows
    <3>2. CASE CommitDelete(r)
      <4>1. row \in Rows
        BY <1>7, <3>2 DEF Commit, CommitDelete, WhereInv, Typed, DocumentRows
      <4>2. row' \in Rows
        BY <3>2, <4>1 DEF CommitDelete, Rows
      <4> QED
        BY <4>2, PipelineAssumption DEF DocumentRows
    <3> QED
      BY <1>7, <3>1, <3>2 DEF Commit
  <2>2. pageRow' \in [Pages -> Hashes] /\ torn' \subseteq Pages
    <3>1. CASE CommitIngest(r)
      BY <3>1 DEF CommitIngest, Typed
    <3>2. CASE CommitDelete(r)
      BY <3>2 DEF CommitDelete, Typed, Hashes
    <3> QED
      BY <1>7, <3>1, <3>2 DEF Commit
  <2>3. UNCHANGED <<edge, op, loaded, known, staged, left, kept, before>>
        /\ ReleaseRows(r) /\ pc' = [pc EXCEPT ![r] = "done"]
    BY <1>7 DEF Commit
  <2> QED
    BY <2>1, <2>2, <2>3, Released DEF Typed, PCs, Deletes, Ingests
<1>8. CASE CommitFails(r)
  <2>1. UNCHANGED <<row, pageRow, edge, op, loaded, known, staged, left, kept, before>>
        /\ ReleaseRows(r) /\ pc' = [pc EXCEPT ![r] = "failed"]
    BY <1>8 DEF CommitFails
  <2>2. torn' \subseteq Pages
    BY <1>8 DEF CommitFails, Changed, Typed
  <2> QED
    BY <2>1, <2>2, Released DEF Typed, PCs, Deletes, Ingests
<1> QED
  BY <1>1, <1>2, <1>3, <1>4, <1>5, <1>6, <1>7, <1>8

\* Every step keeps the types.
LEMMA TypesStep ==
  ASSUME Typed, WhereInv, NEW r \in Requests, RequestStep(r)
  PROVE  Typed'
  BY IngestTypes, FailureTypes, DeleteTypes DEF RequestStep

-------------------------------------------------------------------------------
(* Who is where.                                                           *)

\* What a step does to the other requests and to the rows: a document row is changed by
\* who holds it, or by who holds none while nobody does, and stays the same document.
LEMMA RowStep ==
  ASSUME Typed, WhereInv, NEW r \in Requests, RequestStep(r)
  PROVE  /\ op' = op
         /\ \A s \in Requests \ {r} :
              /\ pc'[s] = pc[s] /\ loaded'[s] = loaded[s] /\ left'[s] = left[s]
              /\ before'[s] = before[s]
              /\ rowLock = s => rowLock' = s
         /\ row = Nothing /\ row' # Nothing => rowLock = r
         /\ row # Nothing => row' # Nothing /\ row'.id = row.id
<1> USE DEF GoTo, history, stores, postgres, locks, locals
<1>1. op' = op
  BY DEF RequestStep, Begin, OpenDocument, CreatedMeanwhile, SyncPage, SyncPageFails,
         DropRemovedPages, DropRemovedPagesFails, UpdateMetadata, UpdateMetadataFails,
         SetDocumentOwner, SetDocumentOwnerFails, RecordFailure, DropPages, MarkDeleted,
         Deadlocked, PurgeEdges, PurgeEdgesFails, DeleteChunks, Commit, CommitFails, Fail
<1>2. ASSUME NEW s \in Requests \ {r}
      PROVE  /\ pc'[s] = pc[s] /\ loaded'[s] = loaded[s] /\ left'[s] = left[s]
             /\ before'[s] = before[s]
             /\ rowLock = s => rowLock' = s
  BY PipelineAssumption
     DEF RequestStep, Begin, OpenDocument, CreatedMeanwhile, SyncPage, SyncPageFails,
         DropRemovedPages, DropRemovedPagesFails, UpdateMetadata, UpdateMetadataFails,
         SetDocumentOwner, SetDocumentOwnerFails, RecordFailure, DropPages, MarkDeleted,
         Deadlocked, PurgeEdges, PurgeEdgesFails, DeleteChunks, Commit, CommitFails, Fail,
         ReleaseRows, Typed
<1>3. CASE RecordFailure(r)
  <2>1. CASE IsNew(r)
    BY <1>1, <1>2, <1>3, <2>1 DEF RecordFailure
  <2>2. CASE ~IsNew(r)
    <3>1. row \in Rows /\ row' = [row EXCEPT !.status = "failed"]
      BY <1>3, <2>2 DEF RecordFailure, IsNew, WhereInv, Typed, DocumentRows
    <3>2. row' \in Rows /\ row'.id = row.id
      BY <3>1 DEF Rows
    <3> QED
      BY <1>1, <1>2, <3>1, <3>2, PipelineAssumption
  <2> QED
    BY <2>1, <2>2
<1>4. CASE Commit(r)
  <2>1. CASE CommitIngest(r)
    <3>1. rowLock = r /\ (IsNew(r) => row = Nothing)
      BY <1>4, <2>1 DEF Commit, CommitIngest, WhereInv, Writing
    <3>2. row'.id = DocumentId(r) /\ row' \in Rows
      <4>1. DocumentId(r) \in Requests /\ op[r].title \in Titles
        BY <2>1, DocumentFacts, OpFacts DEF CommitIngest
      <4>2. ~IsNew(r) => row.title \in Titles
        BY DEF IsNew, WhereInv, Typed, DocumentRows, Rows
      <4> QED
        BY <2>1, <4>1, <4>2 DEF CommitIngest, Rows
    <3>3. row # Nothing => row.id = DocumentId(r)
      BY <3>1 DEF IsNew, DocumentId, WhereInv
    <3> QED
      BY <1>1, <1>2, <3>1, <3>2, <3>3, PipelineAssumption
  <2>2. CASE CommitDelete(r)
    <3>1. row \in Rows
      BY <1>4, <2>2 DEF Commit, CommitDelete, WhereInv, Typed, DocumentRows
    <3>2. row' \in Rows /\ row'.id = row.id
      BY <2>2, <3>1 DEF CommitDelete, Rows
    <3> QED
      BY <1>1, <1>2, <3>1, <3>2, PipelineAssumption
  <2> QED
    BY <1>4, <2>1, <2>2 DEF Commit
<1>5. CASE UNCHANGED row
  BY <1>1, <1>2, <1>5
<1> QED
  BY <1>3, <1>4, <1>5
     DEF RequestStep, Begin, OpenDocument, CreatedMeanwhile, SyncPage, SyncPageFails,
         DropRemovedPages, DropRemovedPagesFails, UpdateMetadata, UpdateMetadataFails,
         SetDocumentOwner, SetDocumentOwnerFails, DropPages, MarkDeleted,
         Deadlocked, PurgeEdges, PurgeEdgesFails, DeleteChunks, CommitFails, Fail

\* What WhereInv says of one request.
WhereIs(r) ==
  /\ pc[r] \in {"open", "sync", "metadata", "own", "record"} => r \in Ingests
  /\ pc[r] \in {"pages", "mark", "purge", "chunks"} => r \in Deletes
  /\ pc[r] \in {"pages", "mark", "purge", "chunks", "commit", "done"} /\ r \in Deletes =>
       loaded[r] # Nothing
  /\ pc[r] \in Writing /\ r \in Ingests => rowLock = r /\ (IsNew(r) => row = Nothing)
  /\ left[r] # {} => r \in Ingests /\ left[r] \subseteq DOMAIN op[r].pages
  /\ loaded[r] # Nothing => row # Nothing /\ row.id = loaded[r].id

\* Each step leaves r where it may be.
LEMMA WhereStep ==
  ASSUME Typed, WhereInv, NEW r \in Requests, RequestStep(r)
  PROVE  WhereInv'
<1> USE DEF GoTo, history, stores, postgres, locks, locals, Ingests, Deletes, Writing, IsNew
<1>1. ASSUME NEW s \in Requests \ {r} PROVE WhereIs(s)'
  BY RowStep, PipelineAssumption DEF WhereInv, WhereIs, Typed
<1>2. WhereIs(r)'
  <2>1. WhereIs(r) /\ pc \in [Requests -> PCs] /\ loaded \in [Requests -> DocumentRows]
        /\ left \in [Requests -> SUBSET Pages] /\ op' = op
    BY RowStep DEF WhereInv, WhereIs, Typed
  <2>2. CASE Begin(r)
    BY <2>1, <2>2, PipelineAssumption DEF Begin, WhereIs, Typed, DocumentRows, Rows
  <2>3. CASE OpenDocument(r)
    BY <2>1, <2>3 DEF OpenDocument, WhereIs
  <2>4. CASE CreatedMeanwhile(r)
    BY <2>1, <2>4 DEF CreatedMeanwhile, WhereIs
  <2>5. ASSUME NEW p \in left[r], SyncPage(r, p) PROVE WhereIs(r)'
    BY <2>1, <2>5 DEF SyncPage, WhereIs
  <2>6. CASE \/ \E p \in left[r] : SyncPageFails(r, p)
             \/ r \in Ingests /\ DropRemovedPagesFails(r)
             \/ UpdateMetadataFails(r) \/ SetDocumentOwnerFails(r)
    <3>1. r \in Ingests /\ \E pages : Fail(r, pages)
      BY <2>1, <2>6 DEF SyncPageFails, DropRemovedPagesFails, UpdateMetadataFails,
                        SetDocumentOwnerFails, WhereIs
    <3> QED
      BY <2>1, <3>1 DEF Fail, WhereIs
  <2>7. CASE r \in Ingests /\ DropRemovedPages(r)
    BY <2>1, <2>7 DEF DropRemovedPages, WhereIs
  <2>8. CASE UpdateMetadata(r) \/ SetDocumentOwner(r)
    BY <2>1, <2>8 DEF UpdateMetadata, SetDocumentOwner, WhereIs
  <2>9. CASE RecordFailure(r)
    BY <2>1, <2>9, RowStep DEF RecordFailure, WhereIs
  <2>10. CASE DropPages(r) \/ MarkDeleted(r) \/ PurgeEdges(r) \/ DeleteChunks(r)
    BY <2>1, <2>10 DEF DropPages, MarkDeleted, PurgeEdges, DeleteChunks, WhereIs
  <2>11. CASE Deadlocked(r) \/ PurgeEdgesFails(r) \/ CommitFails(r)
    BY <2>1, <2>11 DEF Deadlocked, PurgeEdgesFails, CommitFails, WhereIs
  <2>12. CASE Commit(r)
    <3>1. pc' = [pc EXCEPT ![r] = "done"] /\ UNCHANGED <<loaded, left>>
          /\ (loaded[r] # Nothing => row' # Nothing /\ row'.id = row.id)
      BY <2>1, <2>12, RowStep DEF Commit, WhereIs
    <3> QED
      BY <2>1, <2>12, <3>1 DEF Commit, WhereIs
  <2> QED
    BY <2>2, <2>3, <2>4, <2>5, <2>6, <2>7, <2>8, <2>9, <2>10, <2>11, <2>12 DEF RequestStep
<1>3. \A s \in Requests : WhereIs(s)'
  BY <1>1, <1>2
<1> QED
  BY <1>3 DEF WhereInv, WhereIs

-------------------------------------------------------------------------------
(* What is gone.                                                           *)

\* A delete gets past its chunks by removing them, or it is among the `kept`.
LEMMA DeletePasses ==
  ASSUME Typed, WhereInv, NEW r \in Deletes, RequestStep(r), pc'[r] \in {"commit", "done"}
  PROVE  /\ before'[r] = before[r] /\ loaded'[r] = loaded[r] /\ kept \subseteq kept'
         /\ \/ pc[r] = "commit" /\ UNCHANGED index
            \/ index' = Cleared(loaded[r].id, Pages) /\ loaded[r] # Nothing
            \/ r \in kept'
<1> USE DEF GoTo, history, stores, postgres, locks, locals, Deletes
<1>1. CASE DeleteChunks(r)
  <2>1. loaded[r] # Nothing
    BY <1>1 DEF DeleteChunks, WhereInv
  <2> QED
    BY <1>1, <2>1 DEF DeleteChunks, DocumentId, IsNew
<1>2. CASE Commit(r)
  BY <1>2 DEF Commit
<1>3. CASE SetDocumentOwner(r)
  BY <1>3 DEF SetDocumentOwner, WhereInv
<1>4. ASSUME NEW p \in left[r], SyncPage(r, p) PROVE FALSE
  BY <1>4 DEF SyncPage, WhereInv
<1>5. CASE \/ \E p \in left[r] : SyncPageFails(r, p)
           \/ r \in Ingests /\ (DropRemovedPages(r) \/ DropRemovedPagesFails(r))
           \/ UpdateMetadataFails(r) \/ SetDocumentOwnerFails(r)
  BY <1>5 DEF SyncPageFails, UpdateMetadataFails, SetDocumentOwnerFails, WhereInv
<1>6. CASE \/ Begin(r) \/ OpenDocument(r) \/ CreatedMeanwhile(r) \/ UpdateMetadata(r)
           \/ RecordFailure(r) \/ DropPages(r) \/ MarkDeleted(r) \/ Deadlocked(r)
           \/ PurgeEdges(r) \/ PurgeEdgesFails(r) \/ CommitFails(r)
  BY <1>6 DEF Begin, OpenDocument, CreatedMeanwhile, UpdateMetadata, RecordFailure, DropPages,
              MarkDeleted, Deadlocked, PurgeEdges, PurgeEdgesFails, CommitFails, Typed
<1> QED
  BY <1>1, <1>2, <1>3, <1>4, <1>5, <1>6 DEF RequestStep

\* Who has ended stores nothing, so what a delete has removed stays away.
LEMMA GoneStep ==
  ASSUME Inv, NEW r \in Requests, RequestStep(r)
  PROVE  GoneInv'
<1> USE DEF Inv
<1>1. /\ r \notin Ended /\ op' = op
      /\ \A s \in Requests \ {r} :
           pc'[s] = pc[s] /\ loaded'[s] = loaded[s] /\ before'[s] = before[s]
  BY IndexForms, RowStep
<1>2. \A id \in Requests, p \in Pages, i \in 1 .. MostChunks :
        index'[id][p][i] # Nothing =>
          \/ index'[id][p][i].by = r
          \/ index[id][p][i] # Nothing /\ index'[id][p][i].by = index[id][p][i].by
  BY IndexForms, IndexStep
<1>3. kept \subseteq kept' /\ (before'[r] = before[r] \/ before'[r] = Ended)
  BY DEF RequestStep, Begin, OpenDocument, CreatedMeanwhile, SyncPage, SyncPageFails,
         DropRemovedPages, DropRemovedPagesFails, UpdateMetadata, UpdateMetadataFails,
         SetDocumentOwner, SetDocumentOwnerFails, RecordFailure, DropPages, MarkDeleted,
         Deadlocked, PurgeEdges, PurgeEdgesFails, DeleteChunks, Commit, CommitFails, Fail,
         history, Typed
<1>4. Ended \subseteq Ended' /\ Deletes' = Deletes
  BY <1>1 DEF Ended, Deletes, Ingests
<1>5. \A s \in Requests : before'[s] \subseteq Ended'
  BY <1>1, <1>3, <1>4 DEF GoneInv
<1>6. ASSUME NEW d \in Deletes \ kept', pc'[d] \in {"commit", "done"},
             NEW p \in Pages, NEW i \in 1 .. MostChunks, index'[loaded'[d].id][p][i] # Nothing
      PROVE  index'[loaded'[d].id][p][i].by \notin before'[d]
  <2>1. CASE d # r
    <3>1. /\ d \in Requests /\ d \in Deletes \ kept /\ pc[d] \in {"commit", "done"}
          /\ loaded'[d] = loaded[d] /\ before'[d] = before[d]
      BY <1>1, <1>3, <1>6, <2>1 DEF Deletes
    <3>2. loaded[d].id \in Requests
      BY <3>1 DEF WhereInv, Typed, DocumentRows, Rows
    <3> QED
      BY <1>1, <1>2, <1>6, <3>1, <3>2 DEF GoneInv
  <2>2. CASE d = r
    <3>1. before'[r] = before[r] /\ loaded'[r] = loaded[r] /\ r \in Deletes \ kept
          /\ (\/ pc[r] = "commit" /\ UNCHANGED index
              \/ index' = Cleared(loaded[r].id, Pages) /\ loaded[r] # Nothing)
      BY <1>3, <1>6, <2>2, DeletePasses
    <3>2. CASE pc[r] = "commit" /\ UNCHANGED index
      BY <1>6, <2>2, <3>1, <3>2 DEF GoneInv
    <3>3. CASE index' = Cleared(loaded[r].id, Pages) /\ loaded[r] # Nothing
      <4>1. loaded[r].id \in Requests
        BY <3>3 DEF Typed, DocumentRows, Rows
      <4>2. index'[loaded[r].id][p] = NoChunks
        BY <3>3, <4>1 DEF Cleared, PagesInv
      <4> QED
        BY <1>6, <2>2, <3>1, <4>2 DEF NoChunks
    <3> QED
      BY <3>1, <3>2, <3>3
  <2> QED
    BY <2>1, <2>2
<1> QED
  BY <1>4, <1>5, <1>6 DEF GoneInv

-------------------------------------------------------------------------------
\* The inductive invariant holds in every reachable state.
THEOREM Invariance == Spec => []Inv
<1>1. Inv /\ [Next]_vars => Inv'
  <2> SUFFICES ASSUME Inv, [Next]_vars PROVE Inv'
    OBVIOUS
  <2>1. ASSUME NEW r \in Requests, RequestStep(r) PROVE Inv'
    BY <2>1, TypesStep, WhereStep, IndexForms, IndexStep, GoneStep DEF Inv
  <2>2. CASE UNCHANGED vars
    BY <2>2 DEF vars, Inv, Typed, WhereInv, PagesInv, GoneInv, Ended, Deletes, Ingests, IsNew
  <2> QED
    BY <2>1, <2>2 DEF Next, Terminated
<1> QED
  BY <1>1, InitInv, PTL DEF Spec

\* The values of the variables, whatever requests overlap and fail: page rows belong to a
\* document row, and only an open transaction holds it.
THEOREM TypeCorrect == Spec => []TypeOK
<1>1. Inv => TypeOK
  BY IndexType DEF Inv, Typed, TypeOK
<1> QED
  BY <1>1, Invariance, PTL

\* Whatever fails in between, the chunks of a page are those of one content, all of them,
\* from one ingest.
THEOREM WholePagesOnly == Spec => []PagesAreWhole
<1>1. Inv => PagesAreWhole
  <2> SUFFICES ASSUME Inv, NEW id \in Requests, NEW p \in Pages
               PROVE  LET present == {i \in 1 .. MostChunks : index[id][p][i] # Nothing}
                      IN \A i \in present :
                           /\ present = 1 .. ChunkCount[index[id][p][i].text]
                           /\ \A j \in present : index[id][p][j] = index[id][p][i]
    BY DEF PagesAreWhole
  <2>1. index[id][p] \in WholePages
    BY DEF Inv, PagesInv
  <2> QED
    BY <2>1, WholeFacts
<1> QED
  BY <1>1, Invariance, PTL

\* What an ingest stored that had ended before a delete began is not retrievable once the
\* delete is done, unless the delete could not remove the chunks.
THEOREM DeletedStaysGone == Spec => []DeletedIsGone
<1>1. Inv => DeletedIsGone
  <2> SUFFICES ASSUME Inv, NEW d \in Deletes \ kept, NEW chunk \in Retrievable, pc[d] = "done"
               PROVE  chunk.by \notin before[d]
    BY DEF DeletedIsGone
  <2>1. /\ row # Nothing
        /\ \E p \in Pages, i \in 1 .. MostChunks : chunk = index[row.id][p][i] /\ chunk # Nothing
    BY DEF Retrievable
  <2>2. row.id = loaded[d].id
    BY DEF Inv, WhereInv, Deletes
  <2> QED
    BY <2>1, <2>2 DEF Inv, GoneInv
<1> QED
  BY <1>1, Invariance, PTL

-------------------------------------------------------------------------------
(* The index says what the rows say.                                       *)

\* What a step does to the chunks of the document it works on, page by page.
LEMMA ClearedAt ==
  ASSUME PagesInv, NEW id \in Requests, NEW pages, index' = Cleared(id, pages)
  PROVE  \A x \in Requests, y \in Pages :
           index'[x][y] = IF x = id /\ y \in pages THEN NoChunks ELSE index[x][y]
  BY DEF PagesInv, Cleared

\* A renamed chunk is there as before, with the same text.
LEMMA RetitledAt ==
  ASSUME PagesInv, NEW id \in Requests, NEW title \in Titles, index' = Retitled(id, title)
  PROVE  /\ \A x \in Requests \ {id} : index'[x] = index[x]
         /\ \A y \in Pages, i \in 1 .. MostChunks :
              IF index[id][y][i] = Nothing
              THEN index'[id][y][i] = Nothing
              ELSE /\ index'[id][y][i] # Nothing
                   /\ index'[id][y][i].text = index[id][y][i].text
                   /\ index'[id][y][i].title = title
<1>1. \A y \in Pages, i \in 1 .. MostChunks :
        index'[id][y][i] = IF index[id][y][i] = Nothing THEN Nothing
                           ELSE [index[id][y][i] EXCEPT !.title = title]
  BY DEF PagesInv, Retitled
<1>2. \A y \in Pages, i \in 1 .. MostChunks :
        index[id][y][i] = Nothing \/ index[id][y][i] \in Chunks
  <2>1. \A y \in Pages : index[id][y] \in WholePages
    BY DEF PagesInv
  <2> QED
    BY <2>1, WholeFacts
<1>3. \A chunk \in Chunks : /\ [chunk EXCEPT !.title = title] # Nothing
                            /\ [chunk EXCEPT !.title = title].text = chunk.text
                            /\ [chunk EXCEPT !.title = title].title = title
  <2>1. \A chunk \in Chunks : [chunk EXCEPT !.title = title] \in Chunks
    BY DEF Chunks
  <2> QED
    BY <2>1, PipelineAssumption DEF Chunks
<1>4. \A x \in Requests \ {id} : index'[x] = index[x]
  BY DEF PagesInv, Retitled
<1>5. ASSUME NEW y \in Pages, NEW i \in 1 .. MostChunks
      PROVE  IF index[id][y][i] = Nothing
             THEN index'[id][y][i] = Nothing
             ELSE /\ index'[id][y][i] # Nothing
                  /\ index'[id][y][i].text = index[id][y][i].text
                  /\ index'[id][y][i].title = title
  <2>1. CASE index[id][y][i] = Nothing
    BY <1>1, <2>1
  <2>2. CASE index[id][y][i] # Nothing
    <3>1. index[id][y][i] \in Chunks /\ index'[id][y][i] = [index[id][y][i] EXCEPT !.title = title]
      BY <1>1, <1>2, <2>2
    <3> QED
      BY <1>3, <2>2, <3>1
  <2> QED
    BY <2>1, <2>2
<1> QED
  BY <1>4, <1>5

\* A step changes no other document's chunks.
LEMMA IndexAt ==
  ASSUME Inv, NEW r \in Requests, RequestStep(r)
  PROVE  /\ \A x \in Requests \ {DocumentId(r)} : index'[x] = index[x]
         /\ pc'[r] = "open" => UNCHANGED index
         /\ pc'[r] # "begin"
<1> USE DEF Inv, stores, GoTo
<1>1. ASSUME NEW p \in left[r], SyncPage(r, p) \/ SyncPageFails(r, p)
      PROVE  /\ \A x \in Requests \ {DocumentId(r)} : index'[x] = index[x]
             /\ pc'[r] \in {"sync", "record"}
  <2>1. \A x \in Requests \ {DocumentId(r)} : index'[x] = index[x]
    BY <1>1 DEF SyncPage, SyncPageFails, PagesInv
  <2> QED
    BY <1>1, <2>1 DEF SyncPage, SyncPageFails, Fail, Typed
<1>2. CASE UpdateMetadata(r) \/ UpdateMetadataFails(r)
  <2>1. UNCHANGED index \/ index' = Retitled(DocumentId(r), op[r].title)
    BY <1>2 DEF UpdateMetadata, UpdateMetadataFails
  <2>2. pc'[r] \in {"own", "record"}
    BY <1>2 DEF UpdateMetadata, UpdateMetadataFails, Fail, Typed
  <2> QED
    BY <2>1, <2>2 DEF Retitled, PagesInv
<1>3. CASE \/ r \in Ingests /\ (DropRemovedPages(r) \/ DropRemovedPagesFails(r))
           \/ RecordFailure(r) \/ DeleteChunks(r)
  <2>1. UNCHANGED index \/ \E pages : index' = Cleared(DocumentId(r), pages)
    BY <1>3 DEF DropRemovedPages, DropRemovedPagesFails, RecordFailure, DeleteChunks, DocumentId
  <2>2. pc'[r] \in {"metadata", "own", "record", "failed", "commit"}
    BY <1>3 DEF DropRemovedPages, DropRemovedPagesFails, RecordFailure, DeleteChunks, Fail, Typed
  <2> QED
    BY <2>1, <2>2 DEF Cleared, PagesInv
<1>4. CASE \/ Begin(r) \/ OpenDocument(r) \/ CreatedMeanwhile(r)
           \/ SetDocumentOwner(r) \/ SetDocumentOwnerFails(r)
           \/ DropPages(r) \/ MarkDeleted(r) \/ Deadlocked(r) \/ PurgeEdges(r) \/ PurgeEdgesFails(r)
           \/ Commit(r) \/ CommitFails(r)
  <2>1. UNCHANGED index
    BY <1>4 DEF Begin, OpenDocument, CreatedMeanwhile, SetDocumentOwner, SetDocumentOwnerFails,
                DropPages, MarkDeleted, Deadlocked, PurgeEdges, PurgeEdgesFails, Commit, CommitFails
  <2>2. pc'[r] # "begin"
    BY <1>4 DEF Begin, OpenDocument, CreatedMeanwhile, SetDocumentOwner, SetDocumentOwnerFails, Fail,
                DropPages, MarkDeleted, Deadlocked, PurgeEdges, PurgeEdgesFails, Commit, CommitFails, Typed
  <2> QED
    BY <2>1, <2>2
<1> QED
  BY <1>1, <1>2, <1>3, <1>4 DEF RequestStep

\* A document is created by an ingest that succeeds, and before that has no chunks.
FreshInv ==
  /\ row # Nothing => row.id \in Ingests /\ pc[row.id] = "done"
  /\ \A r \in Requests : pc[r] \in {"begin", "open"} => index[r] = [p \in Pages |-> NoChunks]

\* Only an ingest's commit creates the row, and only its own chunks come under a fresh id.
LEMMA FreshStep ==
  ASSUME Inv, FreshInv, NEW r \in Requests, RequestStep(r)
  PROVE  FreshInv'
<1> USE DEF Inv
<1>1. /\ r \notin Ended /\ op' = op /\ \A s \in Requests \ {r} : pc'[s] = pc[s]
      /\ (row # Nothing => row' # Nothing /\ row'.id = row.id)
  BY IndexForms, RowStep
<1>2. row' # Nothing => row'.id \in Ingests /\ pc'[row'.id] = "done"
  <2>1. CASE row # Nothing
    BY <1>1, <2>1 DEF FreshInv, Ended, Ingests
  <2>2. CASE row = Nothing /\ row' # Nothing
    <3>1. loaded[r] = Nothing
      BY <2>2 DEF WhereInv
    <3>2. Commit(r) /\ CommitIngest(r)
      BY <2>2, <3>1
         DEF RequestStep, Begin, OpenDocument, CreatedMeanwhile, SyncPage, SyncPageFails, postgres, stores,
             DropRemovedPages, DropRemovedPagesFails, UpdateMetadata, UpdateMetadataFails, Fail, IsNew,
             SetDocumentOwner, SetDocumentOwnerFails, RecordFailure, DropPages, MarkDeleted, WhereInv,
             Deadlocked, PurgeEdges, PurgeEdgesFails, DeleteChunks, Commit, CommitFails, CommitDelete
    <3>3. row'.id = r /\ pc'[r] = "done"
      BY <3>1, <3>2 DEF Commit, CommitIngest, DocumentId, IsNew, GoTo, Typed
    <3> QED
      BY <3>2, <3>3 DEF CommitIngest
  <2> QED
    BY <2>1, <2>2
<1>3. ASSUME NEW s \in Requests, pc'[s] \in {"begin", "open"}
      PROVE  index'[s] = [p \in Pages |-> NoChunks]
  <2>1. CASE s = r
    <3>1. UNCHANGED index /\ pc'[r] = "open"
      BY <1>3, <2>1, IndexAt
    <3>2. pc[r] = "begin"
      BY <3>1
         DEF RequestStep, Begin, OpenDocument, CreatedMeanwhile, SyncPage, SyncPageFails, Typed, GoTo,
             DropRemovedPages, DropRemovedPagesFails, UpdateMetadata, UpdateMetadataFails, Fail,
             SetDocumentOwner, SetDocumentOwnerFails, RecordFailure, DropPages, MarkDeleted,
             Deadlocked, PurgeEdges, PurgeEdgesFails, DeleteChunks, Commit, CommitFails
    <3> QED
      BY <2>1, <3>1, <3>2 DEF FreshInv
  <2>2. CASE s # r
    <3>1. pc[s] \in {"begin", "open"}
      BY <1>1, <1>3, <2>2
    <3>2. s # DocumentId(r)
      BY <2>2, <3>1 DEF DocumentId, IsNew, WhereInv, FreshInv
    <3> QED
      BY <3>1, <3>2, IndexAt DEF FreshInv
  <2> QED
    BY <2>1, <2>2
<1>4. Ingests' = Ingests
  BY <1>1 DEF Ingests
<1> QED
  BY <1>2, <1>3, <1>4 DEF FreshInv

\* Two requests have not overlapped so far, and no delete with an ingest.
Apart(r, s) == RanApart(r, s) \/ "begin" \in {pc[r], pc[s]}

NoOverlap == kept = {} /\ \A d \in Deletes, r \in Ingests : Apart(d, r)

Running(r) == pc[r] \notin {"begin", "done", "refused", "failed"}

\* Requests that have overlapped stay such.
LEMMA ApartStep ==
  ASSUME Inv, NEW r \in Requests, RequestStep(r)
  PROVE  /\ \A s, t \in Requests : Apart(s, t)' => Apart(s, t)
         /\ NoOverlap' => NoOverlap
<1> USE DEF Inv
<1>1. /\ op' = op /\ \A s \in Requests \ {r} : pc'[s] = pc[s] /\ before'[s] = before[s]
  BY RowStep
<1>2. kept \subseteq kept' /\ (before'[r] = before[r] \/ pc[r] = "begin")
  BY DEF RequestStep, Begin, OpenDocument, CreatedMeanwhile, SyncPage, SyncPageFails,
         DropRemovedPages, DropRemovedPagesFails, UpdateMetadata, UpdateMetadataFails,
         SetDocumentOwner, SetDocumentOwnerFails, RecordFailure, DropPages, MarkDeleted,
         Deadlocked, PurgeEdges, PurgeEdgesFails, DeleteChunks, Commit, CommitFails, Fail, history
<1>3. pc'[r] # "begin" /\ (pc'[r] = "refused" => pc[r] = "begin")
  <2>1. pc'[r] # "begin"
    BY IndexAt
  <2>2. pc'[r] = "refused" => pc[r] = "begin"
    BY DEF RequestStep, Begin, OpenDocument, CreatedMeanwhile, SyncPage, SyncPageFails, Typed, GoTo,
           DropRemovedPages, DropRemovedPagesFails, UpdateMetadata, UpdateMetadataFails, Fail,
           SetDocumentOwner, SetDocumentOwnerFails, RecordFailure, DropPages, MarkDeleted,
           Deadlocked, PurgeEdges, PurgeEdgesFails, DeleteChunks, Commit, CommitFails
  <2> QED
    BY <2>1, <2>2
<1>4. \A s, t \in Requests : Apart(s, t)' => Apart(s, t)
  BY <1>1, <1>2, <1>3 DEF Apart, RanApart
<1>5. Deletes' = Deletes /\ Ingests' = Ingests /\ Ingests \subseteq Requests /\ Deletes \subseteq Requests
  BY <1>1 DEF Deletes, Ingests
<1> QED
  BY <1>2, <1>4, <1>5 DEF NoOverlap

\* Of two requests that have not overlapped at most one is running.
LEMMA OneRuns ==
  ASSUME GoneInv, NEW r \in Requests, NEW s \in Requests, Apart(r, s)
  PROVE  ~Running(r) \/ ~Running(s)
  BY DEF GoneInv, Apart, RanApart, Running, Ended

\* The chunks are those of a content, or of none.
Shows(chunks, hash) ==
  \A i \in 1 .. MostChunks :
    IF hash # Nothing /\ i <= ChunkCount[hash]
    THEN chunks[i] # Nothing /\ chunks[i].text = hash
    ELSE chunks[i] = Nothing

\* A delete holds the page rows that are left, and has removed the chunks before it commits.
DeleteInv ==
  NoOverlap => \A d \in Deletes :
    /\ pc[d] \in {"mark", "purge", "chunks", "commit"} =>
         \A p \in Pages : pageRow[p] # Nothing => pageLock[p] = d
    /\ pc[d] = "commit" => \A p \in Pages : index[row.id][p] = NoChunks

\* The steps of a delete, for the pages.
LEMMA DeleteForms ==
  ASSUME Inv, NEW r \in Deletes, RequestStep(r)
  PROVE  \/ Begin(r)
         \/ /\ Running(r) /\ row # Nothing /\ row' # Nothing /\ row'.id = row.id
               /\ row'.title = row.title
            /\ \A p \in Pages : \/ pageRow'[p] = pageRow[p]
                                \/ Commit(r) /\ pageLock[p] = r /\ pageRow'[p] = Nothing
            /\ \A p \in Pages : pageLock'[p] = pageLock[p] \/ pageLock[p] \in {r, Nothing}
            /\ \/ UNCHANGED index
               \/ DeleteChunks(r) /\ \A p \in Pages : index'[row.id][p] = NoChunks
            /\ torn \subseteq torn' /\ (Commit(r) \/ CommitFails(r) \/ pc[r] # "commit")
<1> USE DEF Inv, GoTo, stores, postgres, locks, locals, history, Deletes
<1>1. CASE Begin(r)
  BY <1>1
<1>2. CASE \/ DropPages(r) \/ MarkDeleted(r) \/ Deadlocked(r) \/ PurgeEdges(r) \/ PurgeEdgesFails(r)
           \/ DeleteChunks(r) \/ Commit(r) \/ CommitFails(r)
  <2>1. pc[r] \in {"pages", "mark", "purge", "chunks", "commit"} /\ loaded[r] # Nothing /\ row # Nothing
        /\ row.id = loaded[r].id /\ DocumentId(r) = row.id /\ row \in Rows /\ row.id \in Requests
    BY <1>2 DEF WhereInv, DropPages, MarkDeleted, Deadlocked, PurgeEdges, PurgeEdgesFails, DeleteChunks,
                Commit, CommitFails, DocumentId, IsNew, Typed, DocumentRows, Rows
  <2>2. row' # Nothing /\ row'.id = row.id /\ row'.title = row.title
    <3>1. row' = row \/ row' = [row EXCEPT !.status = "deleted"]
      BY <1>2 DEF DropPages, MarkDeleted, Deadlocked, PurgeEdges, PurgeEdgesFails, DeleteChunks,
                  Commit, CommitFails, CommitDelete, CommitIngest
    <3>2. [row EXCEPT !.status = "deleted"] \in Rows
      BY <2>1 DEF Rows
    <3> QED
      BY <2>1, <3>1, <3>2, PipelineAssumption DEF Rows
  <2>3. \A p \in Pages : \/ pageRow'[p] = pageRow[p]
                         \/ Commit(r) /\ pageLock[p] = r /\ pageRow'[p] = Nothing
    <3>1. CASE Commit(r)
      <4>1. pageRow' = [p \in Pages |-> IF pageLock[p] = r THEN Nothing ELSE pageRow[p]]
        BY <3>1 DEF Commit, CommitDelete, CommitIngest
      <4> QED
        BY <3>1, <4>1
    <3>2. CASE ~Commit(r)
      BY <1>2, <3>2 DEF DropPages, MarkDeleted, Deadlocked, PurgeEdges, PurgeEdgesFails, DeleteChunks,
                        CommitFails
    <3> QED
      BY <3>1, <3>2
  <2>4. \A p \in Pages : pageLock'[p] = pageLock[p] \/ pageLock[p] \in {r, Nothing}
    <3>1. CASE DropPages(r)
      <4>1. \A p \in Pages : pageLock'[p] = pageLock[p] \/ pageRow[p] # Nothing
        BY <3>1 DEF DropPages
      <4> QED
        BY <3>1, <4>1 DEF DropPages
    <3>2. CASE ~DropPages(r)
      BY <1>2, <3>2 DEF MarkDeleted, Deadlocked, PurgeEdges, PurgeEdgesFails, DeleteChunks,
                        Commit, CommitFails, ReleaseRows
    <3> QED
      BY <3>1, <3>2
  <2>5. \/ UNCHANGED index
        \/ DeleteChunks(r) /\ \A p \in Pages : index'[row.id][p] = NoChunks
    <3>1. index' = Cleared(row.id, Pages) => \A p \in Pages : index'[row.id][p] = NoChunks
      BY <2>1, ClearedAt
    <3> QED
      BY <1>2, <2>1, <3>1 DEF DropPages, MarkDeleted, Deadlocked, PurgeEdges, PurgeEdgesFails, DeleteChunks,
                              Commit, CommitFails
  <2>6. torn \subseteq torn' /\ (Commit(r) \/ CommitFails(r) \/ pc[r] # "commit")
    <3>1. CASE CommitFails(r)
      BY <3>1 DEF CommitFails, Typed
    <3>2. CASE ~CommitFails(r)
      BY <1>2, <3>2 DEF DropPages, MarkDeleted, Deadlocked, PurgeEdges, PurgeEdgesFails, DeleteChunks,
                        Commit, CommitDelete, CommitIngest
    <3> QED
      BY <3>1, <3>2
  <2>7. Running(r)
    BY <2>1 DEF Running
  <2> QED
    BY <2>1, <2>2, <2>3, <2>4, <2>5, <2>6, <2>7
<1>3. \/ Begin(r) \/ DropPages(r) \/ MarkDeleted(r) \/ Deadlocked(r) \/ PurgeEdges(r)
      \/ PurgeEdgesFails(r) \/ DeleteChunks(r) \/ Commit(r) \/ CommitFails(r)
  BY DEF RequestStep, WhereInv, OpenDocument, CreatedMeanwhile, SyncPage, SyncPageFails,
         UpdateMetadata, UpdateMetadataFails, SetDocumentOwner, SetDocumentOwnerFails, RecordFailure
<1> QED
  BY <1>1, <1>2, <1>3

\* While a delete runs, no ingest changes what it holds and has removed.
LEMMA DeleteStep ==
  ASSUME Inv, Inv', DeleteInv, NEW r \in Requests, RequestStep(r)
  PROVE  DeleteInv'
<1> USE DEF Inv
<1>1. /\ r \notin Ended /\ op' = op /\ \A s \in Requests \ {r} : pc'[s] = pc[s]
  BY IndexForms, RowStep
<1>2. Deletes' = Deletes /\ Deletes \subseteq Requests /\ Ingests \subseteq Requests /\ kept \subseteq kept'
  BY <1>1 DEF Deletes, Ingests, RequestStep, Begin, OpenDocument, CreatedMeanwhile, SyncPage, SyncPageFails,
         DropRemovedPages, DropRemovedPagesFails, UpdateMetadata, UpdateMetadataFails,
         SetDocumentOwner, SetDocumentOwnerFails, RecordFailure, DropPages, MarkDeleted,
         Deadlocked, PurgeEdges, PurgeEdgesFails, DeleteChunks, Commit, CommitFails, Fail, history
<1> SUFFICES ASSUME NoOverlap', NEW d \in Deletes, pc'[d] \in {"mark", "purge", "chunks", "commit"}
             PROVE  /\ \A p \in Pages : pageRow'[p] # Nothing => pageLock'[p] = d
                    /\ pc'[d] = "commit" => \A p \in Pages : index'[row'.id][p] = NoChunks
  BY <1>2 DEF DeleteInv
<1>3. NoOverlap
  BY ApartStep
<1>4. \A s \in Ingests : ~Running(s) \/ ~Running(d)
  BY <1>2, <1>3, OneRuns DEF NoOverlap
<1>5. CASE d = r
  <2>1. ~Begin(r) /\ ~CommitFails(r) /\ ~Commit(r) /\ ~Deadlocked(r) /\ ~PurgeEdgesFails(r)
    BY <1>5 DEF Begin, CommitFails, Commit, Deadlocked, PurgeEdgesFails, GoTo, Typed, Deletes
  <2>2. row # Nothing /\ row'.id = row.id /\ \A p \in Pages : pageRow'[p] = pageRow[p]
    BY <1>5, <2>1, DeleteForms
  <2>3. CASE DropPages(r)
    <3>1. /\ pageLock' = [p \in Pages |-> IF pageRow[p] # Nothing THEN r ELSE pageLock[p]]
          /\ pc'[r] = "mark"
      BY <2>3 DEF DropPages, GoTo, Typed
    <3> QED
      BY <1>5, <2>2, <3>1
  <2>4. CASE ~DropPages(r)
    <3>1. pageLock' = pageLock /\ pc[r] \in {"mark", "purge", "chunks"}
          /\ (pc'[r] = "commit" => DeleteChunks(r) /\ index' = Cleared(DocumentId(r), Pages))
      <4>1. MarkDeleted(r) \/ PurgeEdges(r) \/ DeleteChunks(r)
        BY <1>5, <2>1, <2>4
           DEF RequestStep, WhereInv, OpenDocument, CreatedMeanwhile, SyncPage, SyncPageFails, Deletes,
               UpdateMetadata, UpdateMetadataFails, SetDocumentOwner, SetDocumentOwnerFails, RecordFailure
      <4> QED
        BY <4>1 DEF MarkDeleted, PurgeEdges, DeleteChunks, locks, GoTo, Typed, NoOverlap
    <3>2. \A p \in Pages : pageRow'[p] # Nothing => pageLock'[p] = r
      BY <1>3, <1>5, <2>2, <3>1 DEF DeleteInv
    <3>3. pc'[r] = "commit" => \A p \in Pages : index'[row.id][p] = NoChunks
      <4> SUFFICES ASSUME pc'[r] = "commit" PROVE \A p \in Pages : index'[row.id][p] = NoChunks
        OBVIOUS
      <4>1. index' = Cleared(DocumentId(r), Pages)
        BY <3>1
      <4>2. DocumentId(r) = row.id /\ row.id \in Requests
        BY <1>5, <3>1, DocumentFacts DEF WhereInv, DocumentId, IsNew
      <4> QED
        BY <4>1, <4>2, ClearedAt
    <3> QED
      BY <1>5, <2>2, <3>2, <3>3
  <2> QED
    BY <2>3, <2>4
<1>6. CASE d # r
  <2>1. pc'[d] = pc[d] /\ Running(d) /\ row # Nothing /\ row.id \in Requests
    BY <1>1, <1>2, <1>6 DEF Running, WhereInv, Typed, DocumentRows, Rows
  <2>2. /\ \A p \in Pages : pageRow[p] # Nothing => pageLock[p] = d
        /\ pc[d] = "commit" => \A p \in Pages : index[row.id][p] = NoChunks
    BY <1>3, <2>1 DEF DeleteInv
  <2>3. CASE Begin(r)
    BY <2>1, <2>2, <2>3 DEF Begin, stores, locks
  <2>4. CASE ~Begin(r)
    <3>1. r \in Deletes
      <4>1. Running(r)
        BY <1>1, <2>4 DEF Running, Ended, RequestStep, OpenDocument, CreatedMeanwhile, SyncPage, SyncPageFails,
               DropRemovedPages, DropRemovedPagesFails, UpdateMetadata, UpdateMetadataFails,
               SetDocumentOwner, SetDocumentOwnerFails, RecordFailure, DropPages, MarkDeleted,
               Deadlocked, PurgeEdges, PurgeEdgesFails, DeleteChunks, Commit, CommitFails
      <4> QED
        BY <1>4, <2>1, <4>1 DEF Deletes
    <3>2. /\ row'.id = row.id /\ \A p \in Pages : pageRow'[p] = pageRow[p] \/ pageRow'[p] = Nothing
          /\ \A p \in Pages : pageLock'[p] = pageLock[p] \/ pageLock[p] \in {r, Nothing}
          /\ \/ UNCHANGED index
             \/ \A p \in Pages : index'[row.id][p] = NoChunks
      BY <2>4, <3>1, DeleteForms
    <3>3. d # Nothing
      BY <1>2, PipelineAssumption
    <3> QED
      BY <1>6, <2>1, <2>2, <3>2, <3>3
  <2> QED
    BY <2>3, <2>4
<1> QED
  BY <1>5, <1>6

Writers == {r \in Ingests : pc[r] \in Writing}

\* What an open ingest has done: page by page the index says what its transaction says.
WriterOk(w) ==
  /\ known[w] = pageRow
  /\ \A p \in Pages : p \notin torn \/ p \in Changed(w) =>
       Shows(index[DocumentId(w)][p], staged[w][p])

WriterInv == NoOverlap => \A w \in Writers : WriterOk(w)

\* Between ingests the index says what the rows say, or a delete that has removed the
\* chunks is about to commit that the page's row is gone.
RestInv ==
  NoOverlap /\ row # Nothing /\ Writers = {} => \A p \in Pages \ torn :
    \/ Shows(index[row.id][p], pageRow[p])
    \/ \E d \in Deletes : pc[d] = "commit" /\ pageLock[p] = d

\* Pages as a step stores, clears or renames them.
LEMMA ShowsFacts ==
  ASSUME Typed, NEW r \in Ingests, NEW p \in DOMAIN op[r].pages, NEW chunks
  PROVE  /\ Shows(NoChunks, Nothing)
         /\ Shows(PageChunks(r, op[r].pages[p], chunks), op[r].pages[p])
<1>1. op[r].pages[p] \in Contents /\ op[r].title \in Titles /\ r \in Requests
  BY OpFacts DEF Ingests
<1>2. Chunk(r, op[r].pages[p]) # Nothing /\ Chunk(r, op[r].pages[p]).text = op[r].pages[p]
  BY <1>1, PipelineAssumption DEF Chunk, Chunks
<1>3. op[r].pages[p] # Nothing
  BY <1>1, PipelineAssumption
<1>4. Shows(NoChunks, Nothing)
  BY DEF Shows, NoChunks
<1> QED
  BY <1>2, <1>3, <1>4 DEF Shows, PageChunks, Upserted, NoChunks

\* An open ingest is the only one, and works on the row's document if there is one.
LEMMA WriterFacts ==
  ASSUME Inv, NEW r \in Writers
  PROVE  /\ r \in Requests /\ r \in Ingests /\ rowLock = r /\ Writers = {r}
         /\ row # Nothing => ~IsNew(r) /\ row.id = DocumentId(r)
         /\ ~IsNew(r) => row # Nothing
         /\ Running(r)
<1>1. \A w \in Writers : w \in Requests /\ w \in Ingests /\ rowLock = w /\ (IsNew(w) => row = Nothing)
  BY DEF Writers, Ingests, Inv, WhereInv
<1>2. ~IsNew(r) => row # Nothing /\ row.id = DocumentId(r)
  BY <1>1 DEF IsNew, DocumentId, Inv, WhereInv
<1> QED
  BY <1>1, <1>2 DEF Writers, Writing, Running

\* The steps an open ingest succeeds with.
LEMMA WriterGoesOn ==
  ASSUME Inv, NEW r \in Writers, RequestStep(r), pc'[r] \in Writing
  PROVE  \/ \E p \in left[r] : SyncPage(r, p)
         \/ DropRemovedPages(r) \/ UpdateMetadata(r) \/ SetDocumentOwner(r)
  BY DEF Writers, Writing, Ingests, Inv, WhereInv, Typed, GoTo, Fail,
         RequestStep, Begin, OpenDocument, CreatedMeanwhile, SyncPageFails,
         DropRemovedPagesFails, UpdateMetadataFails,
         SetDocumentOwnerFails, RecordFailure, DropPages, MarkDeleted,
         Deadlocked, PurgeEdges, PurgeEdgesFails, DeleteChunks, Commit, CommitFails

\* Each of them leaves the index as the transaction's page rows.
LEMMA WriterStep ==
  ASSUME Inv, NEW r \in Writers, RequestStep(r), pc'[r] \in Writing, WriterOk(r)
  PROVE  WriterOk(r)'
<1> USE DEF Inv
<1>1. r \in Requests /\ r \in Ingests /\ DocumentId(r) \in Requests
  BY WriterFacts, DocumentFacts
<1>2. UNCHANGED <<loaded, known, pageRow, torn>> /\ DocumentId(r)' = DocumentId(r)
  <2>1. UNCHANGED <<loaded, known, pageRow, torn>>
    BY WriterGoesOn DEF SyncPage, DropRemovedPages, UpdateMetadata, SetDocumentOwner,
                        postgres, stores, locals, history
  <2> QED
    BY <2>1 DEF DocumentId, IsNew
<1> DEFINE id == DocumentId(r)
<1>3. ASSUME NEW q \in left[r], SyncPage(r, q), NEW p \in Pages, p \notin torn \/ p \in Changed(r)'
      PROVE  Shows(index'[id][p], staged'[r][p])
  <2>1. q \in DOMAIN op[r].pages /\ q \in Pages
    BY <1>1, <1>3, OpFacts DEF WhereInv
  <2> DEFINE new == PageChunks(r, op[r].pages[q], index[id][q])
  <2>2. CASE known[r][q] = op[r].pages[q]
    BY <1>2, <1>3, <2>2 DEF SyncPage, WriterOk, Changed
  <2>3. CASE known[r][q] # op[r].pages[q]
    <3>1. /\ index' = [index EXCEPT ![id][q] = new]
          /\ staged' = [staged EXCEPT ![r][q] = op[r].pages[q]]
      BY <1>3, <2>3 DEF SyncPage
    <3>2. Shows(new, op[r].pages[q])
      BY <1>1, <2>1, ShowsFacts
    <3> HIDE DEF new
    <3>3. CASE p = q
      BY <1>1, <2>1, <3>1, <3>2, <3>3 DEF PagesInv, Typed
    <3>4. CASE p # q
      <4>1. index'[id][p] = index[id][p] /\ staged'[r][p] = staged[r][p]
        BY <1>1, <3>1, <3>4 DEF PagesInv, Typed
      <4> QED
        BY <1>2, <1>3, <4>1 DEF WriterOk, Changed
    <3> QED
      BY <3>3, <3>4
  <2> QED
    BY <2>2, <2>3
<1>4. ASSUME DropRemovedPages(r), NEW p \in Pages, p \notin torn \/ p \in Changed(r)'
      PROVE  Shows(index'[id][p], staged'[r][p])
  <2>1. /\ index'[id][p] = IF p \in Removed(r) THEN NoChunks ELSE index[id][p]
        /\ staged'[r][p] = IF p \in Removed(r) THEN Nothing ELSE staged[r][p]
    BY <1>1, <1>4, ClearedAt DEF DropRemovedPages, Typed
  <2>2. CASE p \in Removed(r)
    BY <2>1, <2>2 DEF Shows, NoChunks
  <2>3. CASE p \notin Removed(r)
    BY <1>2, <1>4, <2>1, <2>3 DEF WriterOk, Changed
  <2> QED
    BY <2>2, <2>3
<1>5. ASSUME UpdateMetadata(r), NEW p \in Pages, p \notin torn \/ p \in Changed(r)'
      PROVE  Shows(index'[id][p], staged'[r][p])
  <2>1. staged' = staged /\ index' = Retitled(id, op[r].title) /\ op[r].title \in Titles
    BY <1>1, <1>5, OpFacts DEF UpdateMetadata, locals
  <2>2. Shows(index[id][p], staged[r][p])
    BY <1>2, <1>5, <2>1 DEF WriterOk, Changed
  <2> QED
    BY <1>1, <2>1, <2>2, RetitledAt DEF Shows
<1>6. ASSUME SetDocumentOwner(r), NEW p \in Pages, p \notin torn \/ p \in Changed(r)'
      PROVE  Shows(index'[id][p], staged'[r][p])
  BY <1>2, <1>6 DEF SetDocumentOwner, locals, WriterOk, Changed
<1>7. \A p \in Pages : p \notin torn \/ p \in Changed(r)' => Shows(index'[id][p], staged'[r][p])
  BY <1>3, <1>4, <1>5, <1>6, WriterGoesOn
<1> QED
  BY <1>2, <1>7 DEF WriterOk

\* The ways an ingest ends: what a failing call has changed of the chunks is of `torn` pages,
\* or a title.
LEMMA WriterEnds ==
  ASSUME Inv, NEW r \in Writers, RequestStep(r), pc'[r] \notin Writing
  PROVE  \/ CommitFails(r)
         \/ Commit(r) /\ CommitIngest(r)
         \/ \E pages :
              /\ Fail(r, pages) /\ pc'[r] = "record"
              /\ \/ \A p \in Pages \ pages : index'[DocumentId(r)][p] = index[DocumentId(r)][p]
                 \/ pc[r] = "metadata" /\ index' = Retitled(DocumentId(r), op[r].title)
<1> USE DEF Inv
<1>1. r \in Requests /\ r \in Ingests /\ DocumentId(r) \in Requests /\ pc[r] \in Writing
  BY WriterFacts, DocumentFacts DEF Writers
<1>2. \A pages : Fail(r, pages) => pc'[r] = "record"
  BY <1>1 DEF Fail, GoTo, Typed
<1>3. ASSUME NEW q \in left[r], SyncPageFails(r, q)
      PROVE  \E pages : Fail(r, pages) /\ \A p \in Pages \ pages : index'[DocumentId(r)][p] = index[DocumentId(r)][p]
  <2>1. q \in Pages
    BY <1>1, <1>3 DEF Typed
  <2>2. CASE UNCHANGED index /\ Fail(r, {})
    BY <2>2
  <2>3. CASE \E new : index' = [index EXCEPT ![DocumentId(r)][q] = new] /\ Fail(r, {q})
    BY <1>1, <2>1, <2>3 DEF PagesInv
  <2> QED
    BY <1>3, <2>2, <2>3 DEF SyncPageFails
<1>4. ASSUME DropRemovedPagesFails(r)
      PROVE  \E pages : Fail(r, pages) /\ \A p \in Pages \ pages : index'[DocumentId(r)][p] = index[DocumentId(r)][p]
  BY <1>1, <1>4, ClearedAt DEF DropRemovedPagesFails
<1>5. ASSUME UpdateMetadataFails(r)
      PROVE  /\ Fail(r, {})
             /\ \/ index' = index
                \/ pc[r] = "metadata" /\ index' = Retitled(DocumentId(r), op[r].title)
  <2>1. pc[r] = "metadata" /\ Fail(r, {})
    BY <1>5 DEF UpdateMetadataFails
  <2>2. index' = index \/ index' = Retitled(DocumentId(r), op[r].title)
    BY <1>5 DEF UpdateMetadataFails
  <2> QED
    BY <2>1, <2>2
<1>6. ASSUME SetDocumentOwnerFails(r)
      PROVE  Fail(r, {}) /\ UNCHANGED index
  BY <1>6 DEF SetDocumentOwnerFails
<1>7. \/ \E q \in left[r] : SyncPageFails(r, q)
      \/ DropRemovedPagesFails(r) \/ UpdateMetadataFails(r) \/ SetDocumentOwnerFails(r)
      \/ CommitFails(r) \/ Commit(r)
  BY <1>1 DEF Writing, WhereInv, Typed, GoTo,
         RequestStep, Begin, OpenDocument, CreatedMeanwhile, SyncPage,
         DropRemovedPages, UpdateMetadata, Deletes,
         SetDocumentOwner, RecordFailure, DropPages, MarkDeleted,
         Deadlocked, PurgeEdges, PurgeEdgesFails, DeleteChunks
<1>8. Commit(r) => CommitIngest(r)
  BY <1>1 DEF Commit, CommitDelete, Deletes
<1> QED
  BY <1>2, <1>3, <1>4, <1>5, <1>6, <1>7, <1>8

\* An ingest that commits leaves the rows as the index is; one that fails leaves the index as
\* the rows are, but for the pages that are `torn` now.
LEMMA WriterLeaves ==
  ASSUME Inv, NEW r \in Writers, RequestStep(r), pc'[r] \notin Writing, WriterOk(r), row' # Nothing
  PROVE  \A p \in Pages \ torn' : Shows(index'[row'.id][p], pageRow'[p])
<1> USE DEF Inv
<1>1. r \in Requests /\ r \in Ingests /\ DocumentId(r) \in Requests /\ row' # Nothing
      /\ (row # Nothing => ~IsNew(r) /\ row.id = DocumentId(r) /\ row'.id = row.id)
  BY WriterFacts, DocumentFacts, RowStep
<1>2. \A p \in Pages : p \notin Changed(r) => staged[r][p] = pageRow[p]
  BY DEF Changed, WriterOk
<1>3. CASE Commit(r) /\ CommitIngest(r)
  <2>1. row'.id = DocumentId(r) /\ index' = index /\ torn' = torn \ Changed(r)
        /\ pageRow' = [p \in Pages |-> IF p \in Changed(r) THEN staged[r][p] ELSE pageRow[p]]
    BY <1>3 DEF Commit, CommitIngest
  <2> QED
    BY <1>2, <2>1 DEF WriterOk
<1>4. CASE CommitFails(r)
  <2>1. UNCHANGED <<row, pageRow, index>> /\ row.id = DocumentId(r) /\ torn' = torn \union Changed(r)
    BY <1>1, <1>4 DEF CommitFails, stores, Deletes
  <2> QED
    BY <1>2, <2>1 DEF WriterOk
<1>5. ASSUME NEW pages, Fail(r, pages), NEW p \in Pages \ torn',
             \/ \A q \in Pages \ pages : index'[DocumentId(r)][q] = index[DocumentId(r)][q]
             \/ index' = Retitled(DocumentId(r), op[r].title)
      PROVE  Shows(index'[row'.id][p], pageRow'[p])
  <2>1. UNCHANGED <<row, pageRow>> /\ row.id = DocumentId(r) /\ torn' = torn \union Changed(r) \union pages
    BY <1>1, <1>5 DEF Fail, postgres
  <2>2. Shows(index[DocumentId(r)][p], pageRow[p])
    BY <1>2, <1>5, <2>1 DEF WriterOk
  <2>3. CASE index'[DocumentId(r)][p] = index[DocumentId(r)][p]
    BY <2>1, <2>2, <2>3
  <2>4. CASE index' = Retitled(DocumentId(r), op[r].title)
    <3>1. op[r].title \in Titles
      BY <1>1, OpFacts
    <3> QED
      BY <1>1, <2>1, <2>2, <2>4, <3>1, RetitledAt DEF Shows
  <2> QED
    BY <1>5, <2>1, <2>3, <2>4
<1> QED
  BY <1>3, <1>4, <1>5, WriterEnds

\* What stays of other requests and of Writers in a step of r.
LEMMA Others ==
  ASSUME Inv, NEW r \in Requests, RequestStep(r)
  PROVE  /\ Ingests' = Ingests /\ Deletes' = Deletes
         /\ \A s \in Requests \ {r} : /\ pc'[s] = pc[s] /\ loaded'[s] = loaded[s] /\ known'[s] = known[s]
                                      /\ staged'[s] = staged[s]
         /\ Writers \ {r} = Writers' \ {r}
         /\ r \in Writers' <=> r \in Ingests /\ pc'[r] \in Writing
<1>1. op' = op /\ \A s \in Requests \ {r} : pc'[s] = pc[s] /\ loaded'[s] = loaded[s]
  BY RowStep DEF Inv
<1>2. \A s \in Requests \ {r} : known'[s] = known[s] /\ staged'[s] = staged[s]
  BY DEF Inv, Typed, RequestStep, Begin, OpenDocument, CreatedMeanwhile, SyncPage, SyncPageFails,
         DropRemovedPages, DropRemovedPagesFails, UpdateMetadata, UpdateMetadataFails,
         SetDocumentOwner, SetDocumentOwnerFails, RecordFailure, DropPages, MarkDeleted,
         Deadlocked, PurgeEdges, PurgeEdgesFails, DeleteChunks, Commit, CommitFails, Fail, locals
<1>3. Ingests' = Ingests /\ Deletes' = Deletes /\ Ingests \subseteq Requests
  BY <1>1 DEF Ingests, Deletes
<1> QED
  BY <1>1, <1>2, <1>3 DEF Writers

\* A delete leaves chunks and rows alike, or holds the rows of the chunks it has removed.
LEMMA DeleteRests ==
  ASSUME Inv, DeleteInv, RestInv, NoOverlap, NEW r \in Deletes, RequestStep(r), ~Begin(r), Writers = {},
         NEW p \in Pages, p \notin torn'
  PROVE  \/ Shows(index'[row'.id][p], pageRow'[p])
         \/ \E d \in Deletes : pc'[d] = "commit" /\ pageLock'[p] = d
<1> USE DEF Inv
<1>1. /\ Running(r) /\ row # Nothing /\ row'.id = row.id
      /\ pageRow'[p] = pageRow[p] \/ Commit(r)
      /\ pageLock'[p] = pageLock[p] \/ pageLock[p] \in {r, Nothing}
      /\ \/ UNCHANGED index
         \/ DeleteChunks(r) /\ index'[row.id][p] = NoChunks
      /\ torn \subseteq torn' /\ (Commit(r) \/ CommitFails(r) \/ pc[r] # "commit")
  <2>1. r \in Deletes /\ p \in Pages /\ ~Begin(r)
    OBVIOUS
  <2>2. /\ Running(r) /\ row # Nothing /\ row'.id = row.id
        /\ torn \subseteq torn' /\ (Commit(r) \/ CommitFails(r) \/ pc[r] # "commit")
    BY <2>1, DeleteForms
  <2>3. pageRow'[p] = pageRow[p] \/ Commit(r)
    BY <2>1, DeleteForms
  <2>4. pageLock'[p] = pageLock[p] \/ pageLock[p] \in {r, Nothing}
    BY <2>1, DeleteForms
  <2>5. UNCHANGED index \/ (DeleteChunks(r) /\ index'[row.id][p] = NoChunks)
    BY <2>1, DeleteForms
  <2> QED
    BY <2>2, <2>3, <2>4, <2>5
<1>2. r \in Requests /\ \A d \in Deletes : d \in Requests /\ d # Nothing
  BY PipelineAssumption DEF Deletes
<1>3. \/ Shows(index[row.id][p], pageRow[p])
      \/ \E d \in Deletes : pc[d] = "commit" /\ pageLock[p] = d
  BY <1>1 DEF RestInv
<1>4. Shows(NoChunks, Nothing)
  BY DEF Shows, NoChunks
<1>5. CASE Commit(r)
  <2>1. pageRow' = [q \in Pages |-> IF pageLock[q] = r THEN Nothing ELSE pageRow[q]] /\ index' = index
        /\ pc[r] = "commit"
    BY <1>5 DEF Commit, CommitDelete, CommitIngest, Deletes
  <2>2. CASE pageLock[p] = r
    <3>1. index[row.id][p] = NoChunks
      BY <2>1 DEF DeleteInv
    <3> QED
      BY <1>1, <1>4, <2>1, <2>2, <3>1
  <2>3. CASE pageLock[p] # r
    <3>1. pageRow'[p] = pageRow[p]
      BY <2>1, <2>3
    <3>2. \A d \in Deletes : pc[d] = "commit" /\ pageLock[p] = d => pc'[d] = "commit" /\ pageLock'[p] = d
      BY <1>1, <1>2, <2>3, Others
    <3> QED
      BY <1>1, <1>3, <2>1, <3>1, <3>2
  <2> QED
    BY <2>2, <2>3
<1>6. CASE CommitFails(r)
  BY <1>6 DEF CommitFails
<1>7. CASE pc[r] # "commit" /\ ~Commit(r)
  <2>1. \A d \in Deletes : pc[d] = "commit" /\ pageLock[p] = d => pc'[d] = "commit" /\ pageLock'[p] = d
    BY <1>1, <1>2, <1>7, Others
  <2>2. pageRow'[p] = pageRow[p]
    BY <1>1, <1>7
  <2>3. CASE UNCHANGED index
    BY <1>1, <1>3, <2>1, <2>2, <2>3
  <2>4. CASE DeleteChunks(r) /\ index'[row.id][p] = NoChunks
    <3>1. pc[r] = "chunks" /\ pc'[r] = "commit" /\ pageLock' = pageLock
      BY <1>2, <2>4 DEF DeleteChunks, GoTo, Typed, locks
    <3>2. pageRow[p] # Nothing => pageLock[p] = r
      BY <3>1 DEF DeleteInv
    <3> QED
      BY <1>1, <1>4, <2>2, <2>4, <3>1, <3>2
  <2> QED
    BY <1>1, <2>3, <2>4
<1> QED
  BY <1>1, <1>5, <1>6, <1>7

\* An ingest that opens its document finds the index as the rows are.
LEMMA OpenedOk ==
  ASSUME Inv, FreshInv, RestInv, NoOverlap, NEW r \in Ingests, OpenDocument(r)
  PROVE  Writers = {} /\ WriterOk(r)'
<1> USE DEF Inv
<1>1. /\ r \in Requests /\ pc[r] = "open" /\ rowLock = Nothing /\ (IsNew(r) => row = Nothing)
      /\ known'[r] = pageRow /\ staged'[r] = pageRow /\ UNCHANGED <<pageRow, index, torn, loaded>>
  BY DEF OpenDocument, stores, history, Typed, Ingests
<1>2. Writers = {}
  <2>1. \A w \in Writers : rowLock = w /\ w # Nothing
    BY PipelineAssumption DEF WhereInv, Writers, Ingests
  <2> QED
    BY <1>1, <2>1
<1>3. \A d \in Deletes : pc[d] # "commit"
  BY <1>1, OneRuns DEF NoOverlap, Running, Deletes
<1>4. ASSUME NEW p \in Pages, p \notin torn
      PROVE  Shows(index[DocumentId(r)][p], pageRow[p])
  <2>1. CASE IsNew(r)
    <3>1. index[DocumentId(r)][p] = NoChunks /\ pageRow[p] = Nothing
      BY <1>1, <2>1 DEF FreshInv, DocumentId, Typed, NoPages
    <3> QED
      BY <3>1 DEF Shows, NoChunks
  <2>2. CASE ~IsNew(r)
    <3>1. row # Nothing /\ row.id = DocumentId(r)
      BY <1>1, <2>2 DEF IsNew, DocumentId, WhereInv
    <3> QED
      BY <1>2, <1>3, <1>4, <3>1 DEF RestInv
  <2> QED
    BY <2>1, <2>2
<1>5. DocumentId(r)' = DocumentId(r) /\ Changed(r)' = {}
  BY <1>1 DEF DocumentId, IsNew, Changed
<1> QED
  BY <1>1, <1>2, <1>4, <1>5 DEF WriterOk

\* A step that leaves rows, page rows and locks and the chunks of the row's document and of the
\* open ingest's alone disturbs nothing.
LEMMA Undisturbed ==
  ASSUME Inv, WriterInv, RestInv, NoOverlap, NEW r \in Requests \ Writers, RequestStep(r),
         pc'[r] \notin Writing, pc[r] # "commit", UNCHANGED <<pageRow, pageLock, torn>>,
         row' # Nothing => row # Nothing /\ row'.id = row.id,
         row # Nothing => index'[row.id] = index[row.id],
         \A w \in Writers : index'[DocumentId(w)] = index[DocumentId(w)]
  PROVE  WriterInv' /\ RestInv'
<1>1. Writers' = Writers /\ Deletes' = Deletes
  BY Others
<1>2. ASSUME NEW w \in Writers PROVE WriterOk(w)'
  <2>1. w \in Requests \ {r}
    BY DEF Writers, Ingests
  <2>2. loaded'[w] = loaded[w] /\ known'[w] = known[w] /\ staged'[w] = staged[w]
    BY <2>1, Others
  <2>3. DocumentId(w)' = DocumentId(w) /\ Changed(w)' = Changed(w)
    BY <2>2 DEF DocumentId, IsNew, Changed
  <2>4. WriterOk(w)
    BY DEF WriterInv
  <2> QED
    BY <2>2, <2>3, <2>4 DEF WriterOk
<1>3. \A d \in Deletes : pc[d] = "commit" => pc'[d] = "commit"
  BY Others DEF Deletes
<1>4. RestInv'
  BY <1>1, <1>3 DEF RestInv
<1> QED
  BY <1>1, <1>2, <1>4 DEF WriterInv

\* What the index says of an open ingest, and at rest, is kept by every step.
LEMMA RestStep ==
  ASSUME Inv, Inv', FreshInv, DeleteInv, WriterInv, RestInv, NEW r \in Requests, RequestStep(r)
  PROVE  WriterInv' /\ RestInv'
<1> SUFFICES ASSUME NoOverlap' PROVE WriterInv' /\ RestInv'
  BY DEF WriterInv, RestInv
<1> USE DEF Inv
<1>1. NoOverlap
  BY ApartStep
<1>2. Writers' \subseteq Writers \union {r} /\ Writers \ {r} \subseteq Writers' /\ Deletes' = Deletes
  BY Others
<1>3. CASE Begin(r) \/ CreatedMeanwhile(r)
  <2>1. /\ UNCHANGED <<row, pageRow, pageLock, torn, index>>
        /\ pc[r] \in {"begin", "open"} /\ pc'[r] \notin Writing
    BY <1>3 DEF Begin, CreatedMeanwhile, stores, locks, history, GoTo, Typed, Writing
  <2>2. r \notin Writers
    BY <2>1 DEF Writers, Writing
  <2> QED
    BY <1>1, <2>1, <2>2, Undisturbed
<1>4. CASE r \in Deletes /\ ~Begin(r)
  <2>1. \A w \in Ingests : ~Running(w)
    BY <1>1, <1>4, OneRuns, DeleteForms DEF NoOverlap, Ingests
  <2>2. Writers = {}
    BY <2>1 DEF Writers, Writing, Running
  <2>3. Writers' = {}
    BY <1>2, <1>4, <2>2, Others DEF Deletes
  <2>4. \A p \in Pages : p \notin torn' =>
          \/ Shows(index'[row'.id][p], pageRow'[p])
          \/ \E d \in Deletes : pc'[d] = "commit" /\ pageLock'[p] = d
    BY <1>1, <1>4, <2>2, DeleteRests
  <2> QED
    BY <1>2, <2>3, <2>4 DEF WriterInv, RestInv
<1>5. CASE OpenDocument(r)
  <2>1. r \in Ingests
    BY <1>5 DEF OpenDocument, WhereInv
  <2>2. Writers = {} /\ WriterOk(r)'
    BY <1>1, <1>5, <2>1, OpenedOk
  <2>3. pc'[r] = "sync"
    BY <1>5 DEF OpenDocument, GoTo, Typed
  <2>4. Writers' = {r}
    BY <1>2, <2>1, <2>2, <2>3, Others DEF Writing
  <2> QED
    BY <2>2, <2>4 DEF WriterInv, RestInv
<1>6. CASE RecordFailure(r)
  <2>1. /\ pc[r] = "record" /\ pc'[r] = "failed" /\ r \notin Writers
        /\ UNCHANGED <<pageRow, pageLock, torn>>
    BY <1>6 DEF RecordFailure, GoTo, Typed, locks, history, Writers, Writing
  <2>2. row' # Nothing => row # Nothing /\ row'.id = row.id
    <3>1. CASE IsNew(r)
      BY <1>6, <3>1 DEF RecordFailure
    <3>2. CASE ~IsNew(r)
      BY <3>2, RowStep DEF WhereInv, IsNew
    <3> QED
      BY <3>1, <3>2
  <2>3. UNCHANGED index \/ index' = Cleared(r, Pages)
    BY <1>6 DEF RecordFailure
  <2>4. \A x \in Requests \ {r} : index'[x] = index[x]
    BY <2>3 DEF Cleared, PagesInv
  <2>5. row # Nothing => row.id \in Requests \ {r}
    BY <2>1 DEF FreshInv, Ingests
  <2>6. \A w \in Writers : DocumentId(w) \in Requests \ {r}
    <3>1. \A w \in Writers : w \in Requests /\ w # r
      BY <2>1 DEF Writers, Ingests
    <3> QED
      BY <2>5, <3>1 DEF DocumentId, IsNew, WhereInv
  <2> QED
    BY <1>1, <2>1, <2>2, <2>4, <2>5, <2>6, Undisturbed DEF Writing
<1>7. CASE r \in Writers
  <2>1. Writers = {r} /\ r \in Ingests /\ WriterOk(r)
    BY <1>1, <1>7, WriterFacts DEF WriterInv
  <2>2. CASE pc'[r] \in Writing
    <3>1. Writers' = {r} /\ WriterOk(r)'
      BY <1>2, <1>7, <2>1, <2>2, Others, WriterStep
    <3> QED
      BY <3>1 DEF WriterInv, RestInv
  <2>3. CASE pc'[r] \notin Writing
    <3>1. Writers' = {}
      BY <1>2, <2>1, <2>3, Others
    <3>2. row' # Nothing => \A p \in Pages \ torn' : Shows(index'[row'.id][p], pageRow'[p])
      BY <1>7, <2>1, <2>3, WriterLeaves
    <3> QED
      BY <3>1, <3>2 DEF WriterInv, RestInv
  <2> QED
    BY <2>2, <2>3
<1>8. \/ Begin(r) \/ CreatedMeanwhile(r) \/ OpenDocument(r) \/ RecordFailure(r)
      \/ r \in Deletes \/ r \in Writers
  <2>1. r \in Ingests \/ r \in Deletes
    BY DEF Deletes
  <2>2. SUFFICES ASSUME r \in Ingests, pc[r] \notin Writing
                 PROVE  Begin(r) \/ CreatedMeanwhile(r) \/ OpenDocument(r) \/ RecordFailure(r)
    BY <2>1 DEF Writers
  <2> QED
    BY <2>2
       DEF RequestStep, SyncPage, SyncPageFails, DropRemovedPages, DropRemovedPagesFails, UpdateMetadata,
           UpdateMetadataFails, SetDocumentOwner, SetDocumentOwnerFails, DropPages, MarkDeleted, Deadlocked,
           PurgeEdges, PurgeEdgesFails, DeleteChunks, Commit, CommitFails, WhereInv, Writing, Deletes
<1> QED
  BY <1>3, <1>4, <1>5, <1>6, <1>7, <1>8

\* What there is to know of chunks and rows, with or without an open ingest.
RowsInv == FreshInv /\ DeleteInv /\ WriterInv /\ RestInv

\* It holds before the first request, in every step, and while nothing happens.
LEMMA RowsFacts ==
  /\ Init => RowsInv
  /\ Inv /\ Inv' /\ RowsInv /\ [Next]_vars => RowsInv'
<1>1. ASSUME Init PROVE RowsInv
  BY <1>1 DEF Init, RowsInv, FreshInv, DeleteInv, WriterInv, RestInv, Writers, Writing, Deletes, Ingests
<1>2. ASSUME Inv, Inv', RowsInv, NEW r \in Requests, RequestStep(r) PROVE RowsInv'
  BY <1>2, FreshStep, DeleteStep, RestStep DEF RowsInv
<1>3. ASSUME RowsInv, UNCHANGED vars PROVE RowsInv'
  <2>1. /\ Ingests' = Ingests /\ Deletes' = Deletes /\ Writers' = Writers
        /\ \A s, t : Apart(s, t)' = Apart(s, t)
    BY <1>3 DEF vars, Ingests, Deletes, Writers, Apart, RanApart
  <2>2. NoOverlap' = NoOverlap /\ \A w : WriterOk(w)' = WriterOk(w)
    BY <1>3, <2>1 DEF vars, NoOverlap, WriterOk, Changed, DocumentId, IsNew
  <2> QED
    BY <1>3, <2>1, <2>2 DEF vars, RowsInv, FreshInv, DeleteInv, WriterInv, RestInv
<1> QED
  BY <1>1, <1>2, <1>3 DEF Next, Terminated

\* When all requests have ended, no delete has overlapped an ingest and none has left the
\* chunks behind, every page that no failed ingest has torn has exactly the chunks of its row,
\* however ingests overlapped and whatever failed.
THEOREM IndexIsAsRows == Spec => []IndexMatchesRows
<1>1. Inv /\ RowsInv => IndexMatchesRows
  <2> SUFFICES ASSUME Inv, RowsInv, SettledAndIndexed, DeletesApart, NEW p \in Pages \ torn
               PROVE  PageMatchesRow(p)
    BY DEF IndexMatchesRows
  <2>1. NoOverlap
    BY DEF DeletesApart, NoOverlap, Apart
  <2>2. \A r \in Requests : pc[r] \in {"done", "refused", "failed"}
    BY DEF SettledAndIndexed, Ended
  <2>3. Writers = {} /\ row # Nothing /\ \A d \in Deletes : pc[d] # "commit"
    BY <2>2 DEF Writers, Writing, Ingests, Deletes, SettledAndIndexed
  <2>4. Shows(index[row.id][p], pageRow[p])
    BY <2>1, <2>3 DEF RowsInv, RestInv
  <2> QED
    BY <2>4 DEF Shows, PageMatchesRow
<1> QED
  BY <1>1, RowsFacts, Invariance, PTL DEF Spec

-------------------------------------------------------------------------------
(* The chunks cite the title.                                              *)

\* The chunks carry the title.
Titled(chunks, title) == \A i \in 1 .. MostChunks : chunks[i] # Nothing => chunks[i].title = title

\* No two requests have overlapped, deletes aside, and none that was to change the title failed.
Calm ==
  /\ NoOverlap
  /\ \A r, s \in Ingests : r # s => Apart(r, s)
  /\ \A r \in Ingests : pc[r] \in {"record", "failed"} => ~MetadataChanged(r)

\* The title of page p's chunks while w is open.
TitleAt(w, p) ==
  IF IsNew(w) \/ pc[w] \in {"own", "commit"} \/ p \in Changed(w) THEN op[w].title ELSE row.title

\* The row is as an ingest has loaded it, as long as the ingest is open.
LoadedInv ==
  Calm => \A w \in Ingests : pc[w] \in {"open"} \union Writing =>
            IF IsNew(w) THEN row = Nothing ELSE row # Nothing /\ row.title = loaded[w].title

\* The pages cite it, but for the torn ones w has not stored again.
TitledOk(w) ==
  \A p \in Pages : p \notin torn \/ p \in Changed(w) => Titled(index[DocumentId(w)][p], TitleAt(w, p))

\* Pages cite the title of the row, or while an ingest is open the one it has given them.
TitleInv ==
  Calm => /\ \A w \in Writers : TitledOk(w)
          /\ row # Nothing /\ Writers = {} => \A p \in Pages \ torn : Titled(index[row.id][p], row.title)

\* What has happened stays so.
LEMMA CalmStep ==
  ASSUME Inv, NEW r \in Requests, RequestStep(r), Calm'
  PROVE  /\ Calm
         /\ ~Begin(r) => \A s \in Ingests \ {r} : ~Running(s)
<1> USE DEF Inv
<1>1. /\ r \notin Ended /\ op' = op /\ Ingests' = Ingests /\ Deletes' = Deletes
      /\ \A s \in Requests \ {r} : pc'[s] = pc[s] /\ loaded'[s] = loaded[s]
  BY IndexForms, RowStep, Others
<1>2. pc[r] = "record" => pc'[r] = "failed" /\ loaded' = loaded
  BY DEF RequestStep, Begin, OpenDocument, CreatedMeanwhile, SyncPage, SyncPageFails, Typed, GoTo,
         DropRemovedPages, DropRemovedPagesFails, UpdateMetadata, UpdateMetadataFails, locals,
         SetDocumentOwner, SetDocumentOwnerFails, RecordFailure, DropPages, MarkDeleted,
         Deadlocked, PurgeEdges, PurgeEdgesFails, DeleteChunks, Commit, CommitFails
<1>3. Ingests \subseteq Requests /\ Deletes \subseteq Requests
  BY DEF Ingests, Deletes
<1>4. \A s \in Ingests : pc[s] \in {"record", "failed"} => ~MetadataChanged(s)
  <2> SUFFICES ASSUME NEW s \in Ingests, pc[s] \in {"record", "failed"} PROVE ~MetadataChanged(s)
    OBVIOUS
  <2>1. pc'[s] \in {"record", "failed"} /\ loaded'[s] = loaded[s]
    BY <1>1, <1>2, <1>3 DEF Ended
  <2> QED
    BY <1>1, <2>1 DEF Calm, MetadataChanged, IsNew
<1>5. NoOverlap /\ \A s, t \in Ingests : s # t => Apart(s, t)
  BY <1>1, <1>3, ApartStep DEF Calm
<1>6. ASSUME ~Begin(r), NEW s \in Ingests \ {r} PROVE ~Running(s)
  <2>1. Running(r)
    BY <1>1, <1>6 DEF Running, Ended, RequestStep, OpenDocument, CreatedMeanwhile, SyncPage, SyncPageFails,
         DropRemovedPages, DropRemovedPagesFails, UpdateMetadata, UpdateMetadataFails,
         SetDocumentOwner, SetDocumentOwnerFails, RecordFailure, DropPages, MarkDeleted,
         Deadlocked, PurgeEdges, PurgeEdgesFails, DeleteChunks, Commit, CommitFails
  <2>2. Apart(r, s)
    <3>1. CASE r \in Ingests
      BY <1>5, <3>1
    <3>2. CASE r \notin Ingests
      BY <1>5, <3>2 DEF NoOverlap, Deletes
    <3> QED
      BY <3>1, <3>2
  <2> QED
    BY <1>3, <2>1, <2>2, OneRuns
<1> QED
  BY <1>4, <1>5, <1>6 DEF Calm

\* No step but the ingest's last changes the row under an open ingest.
LEMMA LoadedStep ==
  ASSUME Inv, LoadedInv, NEW r \in Requests, RequestStep(r)
  PROVE  LoadedInv'
<1> USE DEF Inv
<1> SUFFICES ASSUME Calm', NEW w \in Ingests, pc'[w] \in {"open"} \union Writing
             PROVE  IF IsNew(w)' THEN row' = Nothing ELSE row' # Nothing /\ row'.title = loaded'[w].title
  BY Others DEF LoadedInv
<1>1. Calm /\ w \in Requests
  BY CalmStep DEF Ingests
<1>2. CASE Begin(r)
  <2>1. row' = row /\ loaded' = [loaded EXCEPT ![r] = row]
    BY <1>2 DEF Begin, stores
  <2>2. CASE w = r
    BY <1>1, <2>1, <2>2 DEF IsNew, Typed
  <2>3. CASE w # r
    <3>1. pc[w] = pc'[w] /\ loaded'[w] = loaded[w]
      BY <1>1, <2>3, Others
    <3> QED
      BY <1>1, <2>1, <3>1 DEF IsNew, LoadedInv
  <2> QED
    BY <2>2, <2>3
<1>3. CASE ~Begin(r)
  <2>1. w = r
    <3> SUFFICES ASSUME w # r PROVE FALSE
      OBVIOUS
    <3>1. pc[w] = pc'[w] /\ ~Running(w)
      BY <1>1, <1>3, Others, CalmStep
    <3> QED
      BY <3>1 DEF Running, Writing
  <2>2. pc[r] \in {"open"} \union Writing /\ row' = row /\ loaded' = loaded
    <3>1. \/ OpenDocument(r) \/ DropRemovedPages(r) \/ UpdateMetadata(r) \/ SetDocumentOwner(r)
          \/ \E p \in left[r] : SyncPage(r, p)
      BY <1>3, <2>1
         DEF RequestStep, CreatedMeanwhile, SyncPageFails, Typed, GoTo, WhereInv,
             DropRemovedPagesFails, UpdateMetadataFails, Fail, Writing, Deletes,
             SetDocumentOwnerFails, RecordFailure, DropPages, MarkDeleted,
             Deadlocked, PurgeEdges, PurgeEdgesFails, DeleteChunks, Commit, CommitFails
    <3> QED
      BY <3>1 DEF OpenDocument, DropRemovedPages, UpdateMetadata, SetDocumentOwner, SyncPage,
                  Writing, postgres, stores, locals
  <2> QED
    BY <1>1, <2>1, <2>2 DEF IsNew, LoadedInv
<1> QED
  BY <1>2, <1>3

\* Stored, cleared and renamed pages.
LEMMA TitledFacts ==
  ASSUME Typed, NEW r \in Ingests, NEW p \in DOMAIN op[r].pages, NEW chunks
  PROVE  /\ \A title : Titled(NoChunks, title)
         /\ Titled(PageChunks(r, op[r].pages[p], chunks), op[r].title)
  BY DEF Titled, NoChunks, PageChunks, Upserted, Chunk

\* While an ingest goes on, its pages cite the title it has given them.
LEMMA TitledWriterStep ==
  ASSUME Inv, LoadedInv, Calm, NEW r \in Writers, RequestStep(r), pc'[r] \in Writing, TitledOk(r)
  PROVE  TitledOk(r)'
<1> USE DEF Inv
<1>1. r \in Requests /\ r \in Ingests /\ DocumentId(r) \in Requests
  BY WriterFacts, DocumentFacts
<1>2. /\ UNCHANGED <<row, loaded, known, torn, op>> /\ DocumentId(r)' = DocumentId(r) /\ IsNew(r)' = IsNew(r)
  <2>1. UNCHANGED <<row, loaded, known, torn, op>>
    BY WriterGoesOn DEF SyncPage, DropRemovedPages, UpdateMetadata, SetDocumentOwner,
                        postgres, stores, locals, history
  <2> QED
    BY <2>1 DEF DocumentId, IsNew
<1>3. ~IsNew(r) => row.title = loaded[r].title
  BY <1>1 DEF LoadedInv, Writers
<1> DEFINE id == DocumentId(r)
<1>4. ASSUME NEW q \in left[r], SyncPage(r, q), NEW p \in Pages, p \notin torn \/ p \in Changed(r)'
      PROVE  Titled(index'[id][p], TitleAt(r, p)')
  <2>1. q \in DOMAIN op[r].pages /\ q \in Pages /\ pc' = pc
    BY <1>1, <1>4, OpFacts DEF WhereInv, SyncPage
  <2> DEFINE new == PageChunks(r, op[r].pages[q], index[id][q])
  <2>2. CASE known[r][q] = op[r].pages[q]
    <3>1. UNCHANGED <<index, staged>>
      BY <1>4, <2>2 DEF SyncPage
    <3>2. Changed(r)' = Changed(r) /\ TitleAt(r, p)' = TitleAt(r, p)
      BY <1>2, <2>1, <3>1 DEF Changed, TitleAt
    <3> QED
      BY <1>4, <3>1, <3>2 DEF TitledOk
  <2>3. CASE known[r][q] # op[r].pages[q]
    <3>1. /\ index' = [index EXCEPT ![id][q] = new]
          /\ staged' = [staged EXCEPT ![r][q] = op[r].pages[q]]
      BY <1>4, <2>3 DEF SyncPage
    <3>2. Titled(new, op[r].title)
      BY <1>1, <2>1, TitledFacts
    <3> HIDE DEF new
    <3>3. CASE p = q
      <4>1. index'[id][p] = new /\ staged'[r][p] = op[r].pages[q]
        BY <1>1, <2>1, <3>1, <3>3 DEF PagesInv, Typed
      <4>2. p \in Changed(r)'
        BY <1>2, <2>3, <3>3, <4>1 DEF Changed
      <4> QED
        BY <1>2, <3>2, <4>1, <4>2 DEF TitleAt
    <3>4. CASE p # q
      <4>1. index'[id][p] = index[id][p] /\ staged'[r][p] = staged[r][p]
        BY <1>1, <3>1, <3>4 DEF PagesInv, Typed
      <4>2. (p \in Changed(r)' <=> p \in Changed(r)) /\ TitleAt(r, p)' = TitleAt(r, p)
        BY <1>2, <2>1, <4>1 DEF Changed, TitleAt
      <4> QED
        BY <1>4, <4>1, <4>2 DEF TitledOk
    <3> QED
      BY <3>3, <3>4
  <2> QED
    BY <2>2, <2>3
<1>5. ASSUME DropRemovedPages(r), NEW p \in Pages, p \notin torn \/ p \in Changed(r)'
      PROVE  Titled(index'[id][p], TitleAt(r, p)')
  <2>1. /\ index'[id][p] = IF p \in Removed(r) THEN NoChunks ELSE index[id][p]
        /\ staged'[r][p] = IF p \in Removed(r) THEN Nothing ELSE staged[r][p]
        /\ pc[r] = "sync" /\ pc'[r] \in {"metadata", "own"}
        /\ (pc'[r] = "own" => ~MetadataChanged(r))
    BY <1>1, <1>5, ClearedAt DEF DropRemovedPages, Typed, GoTo
  <2>2. CASE p \in Removed(r)
    BY <2>1, <2>2 DEF Titled, NoChunks
  <2>3. CASE p \notin Removed(r)
    <3>1. p \in Changed(r)' <=> p \in Changed(r)
      BY <1>2, <2>1, <2>3 DEF Changed
    <3>2. TitleAt(r, p)' = TitleAt(r, p)
      BY <1>2, <1>3, <2>1, <3>1 DEF TitleAt, MetadataChanged
    <3> QED
      BY <1>5, <2>1, <2>3, <3>1, <3>2 DEF TitledOk
  <2> QED
    BY <2>2, <2>3
<1>6. ASSUME UpdateMetadata(r), NEW p \in Pages
      PROVE  Titled(index'[id][p], TitleAt(r, p)')
  <2>1. index' = Retitled(id, op[r].title) /\ op[r].title \in Titles /\ pc'[r] = "own"
    BY <1>1, <1>6, OpFacts DEF UpdateMetadata, Typed, GoTo
  <2>2. TitleAt(r, p)' = op[r].title
    BY <1>2, <2>1 DEF TitleAt
  <2> QED
    BY <1>1, <2>1, <2>2, RetitledAt DEF Titled
<1>7. ASSUME SetDocumentOwner(r), NEW p \in Pages, p \notin torn \/ p \in Changed(r)'
      PROVE  Titled(index'[id][p], TitleAt(r, p)')
  <2>1. UNCHANGED <<index, staged>> /\ pc[r] = "own" /\ pc'[r] = "commit"
    BY <1>1, <1>7 DEF SetDocumentOwner, locals, Typed, GoTo
  <2>2. Changed(r)' = Changed(r) /\ TitleAt(r, p)' = TitleAt(r, p)
    BY <1>2, <2>1 DEF Changed, TitleAt
  <2> QED
    BY <1>7, <2>1, <2>2 DEF TitledOk
<1>8. \A p \in Pages : p \notin torn \/ p \in Changed(r)' => Titled(index'[id][p], TitleAt(r, p)')
  BY <1>4, <1>5, <1>6, <1>7, WriterGoesOn
<1> QED
  BY <1>2, <1>8 DEF TitledOk

\* An ingest that ends well, or fails without a new title, leaves pages that cite the row's title.
LEMMA TitledWriterLeaves ==
  ASSUME Inv, LoadedInv, Calm, Calm', NEW r \in Writers, RequestStep(r), pc'[r] \notin Writing, TitledOk(r),
         row' # Nothing, NEW p \in Pages, p \notin torn'
  PROVE  Titled(index'[row'.id][p], row'.title)
<1> USE DEF Inv
<1>1. r \in Requests /\ r \in Ingests /\ DocumentId(r) \in Requests
      /\ (row # Nothing => ~IsNew(r) /\ row.id = DocumentId(r))
  BY WriterFacts, DocumentFacts
<1>2. ~IsNew(r) => row.title = loaded[r].title
  BY <1>1 DEF LoadedInv, Writers
<1>3. CASE Commit(r) /\ CommitIngest(r)
  <2>1. /\ row'.id = DocumentId(r) /\ index' = index /\ torn' = torn \ Changed(r) /\ pc[r] = "commit"
        /\ row'.title = IF IsNew(r) \/ MetadataChanged(r) THEN op[r].title ELSE row.title
    BY <1>3 DEF Commit, CommitIngest
  <2>2. row'.title = op[r].title
    BY <1>2, <2>1 DEF MetadataChanged
  <2>3. Titled(index[DocumentId(r)][p], op[r].title)
    BY <2>1 DEF TitledOk, TitleAt
  <2> QED
    BY <2>1, <2>2, <2>3
<1>4. ASSUME UNCHANGED row, UNCHANGED loaded, pc'[r] \in {"record", "failed"}
      PROVE  row.id = DocumentId(r) /\ row.title = op[r].title /\ TitleAt(r, p) = row.title
  <2>1. r \in Ingests' /\ op' = op
    BY <1>1, Others, RowStep
  <2>2. ~MetadataChanged(r)
    BY <1>4, <2>1 DEF Calm, MetadataChanged, IsNew
  <2> QED
    BY <1>1, <1>2, <1>4, <2>2 DEF MetadataChanged, TitleAt
<1>5. CASE CommitFails(r)
  <2>1. UNCHANGED <<row, index, loaded>> /\ pc'[r] = "failed"
    BY <1>1, <1>5 DEF CommitFails, stores, locals, GoTo, Typed
  <2>2. row.id = DocumentId(r) /\ TitleAt(r, p) = row.title
    BY <1>4, <2>1
  <2>3. p \notin torn
    BY <1>1, <1>5, <2>1, <2>2 DEF CommitFails, Deletes
  <2> QED
    BY <2>1, <2>2, <2>3 DEF TitledOk
<1>6. ASSUME NEW pages, Fail(r, pages),
             \/ \A q \in Pages \ pages : index'[DocumentId(r)][q] = index[DocumentId(r)][q]
             \/ index' = Retitled(DocumentId(r), op[r].title)
      PROVE  Titled(index'[row'.id][p], row'.title)
  <2>1. UNCHANGED <<row, loaded>> /\ pc'[r] = "record"
    BY <1>1, <1>6 DEF Fail, postgres, locals, GoTo, Typed
  <2>2. row.id = DocumentId(r) /\ row.title = op[r].title /\ TitleAt(r, p) = row.title
    BY <1>4, <2>1
  <2>3. p \notin torn /\ p \notin pages
    BY <1>1, <1>6, <2>1 DEF Fail
  <2>4. Titled(index[DocumentId(r)][p], row.title)
    BY <2>2, <2>3 DEF TitledOk
  <2>5. CASE index'[DocumentId(r)][p] = index[DocumentId(r)][p]
    BY <2>1, <2>2, <2>4, <2>5
  <2>6. CASE index' = Retitled(DocumentId(r), op[r].title)
    <3>1. op[r].title \in Titles
      BY <1>1, OpFacts
    <3> QED
      BY <1>1, <2>1, <2>2, <2>6, <3>1, RetitledAt DEF Titled
  <2> QED
    BY <1>6, <2>3, <2>5, <2>6
<1> QED
  BY <1>3, <1>5, <1>6, WriterEnds

\* The titles are kept by every step.
LEMMA TitleStep ==
  ASSUME Inv, Inv', FreshInv, RestInv, LoadedInv, TitleInv, NEW r \in Requests, RequestStep(r)
  PROVE  TitleInv'
<1> USE DEF Inv
<1> SUFFICES ASSUME Calm' PROVE TitleInv'
  BY DEF TitleInv
<1>1. Calm /\ NoOverlap
  BY CalmStep DEF Calm
<1>2. op' = op /\ Ingests' = Ingests /\ (r \in Writers' <=> r \in Ingests /\ pc'[r] \in Writing)
      /\ Writers' \subseteq Writers \union {r} /\ Writers \ {r} \subseteq Writers'
  BY Others, RowStep
<1>3. CASE Begin(r)
  <2>1. UNCHANGED <<row, torn, index>> /\ pc[r] = "begin" /\ pc'[r] \notin Writing
    BY <1>3 DEF Begin, stores, GoTo, Typed, Writing
  <2>2. Writers' = Writers /\ r \notin Writers
    BY <1>2, <2>1 DEF Writers, Writing
  <2>3. ASSUME NEW w \in Writers PROVE TitledOk(w)'
    <3>1. w \in Requests \ {r}
      BY <2>2 DEF Writers, Ingests
    <3>2. loaded'[w] = loaded[w] /\ known'[w] = known[w] /\ staged'[w] = staged[w] /\ pc'[w] = pc[w]
      BY <3>1, Others
    <3>3. DocumentId(w)' = DocumentId(w) /\ Changed(w)' = Changed(w) /\ IsNew(w)' = IsNew(w)
      BY <3>2 DEF DocumentId, IsNew, Changed
    <3>4. TitledOk(w) /\ \A p : TitleAt(w, p)' = TitleAt(w, p)
      BY <1>1, <1>2, <2>1, <3>2, <3>3 DEF TitleInv, TitleAt
    <3> QED
      BY <2>1, <3>3, <3>4 DEF TitledOk
  <2> QED
    BY <1>1, <2>1, <2>2, <2>3 DEF TitleInv
<1>4. CASE r \in Deletes /\ ~Begin(r)
  <2>1. Writers = {} /\ Writers' = {}
    <3>1. \A w \in Ingests : ~Running(w)
      BY <1>4, CalmStep DEF Deletes
    <3> QED
      BY <1>2, <1>4, <3>1 DEF Writers, Writing, Running, Deletes
  <2>2. /\ row # Nothing /\ row'.id = row.id /\ row'.title = row.title /\ torn \subseteq torn'
        /\ \A p \in Pages : index'[row.id][p] = index[row.id][p] \/ index'[row.id][p] = NoChunks
    BY <1>4, DeleteForms
  <2>3. \A p \in Pages : p \notin torn => Titled(index[row.id][p], row.title)
    BY <1>1, <2>1, <2>2 DEF TitleInv
  <2>4. \A title : Titled(NoChunks, title)
    BY DEF Titled, NoChunks
  <2> QED
    BY <2>1, <2>2, <2>3, <2>4 DEF TitleInv
<1>5. CASE r \in Ingests \ Writers /\ ~Begin(r)
  <2>1. Writers = {}
    BY <1>5, CalmStep DEF Writers, Writing, Running
  <2>2. OpenDocument(r) \/ CreatedMeanwhile(r) \/ RecordFailure(r)
    BY <1>5
       DEF RequestStep, SyncPage, SyncPageFails, DropRemovedPages, DropRemovedPagesFails, UpdateMetadata,
           UpdateMetadataFails, SetDocumentOwner, SetDocumentOwnerFails, DropPages, MarkDeleted, Deadlocked,
           PurgeEdges, PurgeEdgesFails, DeleteChunks, Commit, CommitFails, WhereInv, Writing, Deletes, Writers
  <2>3. row # Nothing => \A p \in Pages \ torn : Titled(index[row.id][p], row.title)
    BY <1>1, <2>1 DEF TitleInv
  <2>4. CASE OpenDocument(r)
    <3>1. /\ UNCHANGED <<row, index, torn, loaded>> /\ known'[r] = staged'[r] /\ pc'[r] = "sync"
          /\ (IsNew(r) => row = Nothing) /\ pc[r] = "open"
      BY <2>4 DEF OpenDocument, stores, history, Typed, GoTo
    <3>2. /\ Changed(r)' = {} /\ IsNew(r)' = IsNew(r) /\ DocumentId(r)' = DocumentId(r)
          /\ \A p : TitleAt(r, p)' = IF IsNew(r) THEN op[r].title ELSE row.title
      BY <1>2, <3>1 DEF Changed, IsNew, DocumentId, TitleAt
    <3>3. \A p \in Pages : p \notin torn =>
            Titled(index[DocumentId(r)][p], IF IsNew(r) THEN op[r].title ELSE row.title)
      <4>1. CASE IsNew(r)
        <5>1. \A p \in Pages : index[DocumentId(r)][p] = NoChunks
          BY <3>1, <4>1 DEF FreshInv, DocumentId
        <5>2. \A title : Titled(NoChunks, title)
          BY DEF Titled, NoChunks
        <5> QED
          BY <5>1, <5>2
      <4>2. CASE ~IsNew(r)
        <5>1. row # Nothing /\ row.id = DocumentId(r)
          BY <4>2 DEF IsNew, DocumentId, WhereInv
        <5> QED
          BY <2>3, <4>2, <5>1
      <4> QED
        BY <4>1, <4>2
    <3>4. TitledOk(r)'
      BY <3>1, <3>2, <3>3 DEF TitledOk
    <3>5. Writers' = {r}
      BY <1>2, <1>5, <2>1, <3>1 DEF Writing
    <3> QED
      BY <3>4, <3>5 DEF TitleInv
  <2>5. CASE CreatedMeanwhile(r) \/ RecordFailure(r)
    <3>1. torn' = torn /\ pc'[r] = "failed" /\ pc[r] \in {"open", "record"}
      BY <2>5 DEF CreatedMeanwhile, RecordFailure, GoTo, Typed, history
    <3>2. Writers' = {}
      BY <1>2, <2>1, <3>1 DEF Writing
    <3>3. row' # Nothing => row # Nothing /\ row'.id = row.id /\ row'.title = row.title
      <4>1. CASE row' = row
        BY <4>1
      <4>2. CASE row' = [row EXCEPT !.status = "failed"] /\ ~IsNew(r)
        <5>1. row \in Rows
          BY <4>2 DEF WhereInv, IsNew, Typed, DocumentRows
        <5> QED
          BY <4>2, <5>1, PipelineAssumption DEF Rows
      <4> QED
        BY <2>5, <4>1, <4>2 DEF CreatedMeanwhile, RecordFailure, stores
    <3>4. row # Nothing => index'[row.id] = index[row.id]
      <4>1. UNCHANGED index \/ index' = Cleared(r, Pages)
        BY <2>5 DEF CreatedMeanwhile, RecordFailure, stores
      <4>2. row # Nothing => row.id \in Requests \ {r}
        BY <3>1 DEF FreshInv, Ingests
      <4> QED
        BY <4>1, <4>2 DEF Cleared, PagesInv
    <3> QED
      BY <2>3, <3>1, <3>2, <3>3, <3>4 DEF TitleInv
  <2> QED
    BY <2>2, <2>4, <2>5
<1>6. CASE r \in Writers
  <2>1. Writers = {r} /\ r \in Ingests /\ TitledOk(r)
    BY <1>1, <1>6, WriterFacts DEF TitleInv
  <2>2. CASE pc'[r] \in Writing
    <3>1. Writers' = {r} /\ TitledOk(r)'
      BY <1>1, <1>2, <1>6, <2>1, <2>2, TitledWriterStep
    <3> QED
      BY <3>1 DEF TitleInv
  <2>3. CASE pc'[r] \notin Writing
    <3>1. Writers' = {}
      BY <1>2, <2>1, <2>3
    <3>2. row' # Nothing => \A p \in Pages \ torn' : Titled(index'[row'.id][p], row'.title)
      BY <1>1, <1>6, <2>1, <2>3, TitledWriterLeaves
    <3> QED
      BY <3>1, <3>2 DEF TitleInv
  <2> QED
    BY <2>2, <2>3
<1> QED
  BY <1>3, <1>4, <1>5, <1>6 DEF Deletes

\* When all requests have ended, none overlapped but deletes, and none that was to change the
\* title failed, every page that no failed ingest has torn cites the title of the document row.
THEOREM TitlesAreCited == Spec => []ChunksCiteTitle
<1> DEFINE TitlesInv == LoadedInv /\ TitleInv
<1>1. Init => TitlesInv
  BY DEF Init, LoadedInv, TitleInv, Writers, Writing, Ingests
<1>2. Inv /\ Inv' /\ RowsInv /\ TitlesInv /\ [Next]_vars => TitlesInv'
  <2>1. ASSUME Inv, Inv', RowsInv, TitlesInv, NEW r \in Requests, RequestStep(r) PROVE TitlesInv'
    BY <2>1, LoadedStep, TitleStep DEF RowsInv
  <2>2. ASSUME TitlesInv, UNCHANGED vars PROVE TitlesInv'
    <3>1. /\ Ingests' = Ingests /\ Deletes' = Deletes /\ Writers' = Writers
          /\ \A s, t : Apart(s, t)' = Apart(s, t)
          /\ \A w : MetadataChanged(w)' = MetadataChanged(w) /\ IsNew(w)' = IsNew(w)
      BY <2>2 DEF vars, Ingests, Deletes, Writers, Apart, RanApart, MetadataChanged, IsNew
    <3>2. Calm' = Calm
      BY <2>2, <3>1 DEF vars, Calm, NoOverlap
    <3>3. \A w : TitledOk(w)' = TitledOk(w)
      BY <2>2 DEF vars, TitledOk, TitleAt, Changed, DocumentId, IsNew
    <3> QED
      BY <2>2, <3>1, <3>2, <3>3 DEF vars, LoadedInv, TitleInv
  <2> QED
    BY <2>1, <2>2 DEF Next, Terminated
<1>3. Inv /\ TitlesInv => ChunksCiteTitle
  <2> SUFFICES ASSUME Inv, TitleInv, SettledAndIndexed, DeletesApart,
                      \A r, s \in Ingests : r # s => RanApart(r, s),
                      \A r \in Ingests : pc[r] = "failed" => ~MetadataChanged(r),
                      NEW p \in Pages \ torn
               PROVE  Titled(index[row.id][p], row.title)
    BY DEF ChunksCiteTitle, Titled
  <2>1. \A r \in Requests : pc[r] \in {"done", "refused", "failed"}
    BY DEF SettledAndIndexed, Ended
  <2>2. Calm
    BY <2>1 DEF DeletesApart, NoOverlap, Apart, Calm, Ingests
  <2>3. Writers = {} /\ row # Nothing
    BY <2>1 DEF Writers, Writing, Ingests, SettledAndIndexed
  <2> QED
    BY <2>2, <2>3 DEF TitleInv
<1> HIDE DEF TitlesInv
<1> QED
  BY <1>1, <1>2, <1>3, RowsFacts, Invariance, PTL DEF Spec
-------------------------------------------------------------------------------
(* Ingests and deletes take the document row and the page rows in opposite *)
(* orders.                                                                 *)

\* Rows are held from the statement that writes them to the end of the transaction: the
\* document row by an ingest first, the page rows by a delete first.
HoldInv ==
  /\ rowLock # Nothing =>
       pc[rowLock] \in {"sync", "metadata", "own", "purge", "chunks", "commit"}
  /\ \A p \in Pages : pageLock[p] # Nothing =>
       pc[pageLock[p]] \in {"metadata", "own", "mark", "purge", "chunks", "commit"}

\* The page rows that the last flush of an ingest updates or deletes.
Rewritten(r) == {p \in Changed(r) \union Removed(r) : known[r][p] # Nothing}

\* The request waits for no row of another transaction.
CanGoOn(r) ==
  \/ pc[r] \in {"begin", "metadata", "own", "purge", "chunks", "commit"}
  \/ pc[r] = "open" /\ rowLock = Nothing
  \/ pc[r] = "sync" /\ (left[r] # {} \/ \A p \in Rewritten(r) : pageLock[p] = Nothing)
  \/ pc[r] = "record" /\ (IsNew(r) \/ rowLock = Nothing)
  \/ pc[r] = "pages" /\ \A p \in Pages : pageRow[p] # Nothing => pageLock[p] = Nothing
  \/ pc[r] = "mark" /\ (loaded[r].status = "deleted" \/ rowLock = Nothing)

\* The delete waits for the document row of an ingest, which waits for a page row of it.
Crossed(d, r) ==
  /\ pc[d] = "mark" /\ loaded[d].status # "deleted" /\ rowLock = r
  /\ pc[r] = "sync" /\ left[r] = {}
  /\ \E p \in Rewritten(r) : pageLock[p] = d

\* Who holds page rows, in every reachable state.
LEMMA HoldInvariance == Spec => []HoldInv
<1>1. Init => HoldInv
  BY DEF Init, HoldInv, NoPages
<1>2. ASSUME Inv, HoldInv, [Next]_vars PROVE HoldInv'
  <2>1. /\ pc \in [Requests -> PCs] /\ Nothing \notin Requests
        /\ rowLock \in Requests \union {Nothing}
        /\ pageLock \in [Pages -> Requests \union {Nothing}]
    BY <1>2, PipelineAssumption DEF Inv, Typed
  <2>2. ASSUME NEW r \in Requests, ReleaseRows(r), NEW label, GoTo(r, label) PROVE HoldInv'
    BY <1>2, <2>1, <2>2 DEF HoldInv, ReleaseRows, GoTo
  <2>3. ASSUME NEW r \in Requests, NEW label, GoTo(r, label), UNCHANGED locks,
               \/ pc[r] \in {"begin", "open", "record", "pages"}
               \/ label \in {"metadata", "own", "purge", "chunks", "commit"}
        PROVE  HoldInv'
    BY <1>2, <2>1, <2>3 DEF HoldInv, locks, GoTo
  <2>4. ASSUME NEW r \in Requests, RequestStep(r) PROVE HoldInv'
    <3>1. CASE Begin(r) \/ CreatedMeanwhile(r) \/ RecordFailure(r)
      BY <2>3, <3>1 DEF Begin, CreatedMeanwhile, RecordFailure
    <3>2. CASE UpdateMetadata(r) \/ SetDocumentOwner(r) \/ PurgeEdges(r) \/ DeleteChunks(r)
      BY <2>3, <3>2 DEF UpdateMetadata, SetDocumentOwner, PurgeEdges, DeleteChunks
    <3>3. CASE \E p \in left[r] : SyncPage(r, p)
      BY <1>2, <3>3 DEF SyncPage, HoldInv, locks
    <3>4. CASE OpenDocument(r)
      BY <1>2, <2>1, <3>4 DEF OpenDocument, HoldInv, GoTo
    <3>5. CASE DropRemovedPages(r)
      <4>1. /\ pc[r] = "sync" /\ UNCHANGED rowLock
            /\ \E label \in {"metadata", "own"} : GoTo(r, label)
            /\ \A p \in Pages : pageLock'[p] \in {r, pageLock[p]}
        BY <2>1, <3>5 DEF DropRemovedPages
      <4> QED
        BY <1>2, <2>1, <4>1 DEF HoldInv, GoTo
    <3>6. CASE DropPages(r)
      BY <1>2, <2>1, <3>6 DEF DropPages, HoldInv, GoTo
    <3>7. CASE MarkDeleted(r)
      BY <1>2, <2>1, <3>7 DEF MarkDeleted, HoldInv, GoTo
    <3>8. CASE \/ \E p \in left[r] : SyncPageFails(r, p)
               \/ DropRemovedPagesFails(r) \/ UpdateMetadataFails(r) \/ SetDocumentOwnerFails(r)
      BY <2>2, <3>8 DEF SyncPageFails, DropRemovedPagesFails, UpdateMetadataFails,
         SetDocumentOwnerFails, Fail
    <3>9. CASE Deadlocked(r) \/ PurgeEdgesFails(r) \/ Commit(r) \/ CommitFails(r)
      BY <2>2, <3>9 DEF Deadlocked, PurgeEdgesFails, Commit, CommitFails
    <3> QED
      BY <2>4, <3>1, <3>2, <3>3, <3>4, <3>5, <3>6, <3>7, <3>8, <3>9 DEF RequestStep
  <2>5. CASE UNCHANGED vars
    BY <1>2, <2>5 DEF vars, locks, HoldInv
  <2> QED
    BY <1>2, <2>4, <2>5 DEF Next, Terminated
<1> QED
  BY <1>1, <1>2, Invariance, PTL DEF Spec

\* Requests wait for one another in a circle in one way only: a delete that has written the
\* page rows (delete_document) and the ingest that holds the document row (ingest) and has
\* come to its own page rows.  Postgres sees that circle and aborts one of the two;
\* otherwise, as long as a request has not ended, one can go on.
THEOREM OnlyDeadlock ==
  Spec => [](Ended # Requests =>
               \/ \E r \in Requests \ Ended : CanGoOn(r)
               \/ \E d \in Deletes, r \in Ingests : Crossed(d, r))
<1>1. ASSUME Inv, HoldInv, Ended # Requests, \A r \in Requests \ Ended : ~CanGoOn(r)
      PROVE  \E d \in Deletes, r \in Ingests : Crossed(d, r)
  <2>1. /\ WhereInv /\ pc \in [Requests -> PCs]
        /\ rowLock \in Requests \union {Nothing}
        /\ pageLock \in [Pages -> Requests \union {Nothing}]
    BY <1>1 DEF Inv, Typed
  <2>2. \A r \in Requests \ Ended :
          pc[r] \in {"open", "sync", "record", "pages", "mark"}
    BY <1>1, <2>1 DEF PCs, CanGoOn, Ended
  <2>3. \A p \in Pages : pageLock[p] # Nothing =>
          pageLock[p] \in Deletes /\ pc[pageLock[p]] = "mark"
    <3> SUFFICES ASSUME NEW p \in Pages, pageLock[p] # Nothing
                 PROVE  pageLock[p] \in Deletes /\ pc[pageLock[p]] = "mark"
      OBVIOUS
    <3>1. pageLock[p] \in Requests
      BY <1>1, <2>1
    <3>2. pc[pageLock[p]] \in {"metadata", "own", "mark", "purge", "chunks", "commit"}
      BY <1>1, <2>1 DEF HoldInv
    <3>3. pc[pageLock[p]] = "mark"
      BY <2>2, <3>1, <3>2 DEF Ended
    <3>4. \A d \in Requests : pc[d] = "mark" => d \in Deletes
      BY <1>1, <2>1 DEF WhereInv
    <3> QED
      BY <3>1, <3>3, <3>4
  <2>4. rowLock # Nothing
    <3> SUFFICES ASSUME rowLock = Nothing PROVE FALSE
      OBVIOUS
    <3>1. \A r \in Requests \ Ended : pc[r] = "pages"
      BY <1>1, <2>1, <2>2, PipelineAssumption DEF CanGoOn, WhereInv, Writing, Ended
    <3>2. \A p \in Pages : pageLock[p] = Nothing
      BY <1>1, <2>1, <2>3, <3>1 DEF Ended, HoldInv, Deletes
    <3> QED
      BY <1>1, <2>1, <3>1, <3>2 DEF CanGoOn, Ended
  <2>5. PICK r \in Requests \ Ended : r = rowLock /\ pc[r] = "sync" /\ r \in Ingests
    <3>1. rowLock \in Requests /\ pc[rowLock] \notin {"done", "refused", "failed"}
      BY <1>1, <2>1, <2>4 DEF HoldInv
    <3>2. pc[rowLock] = "sync"
      BY <1>1, <2>2, <2>4, <3>1 DEF HoldInv, Ended
    <3> QED
      BY <2>1, <3>1, <3>2 DEF WhereInv, Ended
  <2>6. left[r] = {} /\ \E p \in Rewritten(r) : pageLock[p] # Nothing
    BY <1>1, <2>1, <2>5 DEF CanGoOn
  <2>7. PICK p \in Rewritten(r) : pageLock[p] # Nothing
    BY <2>6
  <2>8. p \in Pages
    BY DEF Rewritten, Changed, Removed
  <2>9. pageLock[p] \in Deletes /\ pc[pageLock[p]] = "mark" /\ pageLock[p] \in Requests \ Ended
    BY <2>3, <2>7, <2>8 DEF Deletes, Ended
  <2>10. loaded[pageLock[p]].status # "deleted"
    BY <1>1, <2>1, <2>9 DEF CanGoOn
  <2>11. Crossed(pageLock[p], r)
    BY <2>5, <2>6, <2>7, <2>9, <2>10 DEF Crossed
  <2> QED
    BY <2>5, <2>9, <2>11
<1>2. Inv /\ HoldInv =>
        (Ended # Requests =>
           \/ \E r \in Requests \ Ended : CanGoOn(r)
           \/ \E d \in Deletes, r \in Ingests : Crossed(d, r))
  BY <1>1
<1> QED
  BY <1>2, Invariance, HoldInvariance, PTL
===============================================================================
