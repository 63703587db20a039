--------------------------- MODULE IngestionPipeline ---------------------------
(***************************************************************************)
(* IngestionPipeline (ingestion/pipeline.py): ingesting, re-ingesting and  *)
(* deleting the document of one external_id, by requests that run          *)
(* concurrently and fail at any store call.                                *)
(*                                                                         *)
(* Three stores take part.  Postgres holds the document row and its page   *)
(* rows, written in the request's READ COMMITTED transaction; Qdrant holds *)
(* the chunks and SpiceDB the owner edge, both changed at once and never   *)
(* rolled back.  A page's content stands for its hash as well: two equal   *)
(* contents are "unchanged", two others are not.                           *)
(*                                                                         *)
(* Ownership of an existing document is module PermissionService; here the *)
(* department is always the same one.                                      *)
(***************************************************************************)
EXTENDS Naturals, FiniteSets

CONSTANTS
  Pages,        \* page numbers
  Contents,     \* page contents
  ChunkCount,   \* ChunkCount[c]: the chunks chunk_page makes of c, 0 if blank
  Titles,
  Requests,     \* one HTTP request each
  Offered,      \* the operations the requests are chosen from
  Nothing       \* no row, no page, no chunk, no request

\* A payload names each page at most once, and at least one (ingest checks it).
PageSets == SUBSET Pages \ {{}}
Ingest(pages, title) == [kind |-> "ingest", pages |-> pages, title |-> title]
Delete == [kind |-> "delete"]

Payloads == UNION {[pages -> Contents] : pages \in PageSets}
Operations == {Ingest(pages, title) : pages \in Payloads, title \in Titles} \union {Delete}

\* A document row, and a chunk with the request that wrote it.
Rows == [id : Requests, status : {"indexed", "failed", "deleted"}, title : Titles]
Chunks == [text : Contents, title : Titles, by : Requests]

ASSUME PipelineAssumption ==
  /\ ChunkCount \in [Contents -> Nat]
  /\ \E most \in Contents : \A c \in Contents : ChunkCount[c] <= ChunkCount[most]
  /\ Offered \subseteq Operations
  /\ Nothing \notin Contents \union Requests
  /\ Nothing \notin Rows /\ Nothing \notin Chunks

MostChunks == CHOOSE n \in {ChunkCount[c] : c \in Contents} :
                \A c \in Contents : ChunkCount[c] <= n

VARIABLES
  row,        \* Postgres: Nothing or the document row [id, status, title]
  pageRow,    \* Postgres: pageRow[p] = content hash of the page's row, or Nothing
  edge,       \* SpiceDB: the document ids that have their owner edge
  index,      \* Qdrant: index[id][p][i] = chunk i of the page [text, title, by]
  op,         \* op[r]: what request r does
  pc,         \* pc[r]: where it is
  loaded,     \* loaded[r]: the document row as r read it, or Nothing
  known,      \* known[r]: the page rows as r read them
  staged,     \* staged[r]: the page rows of r's open transaction
  left,       \* left[r]: pages of the payload still to sync
  rowLock,    \* the request whose transaction has written the document row
  pageLock,   \* pageLock[p]: the request whose transaction has written the page row
  torn,       \* history: pages whose text a rolled back request has changed
  kept,       \* history: deletes that could not remove the chunks
  before      \* history: before[r] = requests that had ended when r began

postgres == <<row, pageRow>>
stores == <<row, pageRow, edge, index>>
locks == <<rowLock, pageLock>>
locals == <<loaded, known, staged, left>>
history == <<torn, kept, before>>
vars == <<row, pageRow, edge, index, op, pc, loaded, known, staged, left, rowLock,
          pageLock, torn, kept, before>>

NoPages == [p \in Pages |-> Nothing]
NoChunks == [i \in 1 .. MostChunks |-> Nothing]
Ended == {r \in Requests : pc[r] \in {"done", "refused", "failed"}}

\* A document created by r gets the fresh id r.
Init ==
  /\ row = Nothing
  /\ pageRow = NoPages
  /\ edge = {}
  /\ index = [id \in Requests |-> [p \in Pages |-> NoChunks]]
  /\ op \in [Requests -> Offered]
  /\ pc = [r \in Requests |-> "begin"]
  /\ loaded = [r \in Requests |-> Nothing]
  /\ known = [r \in Requests |-> NoPages]
  /\ staged = [r \in Requests |-> NoPages]
  /\ left = [r \in Requests |-> {}]
  /\ rowLock = Nothing
  /\ pageLock = NoPages
  /\ torn = {}
  /\ kept = {}
  /\ before = [r \in Requests |-> {}]

GoTo(r, label) == pc' = [pc EXCEPT ![r] = label]

Ingests == {r \in Requests : op[r].kind = "ingest"}
Deletes == Requests \ Ingests

IsNew(r) == loaded[r] = Nothing
DocumentId(r) == IF IsNew(r) THEN r ELSE loaded[r].id

\* The transaction of r is over: the rows it wrote are free.
ReleaseRows(r) ==
  /\ rowLock' = IF rowLock = r THEN Nothing ELSE rowLock
  /\ pageLock' = [p \in Pages |-> IF pageLock[p] = r THEN Nothing ELSE pageLock[p]]

\* Pages whose row r has changed in its transaction.
Changed(r) == {p \in Pages : staged[r][p] # known[r][p]}
Removed(r) == {p \in Pages \ DOMAIN op[r].pages : known[r][p] # Nothing}
MetadataChanged(r) == ~IsNew(r) /\ loaded[r].title # op[r].title

\* Every request starts with an unlocked select of the document row.
Begin(r) ==
  /\ pc[r] = "begin"
  /\ GoTo(r, IF r \in Ingests THEN "open" ELSE IF row = Nothing THEN "refused" ELSE "pages")
  /\ loaded' = [loaded EXCEPT ![r] = row]
  /\ before' = [before EXCEPT ![r] = Ended]
  /\ UNCHANGED <<stores, op, known, staged, left, locks, torn, kept>>

-------------------------------------------------------------------------------
(* ingest                                                                  *)

\* The first flush: INSERT of a new row, or UPDATE to status "indexing".  Either
\* waits for a transaction that has written the row.  Then the page rows are read.
OpenDocument(r) ==
  /\ pc[r] = "open"
  /\ rowLock = Nothing
  /\ IsNew(r) => row = Nothing
  /\ rowLock' = r
  /\ known' = [known EXCEPT ![r] = pageRow]
  /\ staged' = [staged EXCEPT ![r] = pageRow]
  /\ left' = [left EXCEPT ![r] = DOMAIN op[r].pages]
  /\ GoTo(r, "sync")
  /\ UNCHANGED <<stores, op, loaded, pageLock, history>>

\* Another ingest has created the external_id since the select: IntegrityError.
CreatedMeanwhile(r) ==
  /\ pc[r] = "open"
  /\ rowLock = Nothing
  /\ IsNew(r) /\ row # Nothing
  /\ GoTo(r, "failed")
  /\ UNCHANGED <<stores, op, locals, locks, history>>

Chunk(r, content) == [text |-> content, title |-> op[r].title, by |-> r]

\* upsert_chunks over what is there: chunk ids are deterministic, so chunk i
\* replaces chunk i and a longer page's tail stays.
Upserted(r, content, chunks) ==
  [i \in 1 .. MostChunks |-> IF i <= ChunkCount[content] THEN Chunk(r, content) ELSE chunks[i]]

\* Mutant: the page is not cleared before its new chunks are stored.
PageChunksOverOld(r, content, chunks) == Upserted(r, content, chunks)

\* _index_page: delete_page, then upsert_chunks; for a blank page, delete_page only.
PageChunks(r, content, chunks) == Upserted(r, content, NoChunks)

\* One page of the payload: skipped if its hash is the one in its row, otherwise
\* embedded and replaced.
SyncPage(r, p) ==
  LET content == op[r].pages[p]
  IN /\ pc[r] = "sync"
     /\ p \in left[r]
     /\ left' = [left EXCEPT ![r] = @ \ {p}]
     /\ IF known[r][p] = content
        THEN UNCHANGED <<index, staged>>
        ELSE /\ index' = [index EXCEPT ![DocumentId(r)][p] = PageChunks(r, content, @)]
             /\ staged' = [staged EXCEPT ![r][p] = content]
     /\ UNCHANGED <<postgres, edge, op, pc, loaded, known, locks, history>>

\* Mutant: the failure is recorded with the request's transaction still open.
FailWithoutRollback(r, pages) ==
  /\ GoTo(r, "record")
  /\ UNCHANGED locks
  /\ torn' = IF IsNew(r) THEN torn ELSE torn \union Changed(r) \union pages
  /\ UNCHANGED <<postgres, op, locals, kept, before>>

\* The exception handler of ingest begins with a rollback; `pages` are the pages
\* whose chunks the failing call changed.
Fail(r, pages) ==
  /\ GoTo(r, "record")
  /\ ReleaseRows(r)
  /\ torn' = IF IsNew(r) THEN torn ELSE torn \union Changed(r) \union pages
  /\ UNCHANGED <<postgres, op, locals, kept, before>>

\* Embedding fails and the page keeps its chunks; or the upsert fails after the
\* delete; or it takes effect and its answer is lost.
SyncPageFails(r, p) ==
  LET content == op[r].pages[p]
      replace(chunks) == index' = [index EXCEPT ![DocumentId(r)][p] = chunks]
  IN /\ pc[r] = "sync"
     /\ p \in left[r]
     /\ known[r][p] # content
     /\ \/ UNCHANGED index /\ Fail(r, {})
        \/ replace(NoChunks) /\ Fail(r, {p})
        \/ replace(PageChunks(r, content, index[DocumentId(r)][p])) /\ Fail(r, {p})
     /\ UNCHANGED edge

Cleared(id, pages) ==
  [index EXCEPT ![id] = [p \in Pages |-> IF p \in pages THEN NoChunks ELSE @[p]]]

\* Pages gone from the payload lose their chunks and rows, and the page rows are
\* flushed: UPDATE and DELETE wait for a delete_document that has written them,
\* and an UPDATE that finds its row gone is an error.
DropRemovedPages(r) ==
  LET written == {p \in Changed(r) \union Removed(r) : known[r][p] # Nothing}
  IN /\ pc[r] = "sync"
     /\ left[r] = {}
     /\ \A p \in written : pageLock[p] = Nothing
     /\ \A p \in written \ Removed(r) : pageRow[p] # Nothing
     /\ index' = Cleared(DocumentId(r), Removed(r))
     /\ staged' = [staged EXCEPT ![r] = [p \in Pages |-> IF p \in Removed(r) THEN Nothing ELSE @[p]]]
     /\ pageLock' = [p \in Pages |-> IF p \in written THEN r ELSE pageLock[p]]
     /\ GoTo(r, IF MetadataChanged(r) THEN "metadata" ELSE "own")
     /\ UNCHANGED <<postgres, edge, op, loaded, known, left, rowLock, history>>

\* A delete_page fails after some of the pages, or the flush fails; also the way
\* out for the ingest when Postgres finds it deadlocked with a delete.
DropRemovedPagesFails(r) ==
  /\ pc[r] = "sync"
  /\ left[r] = {}
  /\ \E pages \in SUBSET Removed(r) :
       index' = Cleared(DocumentId(r), pages) /\ Fail(r, pages)
  /\ UNCHANGED edge

Retitled(id, title) ==
  [index EXCEPT ![id] =
    [p \in Pages |-> [i \in 1 .. MostChunks |->
      IF @[p][i] = Nothing THEN Nothing ELSE [@[p][i] EXCEPT !.title = title]]]]

\* Mutant: the chunks of unchanged pages keep the old title.
MetadataKept(r) ==
  /\ pc[r] = "metadata"
  /\ GoTo(r, "own")
  /\ UNCHANGED <<stores, op, locals, locks, history>>

UpdateMetadata(r) ==
  /\ pc[r] = "metadata"
  /\ index' = Retitled(DocumentId(r), op[r].title)
  /\ GoTo(r, "own")
  /\ UNCHANGED <<postgres, edge, op, locals, locks, history>>

UpdateMetadataFails(r) ==
  /\ pc[r] = "metadata"
  /\ \/ UNCHANGED index /\ Fail(r, {})
     \/ index' = Retitled(DocumentId(r), op[r].title) /\ Fail(r, {})
  /\ UNCHANGED edge

\* set_document_owner, the last thing that can fail inside ingest.
SetDocumentOwner(r) ==
  /\ pc[r] = "own"
  /\ edge' = edge \union {DocumentId(r)}
  /\ GoTo(r, "commit")
  /\ UNCHANGED <<postgres, index, op, locals, locks, history>>

SetDocumentOwnerFails(r) ==
  /\ pc[r] = "own"
  /\ edge' \in {edge, edge \union {DocumentId(r)}}
  /\ Fail(r, {})
  /\ UNCHANGED index

\* _record_failure, after the rollback: a new document's chunks are removed if
\* Qdrant lets them; an existing one is marked, in a session of its own.
RecordFailure(r) ==
  /\ pc[r] = "record"
  /\ IF IsNew(r)
     THEN /\ index' \in {index, Cleared(r, Pages)}
          /\ UNCHANGED row
     ELSE /\ rowLock = Nothing
          /\ row' = [row EXCEPT !.status = "failed"]
          /\ UNCHANGED index
  /\ GoTo(r, "failed")
  /\ UNCHANGED <<pageRow, edge, op, locals, locks, history>>

-------------------------------------------------------------------------------
(* delete_document                                                         *)

\* DELETE document_page: the rows committed by now, waiting for those an ingest
\* has written.
DropPages(r) ==
  /\ pc[r] = "pages"
  /\ \A p \in Pages : pageRow[p] # Nothing => pageLock[p] = Nothing
  /\ pageLock' = [p \in Pages |-> IF pageRow[p] # Nothing THEN r ELSE pageLock[p]]
  /\ GoTo(r, "mark")
  /\ UNCHANGED <<stores, op, locals, rowLock, history>>

\* document.status = "deleted": no UPDATE if it was loaded so.
MarkDeleted(r) ==
  /\ pc[r] = "mark"
  /\ IF loaded[r].status = "deleted"
     THEN UNCHANGED rowLock
     ELSE rowLock = Nothing /\ rowLock' = r
  /\ GoTo(r, "purge")
  /\ UNCHANGED <<stores, op, locals, pageLock, history>>

\* The delete waits for the document row, its ingest for page rows of the delete:
\* Postgres aborts one of them.
Deadlocked(r) ==
  /\ pc[r] = "mark"
  /\ loaded[r].status # "deleted"
  /\ \E s \in Requests \ {r} :
       /\ rowLock = s
       /\ pc[s] = "sync" /\ left[s] = {}
       /\ \E p \in Changed(s) \union Removed(s) : pageLock[p] = r
  /\ ReleaseRows(r)
  /\ GoTo(r, "failed")
  /\ UNCHANGED <<stores, op, locals, history>>

PurgeEdges(r) ==
  /\ pc[r] = "purge"
  /\ edge' = edge \ {DocumentId(r)}
  /\ GoTo(r, "chunks")
  /\ UNCHANGED <<postgres, index, op, locals, locks, history>>

PurgeEdgesFails(r) ==
  /\ pc[r] = "purge"
  /\ edge' \in {edge, edge \ {DocumentId(r)}}
  /\ ReleaseRows(r)
  /\ GoTo(r, "failed")
  /\ UNCHANGED <<postgres, index, op, locals, history>>

\* Mutant: the chunks are left to the next re-ingest.
ChunksForgotten(r) ==
  /\ pc[r] = "chunks"
  /\ GoTo(r, "commit")
  /\ UNCHANGED <<stores, op, locals, locks, history>>

\* VectorStoreError is logged and swallowed.
DeleteChunks(r) ==
  /\ pc[r] = "chunks"
  /\ \/ index' = Cleared(DocumentId(r), Pages) /\ UNCHANGED kept
     \/ UNCHANGED index /\ kept' = kept \union {r}
  /\ GoTo(r, "commit")
  /\ UNCHANGED <<postgres, edge, op, locals, locks, torn, before>>

-------------------------------------------------------------------------------
(* The request's transaction ends.                                         *)

CommitIngest(r) ==
  /\ r \in Ingests
  /\ row' = [id |-> DocumentId(r), status |-> "indexed",
             title |-> IF IsNew(r) \/ MetadataChanged(r) THEN op[r].title ELSE row.title]
  /\ pageRow' = [p \in Pages |-> IF p \in Changed(r) THEN staged[r][p] ELSE pageRow[p]]
  /\ torn' = torn \ Changed(r)

\* Mutant: delete_document leaves the page rows behind.
CommitDeleteKeepingPages(r) ==
  /\ r \in Deletes
  /\ row' = IF rowLock = r THEN [row EXCEPT !.status = "deleted"] ELSE row
  /\ UNCHANGED <<pageRow, torn>>

CommitDelete(r) ==
  /\ r \in Deletes
  /\ row' = IF rowLock = r THEN [row EXCEPT !.status = "deleted"] ELSE row
  /\ pageRow' = [p \in Pages |-> IF pageLock[p] = r THEN Nothing ELSE pageRow[p]]
  /\ UNCHANGED torn

Commit(r) ==
  /\ pc[r] = "commit"
  /\ CommitIngest(r) \/ CommitDelete(r)
  /\ ReleaseRows(r)
  /\ GoTo(r, "done")
  /\ UNCHANGED <<edge, index, op, locals, kept, before>>

\* Outside ingest's exception handler: nothing is recorded.
CommitFails(r) ==
  /\ pc[r] = "commit"
  /\ ReleaseRows(r)
  /\ GoTo(r, "failed")
  /\ torn' = IF r \in Deletes THEN Pages
             ELSE IF IsNew(r) THEN torn
             ELSE torn \union Changed(r)
  /\ UNCHANGED <<stores, op, locals, kept, before>>

Terminated == Ended = Requests /\ UNCHANGED vars

RequestStep(r) ==
  \/ Begin(r)
  \/ OpenDocument(r) \/ CreatedMeanwhile(r)
  \/ \E p \in left[r] : SyncPage(r, p) \/ SyncPageFails(r, p)
  \/ r \in Ingests /\ (DropRemovedPages(r) \/ DropRemovedPagesFails(r))
  \/ UpdateMetadata(r) \/ UpdateMetadataFails(r)
  \/ SetDocumentOwner(r) \/ SetDocumentOwnerFails(r) \/ RecordFailure(r)
  \/ DropPages(r) \/ MarkDeleted(r) \/ Deadlocked(r)
  \/ PurgeEdges(r) \/ PurgeEdgesFails(r) \/ DeleteChunks(r)
  \/ Commit(r) \/ CommitFails(r)

Next == (\E r \in Requests : RequestStep(r)) \/ Terminated

Spec == Init /\ [][Next]_vars

-------------------------------------------------------------------------------
(* Properties.                                                             *)

Hashes == Contents \union {Nothing}
DocumentRows == {Nothing} \union Rows
PCs == {"begin", "open", "sync", "metadata", "own", "record", "pages", "mark", "purge",
        "chunks", "commit", "done", "refused", "failed"}

\* The values the variables take.  Page rows and owner edges of a committed
\* document belong to an existing row, and a row is written by one open
\* transaction at most, in the states that have one.
TypeOK ==
  /\ row \in DocumentRows
  /\ pageRow \in [Pages -> Hashes]
  /\ row = Nothing => pageRow = NoPages
  /\ edge \subseteq Requests
  /\ index \in [Requests -> [Pages -> [1 .. MostChunks -> Chunks \union {Nothing}]]]
  /\ op \in [Requests -> Offered]
  /\ pc \in [Requests -> PCs]
  /\ loaded \in [Requests -> DocumentRows]
  /\ known \in [Requests -> [Pages -> Hashes]]
  /\ staged \in [Requests -> [Pages -> Hashes]]
  /\ left \in [Requests -> SUBSET Pages]
  /\ rowLock \in {Nothing} \union {r \in Requests \ Ended : pc[r] \notin {"begin", "open", "record"}}
  /\ pageLock \in [Pages -> Requests \union {Nothing}]
  /\ torn \subseteq Pages
  /\ kept \subseteq Deletes
  /\ before \in [Requests -> SUBSET Requests]

\* "A page that shrank would otherwise keep stale trailing chunks" (_index_page):
\* the chunks of a page are those of one content, all of them, and from one
\* ingest, whatever failed in between.
PagesAreWhole ==
  \A id \in Requests, p \in Pages :
    LET present == {i \in 1 .. MostChunks : index[id][p][i] # Nothing}
    IN \A i \in present :
         /\ present = 1 .. ChunkCount[index[id][p][i].text]
         /\ \A j \in present : index[id][p][j] = index[id][p][i]

\* The chunks of page p are those its row speaks of.
PageMatchesRow(p) ==
  \A i \in 1 .. MostChunks :
    LET chunk == index[row.id][p][i]
    IN IF pageRow[p] # Nothing /\ i <= ChunkCount[pageRow[p]]
       THEN chunk # Nothing /\ chunk.text = pageRow[p]
       ELSE chunk = Nothing

RanApart(r, s) == r \in before[s] \/ s \in before[r] \/ "refused" \in {pc[r], pc[s]}

\* No delete ran during an ingest, and every delete removed the chunks.
DeletesApart == kept = {} /\ \A d \in Deletes, r \in Ingests : RanApart(d, r)

SettledAndIndexed == Ended = Requests /\ row # Nothing /\ row.status = "indexed"

\* An indexed document is searchable as its rows say: every page whose last
\* change was not torn by a failed ingest has exactly the chunks of its hash, also
\* when ingests ran concurrently.  Not claimed when a delete ran during an ingest
\* or could not remove the chunks.
IndexMatchesRows ==
  SettledAndIndexed /\ DeletesApart => \A p \in Pages \ torn : PageMatchesRow(p)

\* "Without this, chunks of unchanged pages would keep citing the old title"
\* (update_document_metadata): such chunks carry the title of the document row.
\* Not claimed when two ingests ran concurrently either (the second compares its
\* title with a row it read before the first committed), nor after a failed one
\* that was to change the title.
ChunksCiteTitle ==
  SettledAndIndexed /\ DeletesApart
  /\ (\A r, s \in Ingests : r # s => RanApart(r, s))
  /\ (\A r \in Ingests : pc[r] = "failed" => ~MetadataChanged(r))
  => \A p \in Pages \ torn, i \in 1 .. MostChunks :
       index[row.id][p][i] # Nothing => index[row.id][p][i].title = row.title

\* The chunks a question can bring up: of the committed row's id, with its edge,
\* and not deleted (list_viewable_document_ids).
Retrievable ==
  IF row = Nothing \/ row.status = "deleted" \/ row.id \notin edge
  THEN {}
  ELSE {index[row.id][p][i] : p \in Pages, i \in 1 .. MostChunks} \ {Nothing}

\* What was deleted does not come back: no retrievable chunk was written by an
\* ingest that had ended before a delete which removed the chunks began, even if
\* the external_id is ingested again.
DeletedIsGone ==
  \A d \in Deletes \ kept, chunk \in Retrievable :
    pc[d] = "done" => chunk.by \notin before[d]

\* "Access is already gone and the row is marked deleted, so these chunks can
\* never be retrieved" (delete_document): the same of a delete whose chunk removal
\* failed.
UndeletedChunksUnreachable ==
  \A d \in kept, chunk \in Retrievable :
    pc[d] = "done" => chunk.by \notin before[d]

\* r succeeded, after everybody else had ended.
LastIngest(r) ==
  r \in Ingests /\ pc[r] = "done" /\ before[r] = Requests \ {r}

\* The page text of a successful ingest is what is searchable afterwards.
PayloadIsIndexed(r) ==
  \A p \in DOMAIN op[r].pages : \A i \in 1 .. ChunkCount[op[r].pages[p]] :
    index[row.id][p][i] # Nothing /\ index[row.id][p][i].text = op[r].pages[p]

\* "A failed ingest must leave a known state" (tests/test_ingestion_failure.py):
\* whatever failed before, an ingest that succeeds afterwards leaves its pages
\* searchable.
ReingestHeals ==
  (\A s \in Requests : s \in Ingests) =>
    \A r \in Requests : LastIngest(r) => PayloadIsIndexed(r)

\* "Page rows go so a later re-ingest of the same external_id indexes every page
\* instead of skipping 'unchanged' pages whose chunks no longer exist"
\* (delete_document): so it is when no request has failed.
ReingestAfterDelete ==
  (\A s \in Requests : pc[s] # "failed") /\ kept = {} =>
    \A r \in Requests : LastIngest(r) => PayloadIsIndexed(r)
===============================================================================
