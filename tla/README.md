# PermRAG in TLA+

PermRAG answers questions from a company's documents and shows a user only
passages of documents that user may see. SpiceDB is the authority on who may see
what; Postgres mirrors its relationships for the admin panel, holds users,
documents and page hashes, and stores the newest ZedToken (the *checkpoint*);
Qdrant holds the searchable chunks. This directory models the server that keeps
these three stores in step and answers from them, and the console in front of it,
checks them with TLC and proves what can be proved with TLAPS.

All paths below are relative to the repository root unless they start with
`permissions/`, `ingestion/`, `rag/`, `db/`, `api/`, `security/` or `vectorstore/`,
which are under `src/permrag/`, or with `ui/`.

## 1. Inventory

| Component | State it keeps | Operations | Hard behaviour | What makes it correct |
|---|---|---|---|---|
| ZedToken checkpoint (`permissions/service.py` 55-105, `db/session.py` 76-99) | one row with the newest token | lock or insert the row, SpiceDB call(s), store token, commit; read token | racing first insert, queueing, deadlines, late application, lost commits | token never moves back, one writer at SpiceDB, later reads see acknowledged writes, writers end |
| PermissionService writes (`permissions/service.py` 109-426) | relationships, mirror rows, audit rows | ten operations: membership, owner, shares, grants, purges | validate-then-write gaps, failure between SpiceDB and commit, concurrent changes of one pair | one role, one owner, an edge has its row unless a failed request or a racing repeated grant left it, the last change wins |
| PermissionService reads (430-481) | - | list viewable, can view, list access, end transaction | deleted documents, revocation during a question | fresh and live documents only |
| SpiceDB client (`permissions/client.py`) | - | write, delete by filter, lookup with cursor, check, read | deadline passed but applied, paging with duplicates, cap | lookup is complete up to the cap, has no duplicates and ends |
| Schema (`schema/permrag.zed`) | relations, `view` | - | union of paths | `view` disappears only with the last path |
| Ingestion pipeline (`ingestion/pipeline.py`) | document row, page rows, chunks, owner edge | ingest, re-ingest, record failure, delete | three stores without a common transaction, overlapping requests, row locks, swallowed failures | index says what the rows say, no mixed pages, deleted stays deleted |
| Chunker (`ingestion/chunker.py`) | - | cut a page in token windows | snapping, overlap, progress | windows fit, cover the text, end |
| Qdrant store (`vectorstore/qdrant.py`) | chunks with payload | upsert, delete page/document, update payload, filtered search | deterministic ids | search respects the filter |
| Retriever, reranker (`rag/retriever.py`, `rag/reranker.py`) | loaded encoder | lookup, search, verify, rerank | permissions change while a question runs; fallbacks | only permitted documents, order by score, at most top-k |
| Answerer, evaluation (`rag/answerer.py`, `evaluation/evaluator.py`) | background tasks, slots, query log | answer, log, evaluate, drain | tasks outlive the request, shutdown timeout | at most the slots run, none is lost without a warning |
| Sessions and pools (`db/session.py`, `api/deps.py`) | two connection pools | session per request, checkpoint transaction | nested acquisition | no request waits for itself or in a circle |
| Login throttle (`security/throttle.py`, `api/routers/auth.py`) | failures per key | check, record, reset | a password check in a thread between check and record, eviction | bounded failures per window |
| API (`api/`) | - | endpoints | dependency commits after the handler | one transaction per request |
| Process and tracing (`api/main.py`, `observability/langfuse_client.py`) | the Langfuse client | start, stop, flush | tasks that push while the process goes down | a process told to stop does, and says what it drops |
| Console (`ui/app.py`, `ui/api_client.py`) | token, user and chat per browser session; one cache of lists | sign in and out, ask, list, change, share, upload | sessions side by side, a script ended by the next interaction, expired tokens | chat and lists are the user's own, and lists a session fetches hold what it did |
| LLM clients, passwords, settings, scripts, file parsing | - | library calls, I/O, presentation | - | not modelled, see section 7 |

How they interact. An admin request opens one Postgres transaction
(`api/deps.py`), calls PermissionService or the pipeline in it, and commits when
the handler has returned. PermissionService stages mirror and audit rows in that
transaction, then opens a second, short transaction on the checkpoint pool, locks
the checkpoint row, calls SpiceDB, stores the token and commits it. The pipeline
writes chunks to Qdrant while its rows are uncommitted, and the owner edge last.
A question reads the token, asks SpiceDB for the viewable documents at least as
fresh as it, filters deleted documents, searches Qdrant with the ids as a filter,
reranks and answers. Requests are coroutines interleaved at every `await`, in any
number of processes.

The behaviours that a test hardly reaches are listed, each at its line, under
`hazards` in PROJECT.json.

## 2. Plan

| Step | Module | Abstract specification / composition | Runs | Proofs | State |
|---|---|---|---|---|---|
| 1 | `Checkpoint` | implements `FreshReads` | `checkpoint` | invariants, action property, refinement | done |
| 2 | `PermissionService` | the SpiceDB part under the lock of step 1, as one step | `permission_service`, two violations | types, one role, one owner, what is listed, last change wins | done |
| 3 | `IngestionPipeline` | - | `ingestion`, three violations | all safety properties of `ingestion` | done |
| 4 | `Retrieval`: a question against permission changes, deletes and ingests (token, lookup, live filter, cap, search, verification) | the other modules as the world it runs in | `retrieval`, one violation | types, one snapshot, no deleted document, completeness below the cap | done |
| 5 | `Server`: requests over the two pools, the log row of a question, evaluation tasks, start and shutdown | questions of step 4 and checkpoint writers of step 1 as what they hold and wait for | `server`, with liveness | all safety properties | done |
| 6 | `LoginThrottle` | an exact sliding window, as history | `parts` | types, the window is exact, failures are bounded | done |
| 7 | `Chunker`, `LookupPaging`, `Passages` | `LookupPaging` implements `AtomicLookup`, whose `LookupContract` Retrieval uses | `parts` | all of `Chunker`'s and `Passages`' properties; types and refinement of `LookupPaging` | done |
| 8 | `Console` | - | `parts` | chat and lists are the user's own | done |

Theorems worth proving, in order: the five of section 6 on the checkpoint; for step
2 the type invariant, one role per pair and single owner for any number of requests;
for step 4 the snapshot promise; for step 7 that chunking loses nothing, whatever the
sizes, and that paging implements the lookup that step 4 relies on; for steps 5 and
8 the safety invariants; then that edges are listed and the last change wins (step 2), that pages are whole and
deletes final, the index matches the rows and chunks cite the title (step 3), and that
the lookup below the cap is complete (step 4); last the safety invariants of step 6 and
of `Passages`, which need an induction over sequences. All these are done, so every
safety property of the passing runs is also a theorem.

## 3. Modules and how they correspond to the code

**FreshReads** - what callers of the permission system are promised, without
lock, token or transaction: changes are acknowledged or fail, and a read is
answered from one revision that contains every change acknowledged before it
began.

**Checkpoint** - `_write_and_checkpoint` and `_lock_checkpoint` statement by
statement. `pc[w]` is the statement a writer has reached: the `SELECT ... FOR
UPDATE`, the `INSERT ... ON CONFLICT DO NOTHING` of a fresh database, the second
select, `apply()`, the commit. `row` is what is committed, `lock` the writer whose
transaction holds (or is inserting) it. SpiceDB is a counter of revisions; a call
returns a token, is rejected, or passes its deadline and is then applied already
or later (`LateCallApplies`) or never. A purge makes two calls under one lock
(`Calls`). Readers take the committed token (`ReadToken`) and are answered from a
revision `Consistency` allows. `row \in {NoRow, 0}` initially: `scripts/bootstrap.py`
may or may not have run.

**PermissionService** - every write operation as a *plan*: what it validates,
which mirror rows it upserts, inserts or deletes, which relationships each SpiceDB call
touches and removes, which document or user row it updates. A request follows the
order of the class docstring: `Validate`, `Stage`, SpiceDB calls under the lock,
`Commit`. Postgres is READ COMMITTED: `Validate` reads committed rows and locks
nothing, `Stage` waits for rows other open transactions have written (`WaitsFor`) and
then holds its own (`rows`, from `Written`). A membership is an `ON CONFLICT DO UPDATE`
and holds its row in any case (`put`); a share or grant is an `ON CONFLICT DO NOTHING`
(`insert`), which on a committed row writes and holds nothing, so that others may delete
the row before the request commits, and then adds none (`Put`). `parted`, `before` and
`kept` are history variables. Two ORM facts matter and are modelled: the document row a
request compares with is the one it loaded (`loaded`), and a column assigned its
loaded value is not updated (`DocumentAfter`). SpiceDB calls return, are
rejected, or fail after being applied or before being applied late. `holder` is
the checkpoint lock between the two calls of a purge; the rest of module
Checkpoint is one step here. Audit rows commit and roll back with the mirror rows
and are left out. `Stage` performs all statements of a request at once: none of
the operations locks rows in an order that could make two of them deadlock
(memberships, shares, document).

**IngestionPipeline** - the life of one `external_id`. `row` and `pageRow` are
committed Postgres state, `staged` the page rows of an open transaction, `index`
the chunks in Qdrant per document id and page, `edge` the owner edges. Content
stands for its hash. The steps are the awaits of `ingest`, `_sync_pages`,
`_index_page`, `_record_failure` and `delete_document`, each with the failure of
its store call before and after it took effect. A page of the payload may be
synced in any order, which is the order of the payload. Row locks are modelled
because overlapping requests depend on them, Postgres' deadlock detection
included (`Deadlocked`). `torn`, `kept` and `before` are history variables that
properties use to say what they do not claim.

**Retrieval** - questions of one user, from the token to the passages the model is
shown. `pc[q]` is the step of `list_viewable_document_ids` or `retrieve` that comes
next. The other modules' requests are a *world* that can do to the permission
graph, the token and the rows anything those requests can do, at any moment: this
over-approximates them, so nothing is gained from an order the world keeps by
accident. It keeps three things of them, which the properties of the other modules
justify: the token grows and is never ahead of SpiceDB (`TokenNeverMovesBack`), a
row is deleted only after its edges were purged (`delete_document` commits last),
and a share or grant has seen a live row at some time. `views[i]` is what the user
may view in revision `i`, by the three paths of `permission view`. The lookup may
be answered from any revision that its consistency allows; with more documents
than the cap it returns any `MaxPermitted` of them. The pages of one lookup come
from one revision because a SpiceDB cursor carries it. The search may return any
chunks, of documents outside its filter too, because `retrieve` does not trust it.
Embedding, reranking and answering read nothing that others write, so they are one
step with the search. `due`, `everLive` and `alwaysLive` are history variables.

What a lookup returns is **LookupContract**, one operator that Retrieval uses in one
step. **LookupPaging** is `lookup_viewable_documents` as it arrives there: `results`
is SpiceDB's answer, a document once per path; `SendPage`, `ReceiveResult` and
`EndPage` are the request, one turn of `async for` and what follows it.
**AtomicLookup** is a lookup without pages, which answers by the same
LookupContract; that LookupPaging implements it justifies the one step of Retrieval.
SpiceDB returns a cursor with every result and refuses a follow-up with another page
size ("refused"), as the comment in the code says of it.

**Passages** continues where Retrieval stops: `candidates` are the verified hits in
embedding order, with the score the encoder would give each. `Rank` returns them best
first, ties in any order, and may lose the index of any of them; one `Decide` is one
turn of the loop in `rerank_all`; `RankingSkipped`, `RankingFails` and the end of
`EndRanking` are its four fallbacks. `BuildContext`, `Generate` and `Shown` number,
cite and select the citations of the answer. **Selection** is a list comprehension with
a condition, as a recursive function, because `SelectSeq` cannot be unfolded in a proof.

**Chunker** is `chunk_page` on positions: a page is a number of tokens and the set of
those that start a word, a chunk an interval. One `CutWindow` is one turn of the loop.

**LoginThrottle** is `security/throttle.py` with `login` around it. `CheckLogin` and
the three outcomes are separate steps because the password is checked in a thread in
between. A failure is its age in ticks; beyond the window all ages are alike. `Stale` is
how often `_recent` pops from the left, `Recent` what it leaves. `actual`
is the history the throttle is compared with, `newer` says when the cap on tracked
keys may make it forget.

**Server** is the process. `at[r]` is where request r is: `Enter` is the first
statement of `get_current_user`, which takes a connection; `LookUp` ends with
`end_transaction`, which gives it back; `Log` takes one again and creates the
evaluation task; `CommitRequest` is the end of `get_db_session`. A failed question
holds whatever it holds and `RecordFailure` takes one more connection. A permission
write holds its connection through `TakeCheckpointConnection`, `LockCheckpoint` and
`EndCheckpoint`, which are module Checkpoint in three steps. `task[r]` is the
evaluation, `scored` once its scores are with the Langfuse client. The lifespan is
`phase`; `warned` is set by the two log lines that say something was dropped.

**Console** is `ui/app.py`. Sessions run side by side and share `cache`; all data is
one counter `changes`, a list is the counter at the time it was read. `busy[s]` is the
API call the script waits for. `Change` is every page whose handler clears the lists
afterwards, `Share` the four buttons that do not, `Upload` one file after another with
one clearing at the end; an interaction during it ends the script
(`UploadInterrupted`), and lists are then up to ten seconds old, which no property
denies. `SignIn` stores the token before it asks for the user. A token is a user and a
second (`Tokens`): `create_access_token` puts in nothing else that differs between two
sign-ins, so two sessions of a user may have the same one and with it the same cached
lists. A list says which session fetched it (`by`). Every interaction draws the page
anew (`Interacts`), so nothing is on it while the script waits.

**MC modules** give the constants values. **MCParts** instantiates the five modules
that stand alone, and a variable `part` chooses which of them a behaviour takes.
**CheckpointProofs**, **PermissionServiceProofs**, **IngestionPipelineProofs**,
**RetrievalProofs**, **ChunkerProofs**, **LookupPagingProofs**, **ServerProofs** and,
for Passages, LoginThrottle and Console, **PartsProofs** hold the proofs.

Operators whose comment begins with "Mutant:" are not part of the system. Each
is a plausible defect of the definition that follows it, and the property named
for it in PROJECT.json is violated when it takes that definition's place.

## 4. Runs

| Run | Instance | Distinct states | Shows |
|---|---|---|---|
| `checkpoint` | 3 writers (one of two calls), 1 reader | 30 thousand | six properties hold |
| `permission_service` | any 3 of 10 operations, 1 user, 2 departments, 1 document | 1.7 million | five invariants hold |
| `ingestion` | any 3 of 3 payloads and delete, 2 pages, at most 2 chunks each | 0.53 million | five invariants hold |
| `retrieval` | 1 question, 2 departments, 3 documents, cap 2, 3 revisions | 0.57 million | four invariants hold |
| `parts` | pages of 12 tokens; 4 documents on 6 paths, limit 3, pages of 2; 4 candidates; 3 keys, 2 logins; 2 sessions | 1.04 million | fifteen properties hold |
| `server` | 3 clients, 3 connections, 2 for checkpoints, 1 evaluation slot | 0.14 million | five properties hold |
| `deactivation` | 2 requests | - | `DeactivatedHoldsNothing` is violated |
| `owner_race` | 2 requests | - | `OwnerMatchesRow` is violated |
| `kept_chunks` | 3 requests | - | `UndeletedChunksUnreachable` is violated |
| `resubmit` | 3 requests | - | `ReingestHeals` is violated |
| `delete_race` | 4 given requests | - | `ReingestAfterDelete` is violated |
| `truncation` | as `retrieval` | - | `TruncationIsFlagged` is violated |

### What holds

- `OneWriterAtSpiceDB`, `TokenNeverMovesBack`, `AckedWriteIsVisible`, `WritesEnd`
  and the refinement `KeepsPromise`: the lock serialises writers even when they
  race to create the row; lost and late calls cost availability, never freshness.
- `OneRolePerPair`, `SingleOwner`: the atomic TOUCH+DELETE and the owner read
  inside the lock do what they are for. `SingleOwner` is not claimed for a
  document an ingest of which was lost on its way to or from SpiceDB: a late
  TOUCH can add a second owner.
- `EdgesAreListed`, `LastChangeWins`: memberships, shares and grants have their row
  in the panel, with two exceptions that the property names, and the last change wins
  in both stores. The first exception is what a failed request touched, the known
  residual risk of `docs/permission-system.md`. The second is a race in which nobody
  fails (`Raced`): a share or grant whose row is there inserts nothing and holds no
  lock (`permissions/service.py` 296-300, 349-353); a revoke, purge or delete takes
  row and relationship away and commits; then the relationship is written and stays
  without a row. Without the exception TLC finds exactly that with two requests. So
  the panel can miss somebody's access until the next revoke or the next
  `make check-permissions`; what the property shows is that only this overlap does it,
  that changes of memberships never do, and that a share or grant that inserts its row
  does not. The other direction of the mirror does not hold: an add and a removal of a membership
  that does not exist yet may overlap so that the mirror row stays without its
  relationship.
- `PagesAreWhole`, `IndexMatchesRows`, `ChunksCiteTitle`, `DeletedIsGone`: in
  Qdrant a page is always one version or empty; a settled document has the chunks
  of its hashes unless a failed ingest tore the page; titles follow the row unless
  ingests overlap; deleted content is not retrievable again.
- `OneSnapshot`, `DeletedStaysOut`, `CompleteBelowCap`: an answer quotes documents
  of one revision, at least as new as the question, and never one that was deleted
  before the question came, whatever the search returns and whatever changes
  meanwhile. A revocation acknowledged while the question runs may be missed. If
  the lookup stayed below the cap, every document the user had all along is
  searched.

- `NothingLost`, `EdgesAtWords`, `PassagesIntact`: for every page up to 12 tokens and
  every way to divide it into words, chunks cover it, end and begin at words, and
  keep short passages whole. `PassagesIntact` needs words shorter than half of what a
  window adds (170 tokens with the defaults); with longer ones the next window may
  begin where the last ended.
- `PagingIsAtomic`, `LookupEnds`: the lookup in pages is the lookup in one step, and
  it ends even if SpiceDB always returns a cursor.
- `KeptAreBest`, `CitationsMatch`: whatever indices the encoder loses, the best
  passages above the floor are shown, in order, and a citation has the number the
  model saw.
- `WindowIsExact`, `FailuresBounded`: the throttle counts exactly the failures of the
  window, and logins in flight together pass the limit by no more than their number.
- `OneRowPerQuestion`, `ScoresLostOnlyWithWarning`, `RequestsEnd`, `ShutdownEnds`: a
  question leaves one row or a logged reason; no request waits for ever although
  permission changes and failed questions hold one connection while they want
  another; the process stops, with scores lost only if it said so.
- `ChatIsOwn`, `ListsAreOwn`: in the console, chat and lists are those of the signed-in
  user, and a list that a session has fetched itself holds every change it has reported
  as done. A list from the cache may have been fetched by another session of the user
  that was given the same token, and then it may lack one: that session read it before
  the change and stored it after the change had cleared the cache (TLC finds this if
  the property is asked of all lists). It is at most ten seconds old.

### What does not hold

1. `deactivation`. `_require_active_user` reads without a lock, and
   `deactivate_user` clears `is_active` after the purge in a transaction that
   commits later. A grant that validated before the commit writes its edge after
   the purge; both requests succeed and the deactivated user holds an edge
   ("User deactivated and all access revoked", `api/routers/admin.py` 138).
2. `owner_race`. Two ingests of one document overlap, one a transfer. The other
   assigns the owner it loaded, so no UPDATE of the column is issued, and then
   replaces the owner edge. Row and edge name different departments.
3. `kept_chunks`. A delete whose chunk removal fails keeps the chunks, "these
   chunks can never be retrieved" (`ingestion/pipeline.py` 331-332); a re-ingest
   of the `external_id` reuses the document id and they are retrievable again.
4. `resubmit`. A failed re-ingest rolls back the page hash but not the chunks.
   Submitting the previous content again is skipped as unchanged, so the index
   keeps the other content, or none.
5. `delete_race`. A delete removes the page rows it sees, then waits for an ingest
   that inserts one more; that row outlives its chunks and the next ingest skips
   the page, which the docstring of `delete_document` says cannot happen.
6. `truncation`. `retrieve` compares the cap with the ids the live filter left. A
   lookup that fills the cap with an id without a live row (an ingest that has
   written its owner edge but not committed, or an edge left behind) omits another
   document, and `RetrievalResult.truncated` is false (`rag/retriever.py` 56-59,
   P13 of `docs/permission-system.md`).

One more disagreement was met that needs no run: `docs/permission-system.md` 76-77
says payloads of unchanged pages keep the old `department_id` after a transfer;
`ingest` (83-86) rewrites it.

### Bounds and why they are enough

Three writers are the least with a holder, a waiter and a writer that arrives
between them; two SpiceDB calls are what the longest operation makes. One user,
one document and two departments are enough for the permission operations because
each relates at most one pair and the owner's change two departments; three
requests allow a change, a concurrent one and one that follows. Two pages
distinguish a changed, an unchanged, a new and a removed page; contents of one and
two chunks distinguish growing from shrinking. Three requests cover create,
change and another change or a delete that overlaps them; the fourth finding needs
create, ingest overlapping delete, re-ingest, and so has four given ones. For
`retrieval` three documents are one more than the cap, so that the lookup chooses,
and three revisions allow two changes around one question: one it must see and one
it may miss, or a revoke and a grant that together would mix two revisions; two
departments give a document two paths. Questions do not affect each other, so one
is enough.

A page of 12 tokens with windows of 6 and an overlap of 2 has up to five windows:
one that is snapped, one inside a word, one whose overlap is eaten by a long word, and
a last one. Six results over four documents fill three pages of two, the last full,
short or empty, with repeats on one page and across two; the limit 3 is no multiple of
the page size. Four candidates and three scores, one below the floor, leave two kept,
one beyond and one below, with any of them lost. Two failures, two logins in flight
and two of three keys tracked are the least at which the limit, the overlap and the
eviction meet; a window of one tick tells a fresh, an old and an expired failure
apart. Two sessions and two users are two readers of the cache with one change each;
any sign-in may fall into either of two seconds, so tokens are shared or not;
one file of an upload may be in and the next not. Three requests exhaust the pool of
three while each wants another connection, and two checkpoint connections leave a
third writer waiting; with one slot an evaluation runs while two queue.

`MaxRevisions`, and in Console `MaxChanges` and `MaxFiles`, are the only counters
capped by a guard; otherwise every request of a change and every writer runs once,
or resets what it used, and the state spaces are finite as they are. Requests are interchangeable before they
draw their operation, which is why `RequestSymmetry` is sound; no run with
symmetry checks liveness.

## 5. Fairness

In `checkpoint`, `Fairness` is weak fairness of each writer's
progress and of each reader: the event loop runs every coroutine that can run, a
SpiceDB call ends by its deadline (`permissions/client.py` 117-119), and Postgres
releases a lock when its transaction ends. There is no fairness for giving up
(`GiveUp`): a waiting writer is not assumed to be rescued by a timeout, nor is a
lost call assumed to be applied (`LateCallApplies`). Weak fairness suffices for a
finite number of writers because each takes the lock at most once.

`PagingFairness` is weak fairness of the lookup's own steps: SpiceDB streams a page
or the call ends with its timeout. That the lookup fails is never assumed.

`ServerFairness` is strong fairness of a request's steps that take a connection or the
checkpoint lock: SQLAlchemy's pool queues its waiters and Postgres its lockers, first
come first served, so one of them is not passed over for ever. The steps that end by
themselves are weakly fair, since their calls have timeouts (SpiceDB
`spicedb_timeout_seconds`, Qdrant, and the LLM clients, each with its own), and so are
the steps of the shutdown. No evaluation is assumed to end, no client to stop asking,
and no wait to time out but the one of `record_failed_query`, which gives up when it
finds no connection: this is what `RequestsEnd` rests on where failed questions hold
the whole pool.

## 6. Proofs

`CheckpointProofs` proves, for any sets of writers and readers, any number of
calls per writer and no bound on anything, from `CheckpointAssumption` only (each
writer makes at least one call; `NoRow` is no token and `NoOne` no writer):

- `TypeCorrect`, `MutualExclusion`, `TokenMonotone`, `Freshness`: the type
  invariant, `OneWriterAtSpiceDB`, `TokenNeverMovesBack`, `AckedWriteIsVisible`;
- `Refinement`: Checkpoint implements FreshReads (`KeepsPromise`).

None of the properties is inductive. That two writers cannot be inside together
needs to know that the lock is held by exactly the writer inside, and that a call
applied late belongs to a change that has failed (`LockInv`). That the token does
not move back needs to know that a writer about to store a token has one, the
newest of its change and at least the row's (`TokenInv`), which in turn needs
that a writer inside still has a call to make until it reaches `store`
(`CallInv`). That a reader sees what it must needs that the row is at least the
newest revision of every acknowledged writer (`TokenInv`), and that the token the
reader is pinned to is at least the newest revision of every writer it was due
(`ReaderInv`). A call applied late moves `head`, but no acknowledged writer's
revision. `Inv` is the conjunction; `InitInv` and one lemma per group of actions
show that it is inductive (`Invariance`). In the refinement every lemma names the
step of FreshReads that an action is: taking the lock is a stutter, a call that
returns is a `Write`, the commit an `Acknowledge`.

`PermissionServiceProofs` proves, for any users, departments and documents and any
number of requests, each with any of the ten operations, from `ServiceAssumption`
(ids of different kinds are different) and `OfferedAssumption`:

- `TypeCorrect`: the type invariant, of which the unique constraint of the mirror
  is the part that needs an argument;
- `OneRole` and `OneOwner`: `OneRolePerPair` and `SingleOwner`;
- `NoUnlistedAccess` and `LastWordHolds`: `EdgesAreListed` and `LastChangeWins`.

Its lemmas first say what all operations have in common (`WellFormed`): their
relationships are of the right kind, an operation that creates a role removes the
other role of the pair in the same call (`KeepsOneRole`), and only an ingest
creates an owner. The mirror keeps its constraint because a transaction that
commits holds the rows it upserts (`PlanInv`). One role per pair needs, besides,
that the writes SpiceDB may still apply late keep one role too (`LateRoleInv`). One
owner needs that an owner that arrives late comes from a failed ingest of that
document, for which `SingleOwner` claims nothing (`LateOwnerInv`); the owner that
an ingest writes is the only one because it reads the owners it replaces under
the lock (`OwnerUpdate`).

That relationships are listed is the hardest of them, because row and relationship
change in different steps of requests that overlap. A relationship has its row, or some
request that has written it is about to commit the row; and no request about to commit
takes that row away (`Listed`); or else a failed request or a race of an insert has
touched it (`ListedInv`). The second half is what a request
gets from removing, in SpiceDB, every relationship whose row it drops (`Matches`). It
needs four more facts: the rows a request holds are those of what it creates or
removes (`RowsInv`), a purge keeps the lock between its two calls, so that what the
first removed stays removed (`CallInv`), what arrives late was of a failed request
(`LateEdgeInv`), and a row that an insert found is still there when its relationship is
written, or somebody who had not ended when the request began has deleted it and
committed (`KeptInv`), which is the race. A race stays one: what it says of the order of
two requests does not change once both are past SpiceDB (`BeforeInv`, `RacedStep`).

That the last change wins is proved for one request and one relationship at a time.
The property speaks of the end, when everybody else has ended before the request began
or was refused; the invariant needs a condition that holds all along and that no step
can bring back once it is gone: everybody else had ended by then or has not got past
validation (`Alone`). While it holds, the steps of others leave the relationship, its
mirror row and its document alone (`Untouched`), and what the request has found and done
so far is true (`Words`): the document is the one it loaded, the row that has to go is
among those it writes, what its calls removed is gone. `HistoryInv` says that what had
ended stays ended and that nothing late concerns the relationship.

`IngestionPipelineProofs` proves, for any pages, contents and titles and any number of
requests, from `PipelineAssumption` (the contents have a largest number of chunks):

- `TypeCorrect`: the type invariant, in which a page row never outlives its document
  row and the row lock belongs to an open request;
- `WholePagesOnly` and `DeletedStaysGone`: `PagesAreWhole` and `DeletedIsGone`;
- `IndexIsAsRows` and `TitlesAreCited`: `IndexMatchesRows` and `ChunksCiteTitle`.

Every write to the index clears a page, replaces all of it, or changes all its titles
(`IndexForms`), so a page is always one of `WholePages`. That deleted content stays gone
needs that a document row never becomes another document and that an open ingest holds
the row it writes (`WhereInv`); then a delete past its chunks left none of those who had
ended before it, and whoever has ended stores nothing more (`GoneInv`).

The index and the rows are compared when all requests have ended; before that the proof
follows who holds the document row. The ingest that holds it is the only one in Qdrant
(`WriterFacts`), and its pages are what its own transaction says of them, `staged`
(`WriterOk`): a commit then makes the rows say the same, a failure leaves differences on
the pages it adds to `torn` only. With nobody holding the row the index is as the
committed rows are, or a delete has emptied a page whose row it holds and is about to
commit (`RestInv`), which is why deletes come with an invariant of their own
(`DeleteInv`); a new document's id has no chunks until then (`FreshInv`). All this
is said only as long as no delete has overlapped an ingest (`NoOverlap`), a condition no
step makes true again (`ApartStep`). For the titles it is the same with one more case,
whether an open ingest has already renamed the page (`TitleAt`), and the fact that the
row keeps the title the ingest loaded (`LoadedInv`), which is what fails when ingests
overlap.

`RetrievalProofs` proves, for any finite set of documents, any departments, chunks
and caps and any number of questions, from `RetrievalAssumption`:

- `TypeCorrect`: the type invariant, with at most `TopK` passages and no lookup
  past the cap;
- `Snapshot` and `NoDeleted`: `OneSnapshot` and `DeletedStaysOut`;
- `Completeness`: `CompleteBelowCap`.

That the snapshot is new enough needs that the token a question has read is at
least the one that was acknowledged when it came (`TokenInv`). That the passages
belong to one snapshot needs the chain from the lookup over the filter and the
verification to the passages (`SnapshotInv`); a new revision keeps the older ones
(`BecomesInv`), so the witness stays. Completeness needs that what the user could view
in every revision since the question came, and that stayed live, only shrinks
(`SteadyShrinks`), so that a lookup below the cap, and then the filter, had all of it
(`CompleteInv`).

`ChunkerProofs` proves all four properties of Chunker for any window, any overlap
below it and any page: `ChunksFit`, `NoTokenIsLost`, `ChunksKeepWords` and
`OverlapKeepsPassages`. That nothing is lost needs that the next window begins behind
the start of the last chunk and not behind its end, which is the second half of the
property itself. That passages stay whole needs that a window of a page without long
words is longer than its overlap after both edges were snapped.

`LookupPagingProofs` proves, for any finite set of documents, limit, page size and
number of results, that a lookup is bounded (`LookupIsBounded`) and implements
AtomicLookup (`PagingRefinesAtomic`). The invariant says that `documentIds` are
distinct and, below the limit, are the documents of the results read so far, so that a
lookup that ends below the limit has them all; and that all pages have the size of the
first, so that none is refused.

`PartsProofs` begins with induction over the natural numbers for a set (`Induction`),
from the library's theorem that `<` on them is well-founded and that a well-founded set
has a least element in every part. By it, `Selected` picks the entries that are in the set, each once and
in order (`SelectedFacts`), and what it picks is the start or the end of the sequence
where those are the entries in the set (`SelectedStart`, `SelectedEnd`).

Of the passages it proves, for any scores, floor, `TopK` and number of candidates, from
`PassagesAssumption`, the types (`PassagesTyped`), `BestAreKept` and `CitationsAreRead`
(`KeptAreBest` and `CitationsMatch`). The decisions so far are the entries of the ranking
that have an index, in its order, each with the status of its own place (`Decided`): this
is what a turn of the loop keeps, since the next entry scores no more than those before
it and is none of them. Because scores only fall, those that pass the floor come first,
so the kept ones are the first of all, as many as pass or as `TopK` allows
(`KeptOfRanking`). Without a usable index the decisions are the fallback, whichever of
its four ways led there (`StageInv`).

Of the throttle it proves, for any keys and numbers, from `LoginThrottleAssumption`,
`ThrottleTyped`, `WindowExact` and `FailuresAreBounded`. Attempts are dropped from the
left only, and at other times than they expire, so the proof needs that failures come
oldest first (`OldestFirst`) and that dropping some before time passes drops no other in
the end (`RecentThenOlder`). That a key is forgotten early only after `MaxKeys` others
failed needs that every key tracked behind it has failed since it was first tracked
(`NewerFailed`). The bound holds because a login comes into flight only below the limit,
and each failure that is counted takes one out.

Of the console it proves, for any users, sessions, seconds and number of changes, that
the chat (`ChatOfOne`) and the lists (`ListsOfOne`) on a screen are the user's own and
the lists a session fetched hold what it reported. Its invariant has two parts beside
the types. Only a session that is signed in waits for the API, with a token of its own
user and no list on its page, so that what arrives belongs to who is on the screen. And
a cached list belongs to the user of its token and holds what the session that fetched
it has been told is done: a session that reports a change has just cleared the cache,
and a list read before another session's clearing, and stored after it, was still read
after everything its own session was told.

`ServerProofs` proves, for any finite set of requests and any sizes of the pools, that
no pool and no slot is overdrawn (`LimitsHold`), that every question leaves one row
(`EveryQuestionIsLogged`) and that scores are not lost in silence
(`NoScoreLostInSilence`). A step that moves one request changes each count by at most
one, and upwards only where the pool had room. The row property needs that a question
has no row before it ends, through all the ways it can fail. The shutdown needs a fact
for each of its stages: no request runs once tasks are drained, tasks left after the
drain have been warned of, scores exist only while the client does, and so what is left
after the flush has been warned of too.

Liveness itself (`WritesEnd`, `LookupEnds`, `RequestsEnd`, `ShutdownEnds`) is only
model-checked, because the prover has neither fairness nor ENABLED in reach. What an
argument for it rests on is a safety property and is proved: that whoever waits waits
for somebody who can go on, and that everybody who goes on comes nearer to an end.

- `WritersNeverStuck`: some writer that has not ended can take a step that waits for
  nobody, and so can whoever holds the lock. It needs that the lock is held by exactly
  the writer inside the transaction (`LockInv`) and that the row that lost a writer its
  insert stays (`RelockInv`), or the second select would find nothing.
- `WritersProgress`: a writer's own steps take from a number of steps that no step of
  others adds to (`WorkLeft`).
- `LoopShrinks`: so does every call, result and end of a page of a lookup
  (`Remaining`). A full page moves the cursor on, so a last page that is full costs one
  empty page and no more.
- `RequestsNeverStuck` of Server: some request that has not ended can go on without a
  refusal or a timeout. Were none able to, none would be past its wait for the lock, so the
  checkpoint pool would be free, so all would wait for a first connection or for the one
  to log with; but these hold none (`ConnInv`), so the pool would be free as well.
- `RequestsProgress` of Server: a request's own steps take from the steps it has left
  (`StepsLeft`).
- `RequestsNeverStuck` and `RequestsProgress` of PermissionService: row locks and the
  checkpoint lock are taken in this order only, so whoever holds the second waits for
  nobody, and when nobody does the rows are free (`HoldInv`). A purge has two calls, and
  each of them takes from the steps left.
- `OnlyDeadlock`: ingests take the document row first and page rows at the end, deletes
  the other way round, so they can wait for each other; the circle `Crossed`, of one
  delete and one ingest, is the only one there is, and the one `Deadlocked` and
  `DropRemovedPagesFails` get out of. It needs who may hold which rows where
  (`HoldInv`): only deletes wait with page rows in hand, only ingests with the document
  row.
- `ShutdownAdvances`: a process told to stop takes its stages in order and no new
  request; when the store and the pools are closed nobody holds a connection.

What stays with TLC is to draw the conclusion: that every writer and request gets its
turn at the lock and the pools under the fairness of `Fairness` and `ServerFairness`.

## 7. Not modelled

LLM clients and passwords are stateless library calls, and of tokens only what makes two
of them the same is modelled; logging, settings but
the sizes of chunks, tracing spans and response schemas have no state that others
depend on; provisioning and reset scripts are one-off I/O. File parsing (`ui/file_parser.py`)
turns bytes into pages and keeps nothing. Of the permission service, `user_can_view`
and `list_document_access`, of the client `check_permission`, `read_relationships` and
`write_schema`, of the API the read endpoints: they read one store and change nothing.

Within the modelled components: a Qdrant call that is applied after its error was
reported; cancellation of a request between two awaits of the pipeline (it ends like
`CommitFails`, without `_record_failure`); the audit log; documents with different
owners in IngestionPipeline (ownership is PermissionService's). In LookupPaging a full page whose
last result has no cursor, after which the loop ends a page earlier. In Server a process
that is killed rather than stopped, clients that disconnect, and the second session of
the pipeline's `_record_failure`, which is opened after the first has rolled back. In Console a second
page of the same browser (a session of its own), the seconds themselves (any sign-in may
fall into any of `Seconds`, at any time), and what a page shows besides lists and chat.
