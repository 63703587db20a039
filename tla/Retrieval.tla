------------------------------- MODULE Retrieval -------------------------------
(***************************************************************************)
(* One user's questions (rag/retriever.py, rag/answerer.py) while the      *)
(* user's access and the documents change under them.                      *)
(*                                                                         *)
(* A question takes the checkpoint token, looks up the documents the user  *)
(* may view, drops those with no live row, searches Qdrant for chunks of   *)
(* the rest, verifies the hits, reranks them and shows the best to the     *)
(* model.  Between any two of these steps the other modules' requests may  *)
(* take effect.  Here they are the actions of a world that may do          *)
(* anything those requests can do to what a question reads: change the     *)
(* permission graph, commit a token (module Checkpoint), delete a document *)
(* or bring one back.  Chunks may come and go at any time, so the search   *)
(* may find any.                                                           *)
(***************************************************************************)
EXTENDS LookupContract, Sequences

CONSTANTS
  Departments, Documents,
  Chunks,         \* the chunks that may be in Qdrant, <<document, n>>
  Questions,
  InitialGraphs,  \* permission graphs at the start
  MaxPermitted,   \* max_permitted_documents
  Candidates,     \* retrieval_candidate_limit
  TopK,           \* retrieval_final_limit
  MaxRevisions    \* bound: revisions of the graph

-------------------------------------------------------------------------------
(* The part of the permission graph that concerns the user                 *)
(* (schema/permrag.zed): the departments it is a member or manager of, the *)
(* owner and shares of each document, and the documents granted to it.     *)

Graphs ==
  [member : SUBSET Departments,
   owner : [Documents -> SUBSET Departments],
   shared : [Documents -> SUBSET Departments],
   viewer : SUBSET Documents]

\* permission view = viewer + owner_department->membership
\*                          + shared_department->membership
View(g) ==
  {x \in Documents : x \in g.viewer \/ (g.owner[x] \union g.shared[x]) \intersect g.member # {}}

\* What one SpiceDB call of PermissionService makes of it.  A share or grant has
\* validated that the document has a live row (`known`); an ingest writes the owner
\* before its row is committed.
Changes(g, known) ==
  UNION {
    {[g EXCEPT !.member = @ \union {d}] : d \in Departments},
    {[g EXCEPT !.member = @ \ {d}] : d \in Departments},
    {[g EXCEPT !.owner[x] = {d}] : x \in Documents, d \in Departments},
    {[g EXCEPT !.shared[x] = @ \union {d}] : x \in known, d \in Departments},
    {[g EXCEPT !.shared[x] = @ \ {d}] : x \in Documents, d \in Departments},
    {[g EXCEPT !.viewer = @ \union {x}] : x \in known},
    {[g EXCEPT !.viewer = @ \ {x}] : x \in Documents},
    {[g EXCEPT !.member = {}], [g EXCEPT !.viewer = {}]}}

\* purge_document_relationships.
Purged(g, x) == [g EXCEPT !.owner[x] = {}, !.shared[x] = {}, !.viewer = @ \ {x}]

DocumentsOf(chunks) == {c[1] : c \in chunks}

ASSUME RetrievalAssumption ==
  /\ IsFiniteSet(Documents)
  /\ InitialGraphs \subseteq Graphs
  /\ \A c \in Chunks : c[1] \in Documents
  /\ {MaxPermitted, Candidates, TopK, MaxRevisions} \subseteq Nat \ {0}

-------------------------------------------------------------------------------
VARIABLES
  graph,      \* SpiceDB: the newest graph
  views,      \* views[i]: what the user may view in revision i
  token,      \* Postgres: the committed checkpoint token, 0 if there is none
  live,       \* Postgres: documents with a row that is not deleted
  purged,     \* documents whose deletion has purged their edges
  pc,         \* pc[q]: the step question q takes next
  pinned,     \* pinned[q]: the token it reads with
  looked,     \* looked[q]: the documents the lookup returned
  permitted,  \* permitted[q]: those of them with a live row
  truncated,  \* truncated[q]: whether the answer says that the cap was hit
  passages,   \* passages[q]: the chunks shown to the model
  due,        \* history: due[q] = the revision that was acknowledged when q came
  everLive,   \* history: documents that were live at some time since q came
  alwaysLive  \* history: documents that have been live ever since q came

world == <<graph, views, token, live, purged>>
history == <<due, everLive, alwaysLive>>
vars == <<world, pc, pinned, looked, permitted, truncated, passages, history>>

\* No edge leads to a document without a row.
Init ==
  /\ graph \in InitialGraphs
  /\ views = <<View(graph)>>
  /\ token \in {0, 1}
  /\ live \in {L \in SUBSET Documents : View(graph) \subseteq L}
  /\ purged = {}
  /\ pc = [q \in Questions |-> "ask"]
  /\ pinned = [q \in Questions |-> 0]
  /\ looked = [q \in Questions |-> {}]
  /\ permitted = [q \in Questions |-> {}]
  /\ truncated = [q \in Questions |-> FALSE]
  /\ passages = [q \in Questions |-> {}]
  /\ due = [q \in Questions |-> 1]
  /\ everLive = [q \in Questions |-> {}]
  /\ alwaysLive = [q \in Questions |-> {}]

-------------------------------------------------------------------------------
(* The world.                                                              *)

\* A SpiceDB write takes effect, late or in time.
Becomes(g) ==
  /\ Len(views) < MaxRevisions
  /\ graph' = g
  /\ views' = Append(views, View(g))

AccessChanges ==
  /\ \E g \in Changes(graph, live \union purged) : Becomes(g)
  /\ UNCHANGED <<token, live, purged, pc, pinned, looked, permitted, truncated, passages, history>>

\* delete_document purges the edges of a document.  A change that validated the
\* document before may still create an edge of it afterwards.
EdgesPurged(x) ==
  /\ Becomes(Purged(graph, x))
  /\ purged' = purged \union {x}
  /\ UNCHANGED <<token, live, pc, pinned, looked, permitted, truncated, passages, history>>

\* A permission change commits its token and is acknowledged; the token only grows
\* (TokenNeverMovesBack in module Checkpoint).
CheckpointCommits ==
  /\ \E revision \in token + 1 .. Len(views) : token' = revision
  /\ UNCHANGED <<graph, views, live, purged, pc, pinned, looked, permitted, truncated, passages,
                 history>>

\* delete_document commits.
RowDeleted(x) ==
  /\ x \in live \intersect purged
  /\ live' = live \ {x}
  /\ alwaysLive' = [q \in Questions |-> alwaysLive[q] \ {x}]
  /\ UNCHANGED <<graph, views, token, purged, pc, pinned, looked, permitted, truncated, passages,
                 due, everLive>>

\* An ingest of a new or deleted document commits.
RowIngested(x) ==
  /\ x \notin live
  /\ live' = live \union {x}
  /\ purged' = purged \ {x}
  /\ everLive' = [q \in Questions |-> everLive[q] \union {x}]
  /\ UNCHANGED <<graph, views, token, pc, pinned, looked, permitted, truncated, passages,
                 due, alwaysLive>>

-------------------------------------------------------------------------------
(* A question.                                                             *)

GoTo(q, label) == pc' = [pc EXCEPT ![q] = label]

Ask(q) ==
  /\ pc[q] = "ask"
  /\ GoTo(q, "token")
  /\ due' = [due EXCEPT ![q] = IF token = 0 THEN 1 ELSE token]
  /\ everLive' = [everLive EXCEPT ![q] = live]
  /\ alwaysLive' = [alwaysLive EXCEPT ![q] = live]
  /\ UNCHANGED <<world, pinned, looked, permitted, truncated, passages>>

\* get_checkpoint_token.
ReadToken(q) ==
  /\ pc[q] = "token"
  /\ GoTo(q, "lookup")
  /\ pinned' = [pinned EXCEPT ![q] = token]
  /\ UNCHANGED <<world, looked, permitted, truncated, passages, history>>

\* Mutant: minimize_latency instead of at_least_as_fresh.
RevisionsAtLowLatency(q) == 1 .. Len(views)

\* _consistency: at least as fresh as the token, or fully consistent without one.
Revisions(q) ==
  IF pinned[q] = 0 THEN {Len(views)} ELSE pinned[q] .. Len(views)

\* Mutant: one document less than the limit.
LookupsOffByOne(revision) ==
  {S \in SUBSET views[revision] :
     IF Cardinality(views[revision]) < MaxPermitted
     THEN S = views[revision]
     ELSE Cardinality(S) = MaxPermitted - 1}

\* lookup_viewable_documents, as module LookupPaging implements it.
Lookups(revision) == LookupResults(views[revision], MaxPermitted)

Lookup(q) ==
  /\ pc[q] = "lookup"
  /\ GoTo(q, "filter")
  /\ \E revision \in Revisions(q) : \E S \in Lookups(revision) :
       looked' = [looked EXCEPT ![q] = S]
  /\ UNCHANGED <<world, pinned, permitted, truncated, passages, history>>

\* Mutant: the live filter is skipped.
AllOf(q) == looked[q]

LiveOf(q) == looked[q] \intersect live

\* The live-document filter, the end of the transaction, and the cap, which is
\* compared with what the filter has left.
FilterLive(q) ==
  /\ pc[q] = "filter"
  /\ permitted' = [permitted EXCEPT ![q] = LiveOf(q)]
  /\ truncated' = [truncated EXCEPT ![q] = Cardinality(LiveOf(q)) >= MaxPermitted]
  /\ GoTo(q, IF LiveOf(q) = {} THEN "answered" ELSE "search")
  /\ UNCHANGED <<world, pinned, looked, passages, history>>

\* Mutant: hits of a search that ignored its filter reach the model.
Unverified(q, found) == found

\* The assertion on the way out of the search.
Verified(q, found) == {c \in found : c[1] \in permitted[q]}

\* Mutant: without a reranker every candidate is kept.
KeptWithoutLimit(found) == SUBSET found

\* rerank_all: the best TopK in the order of the encoder, less those below the
\* floor, or the first TopK of the search when it does not run.
Kept(found) == {S \in SUBSET found : Cardinality(S) <= TopK}

\* embed_query, search, the verification of its hits, rerank and generate_answer:
\* none of them reads what others change but the search, and without passages the
\* model is not asked.  `found` need not honour the filter: the code does not trust
\* it to.
Search(q) ==
  /\ pc[q] = "search"
  /\ GoTo(q, "answered")
  /\ \E found \in SUBSET Chunks :
       /\ Cardinality(found) <= Candidates
       /\ \E S \in Kept(Verified(q, found)) : passages' = [passages EXCEPT ![q] = S]
  /\ UNCHANGED <<world, pinned, looked, permitted, truncated, history>>

\* SpiceDB, Postgres, Qdrant or the model fails: no answer (_lookup fails closed).
Fail(q) ==
  /\ pc[q] \in {"token", "lookup", "filter", "search"}
  /\ GoTo(q, "failed")
  /\ UNCHANGED <<world, pinned, looked, permitted, truncated, passages, history>>

-------------------------------------------------------------------------------
\* The questions are over.
Terminated ==
  /\ \A q \in Questions : pc[q] \in {"answered", "failed"}
  /\ UNCHANGED vars

QuestionStep(q) ==
  Ask(q) \/ ReadToken(q) \/ Lookup(q) \/ FilterLive(q) \/ Search(q) \/ Fail(q)

Next ==
  \/ AccessChanges
  \/ CheckpointCommits
  \/ \E x \in Documents : EdgesPurged(x) \/ RowDeleted(x) \/ RowIngested(x)
  \/ \E q \in Questions : QuestionStep(q)
  \/ Terminated

Spec == Init /\ [][Next]_vars

-------------------------------------------------------------------------------
(* Properties.                                                             *)

PCs == {"ask", "token", "lookup", "filter", "search", "answered", "failed"}

\* The values the variables take; no more than TopK passages reach the model, and
\* the lookup returns no more than the cap.
TypeOK ==
  /\ graph \in Graphs
  /\ views \in Seq(SUBSET Documents)
  /\ token \in 0 .. Len(views)
  /\ live \in SUBSET Documents
  /\ purged \in SUBSET Documents
  /\ pc \in [Questions -> PCs]
  /\ pinned \in [Questions -> 0 .. Len(views)]
  /\ looked \in [Questions -> SUBSET Documents]
  /\ permitted \in [Questions -> SUBSET Documents]
  /\ truncated \in [Questions -> BOOLEAN]
  /\ passages \in [Questions -> SUBSET Chunks]
  /\ \A q \in Questions : Cardinality(passages[q]) <= TopK
  /\ \A q \in Questions : Cardinality(looked[q]) <= MaxPermitted
  /\ due \in [Questions -> 1 .. Len(views)]
  /\ everLive \in [Questions -> SUBSET Documents]
  /\ alwaysLive \in [Questions -> SUBSET Documents]

\* The user could view all documents of an answer at one moment, in a revision that
\* holds every change acknowledged before the question came: a revoked document is
\* never quoted, and access that was moved never counts twice, whatever the search
\* returns.
OneSnapshot ==
  \A q \in Questions :
    \E i \in due[q] .. Len(views) : DocumentsOf(passages[q]) \subseteq views[i]

\* A document deleted before the question came is not quoted, even where its edges
\* or its chunks were left behind.
DeletedStaysOut ==
  \A q \in Questions : DocumentsOf(passages[q]) \subseteq everLive[q]

\* What the user could view, and was live, all along since the question came.
Steady(q) ==
  {x \in alwaysLive[q] : \A i \in due[q] .. Len(views) : x \in views[i]}

\* Failing closed does not cost an answer that access allows: unless the lookup hit
\* the cap, every such document is searched.
CompleteBelowCap ==
  \A q \in Questions :
    pc[q] = "answered" /\ Cardinality(looked[q]) < MaxPermitted => Steady(q) \subseteq permitted[q]

\* "The filter would silently omit documents beyond the cap [...] Surface it"
\* (rag/retriever.py): an answer not marked truncated has searched every such
\* document.
TruncationIsFlagged ==
  \A q \in Questions :
    pc[q] = "answered" /\ ~truncated[q] => Steady(q) \subseteq permitted[q]
===============================================================================
