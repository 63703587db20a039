--------------------------- MODULE PermissionService ---------------------------
(***************************************************************************)
(* Every write of PermissionService (permissions/service.py) as the admin  *)
(* and document endpoints call it: the SpiceDB relationship graph, the     *)
(* Postgres mirror of it, and the requests that change both.               *)
(*                                                                         *)
(* A request follows the order of the class docstring: validate, stage the *)
(* mirror rows, write SpiceDB under the checkpoint lock, commit.  All its  *)
(* Postgres statements belong to one READ COMMITTED transaction, so that   *)
(* other requests see its rows when it commits and wait for the rows it    *)
(* has written meanwhile.  The checkpoint lock itself is module            *)
(* Checkpoint: here it makes the SpiceDB part of a request one step, or    *)
(* two for the purge of a user, with no other writer in between.           *)
(*                                                                         *)
(* A relationship is <<resource, relation, subject>>.  A mirror row is     *)
(* written as the relationship it shadows; its key is the pair <<resource, *)
(* subject>>, which the unique constraints of db/models.py make unique.    *)
(***************************************************************************)
EXTENDS Naturals, Sequences, FiniteSets

CONSTANTS
  Users, Departments, Documents,
  Requests,      \* one HTTP request each
  Offered,       \* the operations the requests are chosen from
  NoRequest

\* A relationship names the types of its resource and subject: no user is a
\* department, and no department a document.
ASSUME ServiceAssumption ==
  /\ NoRequest \notin Requests
  /\ Users \intersect Departments = {}
  /\ Departments \intersect Documents = {}

-------------------------------------------------------------------------------
(* Relationships (schema/permrag.zed, RelationshipTuple).                  *)

Roles == {"member", "manager"}
MembershipEdges == Departments \X Roles \X Users
ShareEdges == (Documents \X {"shared_department"} \X Departments)
                \union (Documents \X {"viewer"} \X Users)
OwnerEdges == Documents \X {"owner_department"} \X Departments

Edges == MembershipEdges \union ShareEdges \union OwnerEdges

Resource(e) == e[1]
Relation(e) == e[2]
Subject(e) == e[3]
Key(e) == <<Resource(e), Subject(e)>>

-------------------------------------------------------------------------------
(* What each operation does.  `active` and `live`: the users and documents *)
(* it validates.  `put`, `insert` and `drop`: the mirror rows it upserts   *)
(* (ON CONFLICT DO UPDATE), those it inserts unless they are there (ON     *)
(* CONFLICT DO NOTHING), and those it deletes if they are there.  `touch`  *)
(* and `remove`: the relationships its SpiceDB calls create and delete,    *)
(* `remove` having one set per call (deleting an absent relationship is no *)
(* error).  `document` and `user`: the document or user row it updates.    *)

Plan(kind) ==
  [kind |-> kind, active |-> {}, live |-> {}, put |-> {}, insert |-> {},
   drop |-> {}, touch |-> {}, remove |-> <<{}>>, document |-> {}, user |-> {},
   owner |-> {}, transfer |-> FALSE]

OtherRole(role) == IF role = "manager" THEN "member" ELSE "manager"

\* Mutant: promotion and demotion leave the old role behind.
AddUserKeepingOldRole(user, department, role) ==
  [Plan("add") EXCEPT
    !.active = {user},
    !.put = {<<department, role, user>>},
    !.touch = {<<department, role, user>>}]

AddUserToDepartment(user, department, role) ==
  [Plan("add") EXCEPT
    !.active = {user},
    !.put = {<<department, role, user>>},
    !.touch = {<<department, role, user>>},
    !.remove = <<{<<department, OtherRole(role), user>>}>>]

\* Mutant: only the member relation is removed, the manager keeps access.
RemoveMemberOnly(user, department) ==
  [Plan("remove") EXCEPT
    !.drop = {<<department, role, user>> : role \in Roles},
    !.remove = <<{<<department, "member", user>>}>>]

RemoveUserFromDepartment(user, department) ==
  [Plan("remove") EXCEPT
    !.drop = {<<department, role, user>> : role \in Roles},
    !.remove = <<{<<department, role, user>> : role \in Roles}>>]

ShareDocumentWithDepartment(document, department) ==
  [Plan("share") EXCEPT
    !.live = {document},
    !.insert = {<<document, "shared_department", department>>},
    !.touch = {<<document, "shared_department", department>>}]

UnshareDocumentWithDepartment(document, department) ==
  [Plan("unshare") EXCEPT
    !.drop = {<<document, "shared_department", department>>},
    !.remove = <<{<<document, "shared_department", department>>}>>]

GrantDocumentToUser(document, user) ==
  [Plan("grant") EXCEPT
    !.active = {user},
    !.live = {document},
    !.insert = {<<document, "viewer", user>>},
    !.touch = {<<document, "viewer", user>>}]

RevokeDocumentFromUser(document, user) ==
  [Plan("revoke") EXCEPT
    !.drop = {<<document, "viewer", user>>},
    !.remove = <<{<<document, "viewer", user>>}>>]

EdgesOf(user) == {e \in Edges : Subject(e) = user}

\* Mutant: the purge stops after the department edges.
DeactivateKeepingViewer(user) ==
  [Plan("deactivate") EXCEPT
    !.user = {user},
    !.drop = EdgesOf(user),
    !.remove = <<EdgesOf(user) \intersect MembershipEdges>>]

\* deactivate_user and purge_user_relationships: two deletes by filter.
DeactivateUser(user) ==
  [Plan("deactivate") EXCEPT
    !.user = {user},
    !.drop = EdgesOf(user),
    !.remove = <<EdgesOf(user) \intersect MembershipEdges,
                 EdgesOf(user) \intersect ShareEdges>>]

\* IngestionPipeline.delete_document and purge_document_relationships: one
\* delete by filter, of the owner's edge too.
DeleteDocument(document) ==
  [Plan("delete") EXCEPT
    !.document = {document},
    !.drop = {e \in ShareEdges : Resource(e) = document},
    !.remove = <<{e \in Edges : Resource(e) = document}>>]

\* IngestionPipeline.ingest of an existing document: its owner.  The edges it
\* removes are not known before the lock is held (OwnersToReplace).
IngestDocument(document, department, transfer) ==
  [Plan("ingest") EXCEPT
    !.document = {document},
    !.owner = {department},
    !.transfer = transfer,
    !.touch = {<<document, "owner_department", department>>}]

Operations ==
  UNION {
    {AddUserToDepartment(u, d, role) : u \in Users, d \in Departments, role \in Roles},
    {RemoveUserFromDepartment(u, d) : u \in Users, d \in Departments},
    {ShareDocumentWithDepartment(x, d) : x \in Documents, d \in Departments},
    {UnshareDocumentWithDepartment(x, d) : x \in Documents, d \in Departments},
    {GrantDocumentToUser(x, u) : x \in Documents, u \in Users},
    {RevokeDocumentFromUser(x, u) : x \in Documents, u \in Users},
    {DeactivateUser(u) : u \in Users},
    {DeleteDocument(x) : x \in Documents},
    {IngestDocument(x, d, transfer) : x \in Documents, d \in Departments, transfer \in BOOLEAN}}

ASSUME OfferedAssumption == Offered \subseteq Operations

-------------------------------------------------------------------------------
VARIABLES
  edges,     \* SpiceDB: the relationship graph
  late,      \* SpiceDB: writes whose deadline passed and that may yet be applied
  mirror,    \* Postgres: committed user_department and document_share rows
  active,    \* Postgres: users with is_active
  docs,      \* Postgres: docs[x] = [status, owner] of the document row
  op,        \* op[r]: what request r does
  pc,        \* pc[r]: where it is
  loaded,    \* loaded[r]: the document row as r's ORM session read it
  rows,      \* rows[r]: keys of the rows its open transaction has written
  call,      \* call[r]: the SpiceDB call it makes next
  holder,    \* the request between two SpiceDB calls under the checkpoint lock
  parted,    \* history: requests rolled back after SpiceDB took a write of theirs
  before,    \* history: before[r] = requests that had ended when r began
  kept       \* history: requests whose insert found its row there and did nothing

stores == <<edges, late, mirror, active, docs>>
vars == <<edges, late, mirror, active, docs, op, pc, loaded, rows, call, holder,
          parted, before, kept>>

Ended == {r \in Requests : pc[r] \in {"done", "refused", "failed"}}

\* The relationships the committed Postgres rows stand for.
Live == {x \in Documents : docs[x].status # "deleted"}
Mirrored == mirror \union {<<x, "owner_department", docs[x].owner>> : x \in Live}

\* An installation without drift: every row has its relationship.
Init ==
  /\ mirror \in SUBSET (MembershipEdges \union ShareEdges)
  /\ \A e, f \in mirror : Key(e) = Key(f) => e = f
  /\ active = Users
  /\ docs \in [Documents -> [status : {"indexed"}, owner : Departments]]
  /\ edges = Mirrored
  /\ late = {}
  /\ op \in [Requests -> Offered]
  /\ pc = [r \in Requests |-> "validate"]
  /\ loaded = [r \in Requests |-> docs]
  /\ rows = [r \in Requests |-> {}]
  /\ call = [r \in Requests |-> 1]
  /\ holder = NoRequest
  /\ parted = {}
  /\ before = [r \in Requests |-> {}]
  /\ kept = {}

-------------------------------------------------------------------------------
(* 1. Validate: reads of committed rows, which lock nothing.               *)

GoTo(r, label) == pc' = [pc EXCEPT ![r] = label]

\* _get_or_create_document: another department's document is not taken over
\* without transfer_ownership, unless it was deleted.
OwnershipConflict(r) ==
  \E x \in op[r].document, d \in op[r].owner :
    docs[x].status # "deleted" /\ docs[x].owner # d /\ ~op[r].transfer

\* _require_active_user, _require_live_document, and the select of the document
\* row that ingest and delete_document begin with.
Validate(r) ==
  /\ pc[r] = "validate"
  /\ IF op[r].active \subseteq active /\ op[r].live \subseteq Live /\ ~OwnershipConflict(r)
     THEN GoTo(r, "stage")
     ELSE GoTo(r, "refused")
  /\ loaded' = [loaded EXCEPT ![r] = IF op[r].document = {} THEN @ ELSE docs]
  /\ before' = [before EXCEPT ![r] = Ended]
  /\ UNCHANGED <<stores, op, rows, call, holder, parted, kept>>

-------------------------------------------------------------------------------
(* 2. Stage: the statements are flushed and hold their rows until the end  *)
(* of the transaction.                                                     *)

Locked(r) == UNION {rows[s] : s \in Requests \ {r}}

\* Mutant: the upsert is a plain insert that collides with nothing.
WrittenByDeletes(r) ==
  {Key(e) : e \in op[r].drop \intersect mirror} \union {<<x>> : x \in op[r].document}

\* The rows the statements write.  ON CONFLICT DO NOTHING neither writes nor locks a
\* committed row; DELETE writes the committed rows it finds; the ORM issues no UPDATE
\* for a document already loaded as deleted.
Written(r) ==
  {Key(e) : e \in op[r].put \union (op[r].insert \ mirror) \union (op[r].drop \intersect mirror)}
    \union {<<x>> : x \in {y \in op[r].document :
                           op[r].kind = "ingest" \/ loaded[r][y].status # "deleted"}}

\* The rows whose open transactions they wait for: an insert must know whether the row
\* of another is going to stay, if it is being deleted as well as if it is new.
WaitsFor(r) == Written(r) \union {Key(e) : e \in op[r].insert}

Stage(r) ==
  /\ pc[r] = "stage"
  /\ WaitsFor(r) \intersect Locked(r) = {}
  /\ rows' = [rows EXCEPT ![r] = Written(r)]
  /\ kept' = IF op[r].insert \intersect mirror = {} THEN kept ELSE kept \union {r}
  /\ GoTo(r, "write")
  /\ UNCHANGED <<stores, op, loaded, call, holder, parted, before>>

-------------------------------------------------------------------------------
(* 3. Write SpiceDB under the checkpoint lock.                             *)

HasLock(r) == pc[r] = "write" /\ holder \in {NoRequest, r}

\* Mutant: the owner to replace is taken from the row read at the start.
OwnersInLoadedRow(r) ==
  {e \in OwnerEdges : /\ Resource(e) \in op[r].document
                      /\ Subject(e) = loaded[r][Resource(e)].owner
                      /\ Subject(e) \notin op[r].owner}

\* set_document_owner: the owner edges read inside the lock, except the new one.
OwnersToReplace(r) ==
  {e \in edges \intersect OwnerEdges :
     Resource(e) \in op[r].document /\ Subject(e) \notin op[r].owner}

\* The next SpiceDB call of r, an atomic update.
Update(r) ==
  [touch |-> op[r].touch,
   remove |-> IF op[r].kind = "ingest" THEN OwnersToReplace(r) ELSE op[r].remove[call[r]]]

Applied(update) == (edges \ update.remove) \union update.touch

SpiceDBReturns(r) ==
  /\ HasLock(r)
  /\ edges' = Applied(Update(r))
  /\ call' = [call EXCEPT ![r] = @ + 1]
  /\ IF call[r] < Len(op[r].remove)
     THEN holder' = r /\ UNCHANGED pc
     ELSE holder' = NoRequest /\ GoTo(r, "commit")
  /\ UNCHANGED <<late, mirror, active, docs, op, loaded, rows, parted, before, kept>>

\* The error reaches the request's session: its rows are rolled back.  ingest
\* goes on to _record_failure.
Rollback(r) ==
  /\ rows' = [rows EXCEPT ![r] = {}]
  /\ GoTo(r, IF op[r].kind = "ingest" THEN "record" ELSE "failed")

\* Anything that fails before the call takes effect, in ingest any page, too.
SpiceDBRejects(r) ==
  /\ HasLock(r)
  /\ holder' = NoRequest
  /\ Rollback(r)
  /\ parted' = IF call[r] = 1 THEN parted ELSE parted \union {r}
  /\ UNCHANGED <<stores, op, loaded, call, before, kept>>

\* The call took effect and its answer or the checkpoint commit was lost, or the
\* call passed its deadline and SpiceDB still has it in its hands.
SpiceDBFails(r) ==
  /\ HasLock(r)
  /\ holder' = NoRequest
  /\ Rollback(r)
  /\ parted' = parted \union {r}
  /\ \/ edges' = Applied(Update(r)) /\ UNCHANGED late
     \/ late' = late \union {Update(r)} /\ UNCHANGED edges
  /\ UNCHANGED <<mirror, active, docs, op, loaded, call, before, kept>>

LateWriteApplies(update) ==
  /\ update \in late
  /\ edges' = Applied(update)
  /\ late' = late \ {update}
  /\ UNCHANGED <<mirror, active, docs, op, pc, loaded, rows, call, holder, parted, before, kept>>

-------------------------------------------------------------------------------
(* 4. The request's transaction ends (api/deps.py, get_db_session).        *)

\* The document row after the UPDATEs of r: a column whose loaded value is the one
\* assigned to it is not among them, whatever the committed row says by now.
DocumentAfter(r, x) ==
  [status |-> IF op[r].kind = "ingest" THEN "indexed" ELSE "deleted",
   owner |-> IF op[r].owner \subseteq {loaded[r][x].owner}
             THEN docs[x].owner
             ELSE CHOOSE d \in op[r].owner : TRUE]

\* The mirror rows r leaves when it commits: an insert that found its row adds nothing,
\* even if the row has been deleted since.
Put(r) == op[r].put \union {e \in op[r].insert : Key(e) \in rows[r]}

Commit(r) ==
  /\ pc[r] = "commit"
  /\ mirror' = {e \in mirror : Key(e) \notin rows[r]} \union Put(r)
  /\ active' = active \ op[r].user
  /\ docs' = [x \in Documents |-> IF <<x>> \in rows[r] THEN DocumentAfter(r, x) ELSE docs[x]]
  /\ rows' = [rows EXCEPT ![r] = {}]
  /\ GoTo(r, "done")
  /\ UNCHANGED <<edges, late, op, loaded, call, holder, parted, before, kept>>

\* Postgres goes away between the SpiceDB write and the commit.
CommitFails(r) ==
  /\ pc[r] = "commit"
  /\ rows' = [rows EXCEPT ![r] = {}]
  /\ GoTo(r, "failed")
  /\ parted' = parted \union {r}
  /\ UNCHANGED <<stores, op, loaded, call, holder, before, kept>>

\* _record_failure: a second session, after the request's lock on the row is gone.
RecordFailure(r) ==
  /\ pc[r] = "record"
  /\ {<<x>> : x \in op[r].document} \intersect Locked(r) = {}
  /\ docs' = [x \in Documents |->
                IF x \in op[r].document THEN [docs[x] EXCEPT !.status = "failed"] ELSE docs[x]]
  /\ GoTo(r, "failed")
  /\ UNCHANGED <<edges, late, mirror, active, op, loaded, rows, call, holder, parted, before, kept>>

-------------------------------------------------------------------------------
\* Every request is over; a late write may still arrive.
Terminated == Ended = Requests /\ UNCHANGED vars

RequestStep(r) ==
  \/ Validate(r) \/ Stage(r)
  \/ SpiceDBReturns(r) \/ SpiceDBRejects(r) \/ SpiceDBFails(r)
  \/ Commit(r) \/ CommitFails(r) \/ RecordFailure(r)

Next ==
  \/ \E r \in Requests : RequestStep(r)
  \/ \E update \in late : LateWriteApplies(update)
  \/ Terminated

Spec == Init /\ [][Next]_vars

-------------------------------------------------------------------------------
(* Properties.                                                             *)

Updates == [touch : SUBSET Edges, remove : SUBSET Edges]
PCs == {"validate", "stage", "write", "commit", "record", "done", "refused", "failed"}
DocRows == [Documents -> [status : {"indexed", "failed", "deleted"}, owner : Departments]]
RowKeys == {Key(e) : e \in Edges} \union {<<x>> : x \in Documents}

\* The values the variables take.  The mirror keeps the unique constraints of
\* user_department and document_share, and no two open transactions have written
\* the same row.
TypeOK ==
  /\ edges \subseteq Edges
  /\ late \subseteq Updates
  /\ mirror \subseteq MembershipEdges \union ShareEdges
  /\ \A e, f \in mirror : Key(e) = Key(f) => e = f
  /\ active \subseteq Users
  /\ docs \in DocRows
  /\ op \in [Requests -> Offered]
  /\ pc \in [Requests -> PCs]
  /\ loaded \in [Requests -> DocRows]
  /\ rows \in [Requests -> SUBSET RowKeys]
  /\ \A r, s \in Requests : r # s => rows[r] \intersect rows[s] = {}
  /\ call \in [Requests -> 1 .. 3]
  /\ holder \in Requests \union {NoRequest}
  /\ parted \subseteq Requests
  /\ before \in [Requests -> SUBSET Requests]
  /\ kept \subseteq Requests

\* "Exactly one relation remains": a user never holds member and manager of the
\* same department at once, not even while a promotion is lost or arrives late.
OneRolePerPair ==
  \A e, f \in edges \intersect MembershipEdges : Key(e) = Key(f) => e = f

\* The relationships a request may create or delete.
Concerns(r) ==
  op[r].touch
    \union (UNION {op[r].remove[i] : i \in DOMAIN op[r].remove})
    \union {e \in OwnerEdges : op[r].kind = "ingest" /\ Resource(e) \in op[r].document}

\* Concurrent owner changes never leave two owners behind, as long as no owner
\* change of the document was lost on its way to or from SpiceDB.
SingleOwner ==
  \A e, f \in edges \intersect OwnerEdges :
    Resource(e) = Resource(f) /\ (\A r \in parted : e \notin Concerns(r)) => e = f

\* A share or grant of e that found the row there and so holds no lock on it, and a
\* change that removes e, each begun before the other ended and each past its SpiceDB
\* calls: the row may be deleted first and the edge written last.
Raced(e) ==
  \E r \in kept : \E s \in Requests \ {r} :
    /\ e \in op[r].insert /\ \E i \in DOMAIN op[s].remove : e \in op[s].remove[i]
    /\ {pc[r], pc[s]} \subseteq {"commit", "done"}
    /\ r \notin before[s] /\ s \notin before[r]

\* The admin panel lists who has access: once the requests are over, a membership or
\* share that no failed request has touched has its mirror row, with the same role.
\* The one exception is a share or grant repeated while it is being revoked (Raced);
\* one that inserts its row, and every change of a membership, holds the row to the end.
EdgesAreListed ==
  Ended = Requests =>
    \A e \in edges \ OwnerEdges :
      (\A r \in parted : e \notin Concerns(r)) /\ ~Raced(e) => e \in mirror

\* r has succeeded, and whoever else was concerned with e had ended, both stores
\* in step, before r began.
LastWord(r, e) ==
  /\ pc[r] = "done"
  /\ e \in Concerns(r)
  /\ \A s \in Requests \ {r} :
       e \in Concerns(s) => s \in before[r] \ parted \/ pc[s] = "refused"

\* The last change wins, in SpiceDB and in Postgres: a revoke, a purge or a delete
\* that came after every grant leaves nothing, a grant that came after every
\* revoke is there.
LastChangeWins ==
  Ended = Requests =>
    \A r \in Requests : \A e \in Concerns(r) : LastWord(r, e) =>
      (e \in edges <=> e \in op[r].touch) /\ (e \in Mirrored <=> e \in op[r].touch)

\* "User deactivated and all access revoked" (api/routers/admin.py): once the
\* requests are over and none of them lost a write, a deactivated user holds no
\* relationship.
DeactivatedHoldsNothing ==
  Ended = Requests /\ parted = {} =>
    \A e \in edges : Subject(e) \in Users => Subject(e) \in active

\* "Every live document has exactly one owner edge, and it matches
\* document.owner_department_id" (scripts/check_permission_consistency.py): so it
\* is once the requests are over and none of them failed.
OwnerMatchesRow ==
  Ended = Requests /\ (\A r \in Requests : pc[r] # "failed") =>
    \A x \in Live :
      {e \in edges \intersect OwnerEdges : Resource(e) = x}
        = {<<x, "owner_department", docs[x].owner>>}
===============================================================================
