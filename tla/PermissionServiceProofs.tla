------------------------ MODULE PermissionServiceProofs ------------------------
(***************************************************************************)
(* PermissionService, proved for any users, departments and documents and  *)
(* any number of concurrent requests: type correctness (the mirror keeps   *)
(* its unique constraints), one role per user and department, one owner    *)
(* per document, no access that Postgres does not list, the last change    *)
(* wins in both stores, and requests never all wait for one another.       *)
(***************************************************************************)
EXTENDS PermissionService, TLAPS

\* No two of the edges are for the same user and department (or document and
\* subject): what a unique constraint asks of rows.
OnePerKey(E) == \A e, f \in E : Key(e) = Key(f) => e = f

\* An update that keeps one role per pair: it creates at most one role of a pair
\* and removes every other.
KeepsOneRole(update) ==
  \A e \in update.touch \intersect MembershipEdges :
    \A f \in MembershipEdges : Key(e) = Key(f) /\ e # f =>
      f \notin update.touch /\ f \in update.remove

\* What the proofs need to know of an operation.
WellFormed(o) ==
  /\ o.put \subseteq MembershipEdges \union ShareEdges
  /\ o.insert \subseteq ShareEdges
  /\ OnePerKey(o.put \union o.insert)
  /\ o.drop \subseteq MembershipEdges \union ShareEdges
  /\ o.document \subseteq Documents
  /\ o.owner \subseteq Departments
  /\ o.user \subseteq Users
  /\ o.touch \subseteq Edges
  /\ o.remove \in Seq(SUBSET Edges)
  /\ Len(o.remove) \in {1, 2}
  /\ \A i \in 1 .. Len(o.remove) : KeepsOneRole([touch |-> o.touch, remove |-> o.remove[i]])
  /\ IF o.kind = "ingest"
     THEN \E x \in Documents, d \in Departments :
            /\ o.document = {x}
            /\ o.touch = {<<x, "owner_department", d>>}
            /\ o.owner = {d}
     ELSE o.touch \intersect OwnerEdges = {}

-------------------------------------------------------------------------------
(* The relationships and the operations.                                   *)

\* The three parts of a relationship, and the relation of each class of them.
LEMMA EdgeParts ==
  /\ \A d, role, u : /\ Resource(<<d, role, u>>) = d
                     /\ Relation(<<d, role, u>>) = role
                     /\ Subject(<<d, role, u>>) = u
                     /\ Key(<<d, role, u>>) = <<d, u>>
  /\ \A e \in MembershipEdges : Relation(e) \in {"member", "manager"}
  /\ \A e \in ShareEdges : Relation(e) \in {"shared_department", "viewer"}
  /\ \A e \in OwnerEdges : Relation(e) = "owner_department"
  /\ \A e \in Edges : e = <<Resource(e), Relation(e), Subject(e)>>
  BY DEF Resource, Relation, Subject, Key, MembershipEdges, ShareEdges, OwnerEdges, Edges, Roles

\* Lists of one or two calls.
LEMMA CallLists ==
  ASSUME NEW A \in SUBSET Edges, NEW B \in SUBSET Edges
  PROVE  /\ <<A>> \in Seq(SUBSET Edges) /\ Len(<<A>>) = 1
         /\ <<A, B>> \in Seq(SUBSET Edges) /\ Len(<<A, B>>) = 2
  OBVIOUS

\* An operation that touches no membership keeps one role per pair.
LEMMA NoMembershipTouched ==
  ASSUME NEW touch, touch \intersect MembershipEdges = {}, NEW remove
  PROVE  KeepsOneRole([touch |-> touch, remove |-> remove])
  BY DEF KeepsOneRole

\* Adding a member creates one role of the pair and removes the other.
LEMMA AddIsWellFormed ==
  ASSUME NEW u \in Users, NEW d \in Departments, NEW role \in Roles
  PROVE  WellFormed(AddUserToDepartment(u, d, role))
<1> DEFINE o == AddUserToDepartment(u, d, role)
           e == <<d, role, u>>
           f == <<d, OtherRole(role), u>>
<1>1. /\ o.kind = "add" /\ o.put = {e} /\ o.insert = {} /\ o.drop = {} /\ o.touch = {e}
      /\ o.remove = <<{f}>> /\ o.document = {} /\ o.owner = {} /\ o.user = {}
  BY DEF AddUserToDepartment, Plan
<1>2. e \in MembershipEdges /\ f \in MembershipEdges
  BY DEF MembershipEdges, OtherRole, Roles
<1>3. KeepsOneRole([touch |-> {e}, remove |-> {f}])
  <2> SUFFICES ASSUME NEW g \in MembershipEdges, Key(e) = Key(g), e # g
               PROVE  g = f
    BY DEF KeepsOneRole
  <2> QED BY DEF MembershipEdges, Key, Resource, Subject, OtherRole, Roles
<1>4. {e} \intersect OwnerEdges = {}
  BY EdgeParts, <1>2
<1>5. OnePerKey(o.put \union o.insert)
  BY <1>1 DEF OnePerKey
<1> HIDE DEF o, e, f
<1>6. WellFormed(o)
  BY <1>1, <1>2, <1>3, <1>4, <1>5 DEF WellFormed, Edges
<1> QED
  BY <1>6 DEF o

\* Sharing, unsharing, granting and revoking are about one relationship, which is
\* neither a membership nor an owner's.
LEMMA ShareIsWellFormed ==
  ASSUME NEW e \in ShareEdges, NEW o,
         o.kind # "ingest", o.put = {}, o.insert \in {{}, {e}}, o.drop \in {{}, {e}}, o.touch \in {{}, {e}},
         o.remove \in {<<{}>>, <<{e}>>}, o.document = {}, o.owner = {}, o.user = {}
  PROVE  WellFormed(o)
<1>1. e \in Edges /\ e \notin MembershipEdges /\ e \notin OwnerEdges
  BY EdgeParts DEF Edges
<1>2. \A remove : KeepsOneRole([touch |-> o.touch, remove |-> remove])
  BY <1>1, NoMembershipTouched
<1>3. {} \in SUBSET Edges /\ {e} \in SUBSET Edges
  BY <1>1
<1>4. o.remove \in Seq(SUBSET Edges) /\ Len(o.remove) = 1
  <2>1. CASE o.remove = <<{}>>
    BY <2>1, <1>3, CallLists
  <2>2. CASE o.remove = <<{e}>>
    BY <2>2, <1>3, CallLists
  <2> QED BY <2>1, <2>2
<1>5. o.touch \subseteq Edges /\ o.touch \intersect OwnerEdges = {}
  BY <1>1
<1> QED
  BY <1>2, <1>4, <1>5 DEF WellFormed, OnePerKey

\* Removing a member, deactivating a user and deleting a document only remove.
LEMMA PurgeIsWellFormed ==
  ASSUME NEW o,
         o.kind # "ingest", o.put = {}, o.insert = {}, o.touch = {}, o.owner = {},
         o.drop \subseteq MembershipEdges \union ShareEdges,
         o.document \subseteq Documents, o.user \subseteq Users,
         NEW first \in SUBSET Edges, NEW second \in SUBSET Edges,
         o.remove \in {<<first>>, <<first, second>>}
  PROVE  WellFormed(o)
<1>1. \A remove : KeepsOneRole([touch |-> o.touch, remove |-> remove])
  BY NoMembershipTouched
<1>2. o.remove \in Seq(SUBSET Edges) /\ Len(o.remove) \in {1, 2}
  <2>1. CASE o.remove = <<first>>
    BY <2>1, CallLists
  <2>2. CASE o.remove = <<first, second>>
    BY <2>2, CallLists
  <2> QED BY <2>1, <2>2
<1> QED
  BY <1>1, <1>2 DEF WellFormed, OnePerKey

\* An ingest touches the owner's relationship only.
LEMMA IngestIsWellFormed ==
  ASSUME NEW x \in Documents, NEW d \in Departments, NEW transfer \in BOOLEAN
  PROVE  WellFormed(IngestDocument(x, d, transfer))
<1> DEFINE o == IngestDocument(x, d, transfer)
           e == <<x, "owner_department", d>>
<1>1. /\ o.kind = "ingest" /\ o.put = {} /\ o.insert = {} /\ o.drop = {} /\ o.touch = {e}
      /\ o.remove = <<{}>> /\ o.document = {x} /\ o.owner = {d} /\ o.user = {}
  BY DEF IngestDocument, Plan
<1>2. e \in OwnerEdges
  BY DEF OwnerEdges
<1>3. \A remove : KeepsOneRole([touch |-> o.touch, remove |-> remove])
  <2>1. o.touch \intersect MembershipEdges = {}
    BY <1>1, <1>2, EdgeParts
  <2> QED
    BY <2>1, NoMembershipTouched
<1>4. o.remove \in Seq(SUBSET Edges) /\ Len(o.remove) = 1
  BY <1>1, CallLists
<1>5. e \in Edges /\ OnePerKey(o.put \union o.insert)
  BY <1>1, <1>2 DEF OnePerKey, Edges
<1> HIDE DEF o, e
<1>6. \E y \in Documents, c \in Departments :
        o.document = {y} /\ o.touch = {<<y, "owner_department", c>>} /\ o.owner = {c}
  BY <1>1 DEF e
<1>7. WellFormed(o)
  BY <1>1, <1>3, <1>4, <1>5, <1>6 DEF WellFormed
<1> QED
  BY <1>7 DEF o

\* Every operation of the service is well formed.
LEMMA OperationsWellFormed == \A o \in Operations : WellFormed(o)
<1> SUFFICES ASSUME NEW o \in Operations PROVE WellFormed(o)
  OBVIOUS
<1>1. ASSUME NEW x \in Documents, NEW d \in Departments
      PROVE  /\ WellFormed(ShareDocumentWithDepartment(x, d))
             /\ WellFormed(UnshareDocumentWithDepartment(x, d))
  <2>1. <<x, "shared_department", d>> \in ShareEdges
    BY DEF ShareEdges
  <2> QED
    BY <2>1, ShareIsWellFormed
    DEF ShareDocumentWithDepartment, UnshareDocumentWithDepartment, Plan
<1>2. ASSUME NEW x \in Documents, NEW u \in Users
      PROVE  /\ WellFormed(GrantDocumentToUser(x, u))
             /\ WellFormed(RevokeDocumentFromUser(x, u))
  <2>1. <<x, "viewer", u>> \in ShareEdges
    BY DEF ShareEdges
  <2> QED
    BY <2>1, ShareIsWellFormed DEF GrantDocumentToUser, RevokeDocumentFromUser, Plan
<1>3. ASSUME NEW u \in Users
      PROVE  WellFormed(DeactivateUser(u))
  <2>1. EdgesOf(u) \subseteq MembershipEdges \union ShareEdges
    BY ServiceAssumption, EdgeParts DEF EdgesOf, Edges, OwnerEdges, Subject
  <2> DEFINE plan == DeactivateUser(u)
             first == EdgesOf(u) \intersect MembershipEdges
             second == EdgesOf(u) \intersect ShareEdges
  <2>2. /\ plan.kind = "deactivate" /\ plan.put = {} /\ plan.insert = {} /\ plan.touch = {} /\ plan.owner = {}
        /\ plan.drop = EdgesOf(u) /\ plan.document = {} /\ plan.user = {u}
        /\ plan.remove = <<first, second>>
    BY DEF DeactivateUser, Plan
  <2>3. first \in SUBSET Edges /\ second \in SUBSET Edges
    BY DEF Edges
  <2> HIDE DEF plan, first, second
  <2>4. WellFormed(plan)
    BY <2>1, <2>2, <2>3, PurgeIsWellFormed
  <2> QED
    BY <2>4 DEF plan
<1>4. ASSUME NEW x \in Documents
      PROVE  WellFormed(DeleteDocument(x))
  <2> DEFINE plan == DeleteDocument(x)
             first == {e \in Edges : Resource(e) = x}
  <2>1. /\ plan.kind = "delete" /\ plan.put = {} /\ plan.insert = {} /\ plan.touch = {} /\ plan.owner = {}
        /\ plan.drop \subseteq ShareEdges /\ plan.document = {x} /\ plan.user = {}
        /\ plan.remove = <<first>>
    BY DEF DeleteDocument, Plan
  <2>2. first \in SUBSET Edges
    OBVIOUS
  <2> HIDE DEF plan, first
  <2>3. WellFormed(plan)
    BY <2>1, <2>2, PurgeIsWellFormed
  <2> QED
    BY <2>3 DEF plan
<1>5. ASSUME NEW u \in Users, NEW d \in Departments
      PROVE  WellFormed(RemoveUserFromDepartment(u, d))
  <2> DEFINE plan == RemoveUserFromDepartment(u, d)
             E == {<<d, role, u>> : role \in Roles}
  <2>1. /\ plan.kind = "remove" /\ plan.put = {} /\ plan.insert = {} /\ plan.drop = E /\ plan.touch = {}
        /\ plan.remove = <<E>> /\ plan.document = {} /\ plan.owner = {} /\ plan.user = {}
    BY DEF RemoveUserFromDepartment, Plan
  <2>2. E \subseteq MembershipEdges /\ E \in SUBSET Edges
    BY DEF MembershipEdges, Edges
  <2> HIDE DEF plan, E
  <2>3. WellFormed(plan)
    BY <2>1, <2>2, PurgeIsWellFormed
  <2> QED
    BY <2>3 DEF plan
<1> QED
  BY <1>1, <1>2, <1>3, <1>4, <1>5, AddIsWellFormed, IngestIsWellFormed DEF Operations

-------------------------------------------------------------------------------
(* The inductive invariant.                                                *)

\* Where a request is, and what that says of its calls and of its rows: the rows
\* it is going to upsert are among those it holds.
PlanInv ==
  \A r \in Requests :
    /\ pc[r] \in {"validate", "stage"} => call[r] = 1
    /\ pc[r] = "write" => call[r] \in 1 .. Len(op[r].remove)
    /\ pc[r] \in {"write", "commit"} => {Key(e) : e \in op[r].put} \subseteq rows[r]

\* A write that may still arrive keeps one role per pair.
LateRoleInv == \A update \in late : KeepsOneRole(update)

\* A write that may still arrive and creates an owner comes from a failed ingest of
\* that document.
LateOwnerInv ==
  \A update \in late : \A e \in update.touch \intersect OwnerEdges :
    \E r \in parted : op[r].kind = "ingest" /\ Resource(e) \in op[r].document

Inv ==
  /\ TypeOK
  /\ PlanInv
  /\ LateRoleInv
  /\ OneRolePerPair
  /\ LateOwnerInv
  /\ SingleOwner

\* So is every operation a request was given.
LEMMA OpWellFormed ==
  ASSUME TypeOK, NEW r \in Requests
  PROVE  WellFormed(op[r])
  BY OfferedAssumption, OperationsWellFormed DEF TypeOK

\* The call a request makes is an update of the graph, and keeps one role per pair.
LEMMA UpdateFacts ==
  ASSUME TypeOK, PlanInv, NEW r \in Requests, HasLock(r)
  PROVE  /\ Update(r) \in Updates
         /\ Update(r).touch = op[r].touch
         /\ KeepsOneRole(Update(r))
<1>1. WellFormed(op[r]) /\ call[r] \in 1 .. Len(op[r].remove)
  BY OpWellFormed DEF PlanInv, HasLock
<1>2. Update(r).touch = op[r].touch /\ op[r].touch \in SUBSET Edges
  BY <1>1 DEF Update, WellFormed
<1>3. CASE op[r].kind = "ingest"
  <2>1. Update(r) = [touch |-> op[r].touch, remove |-> OwnersToReplace(r)]
    BY <1>3 DEF Update
  <2>2. OwnersToReplace(r) \in SUBSET Edges
    BY DEF OwnersToReplace, Edges
  <2>3. op[r].touch \intersect MembershipEdges = {}
    <3>1. PICK x \in Documents, d \in Departments : op[r].touch = {<<x, "owner_department", d>>}
      BY <1>1, <1>3 DEF WellFormed
    <3>2. <<x, "owner_department", d>> \in OwnerEdges
      BY DEF OwnerEdges
    <3> QED
      BY <3>1, <3>2, EdgeParts
  <2> QED
    BY <1>2, <2>1, <2>2, <2>3, NoMembershipTouched DEF Updates
<1>4. CASE op[r].kind # "ingest"
  <2>1. Update(r) = [touch |-> op[r].touch, remove |-> op[r].remove[call[r]]]
    BY <1>4 DEF Update
  <2>2. op[r].remove[call[r]] \in SUBSET Edges
    BY <1>1 DEF WellFormed
  <2>3. KeepsOneRole([touch |-> op[r].touch, remove |-> op[r].remove[call[r]]])
    BY <1>1 DEF WellFormed
  <2> QED
    BY <1>2, <2>1, <2>2, <2>3 DEF Updates
<1> QED
  BY <1>3, <1>4

-------------------------------------------------------------------------------
(* Types.                                                                  *)

\* An installation without drift has the right types.
LEMMA InitTypes == Init => TypeOK /\ PlanInv
<1> SUFFICES ASSUME Init PROVE TypeOK /\ PlanInv
  OBVIOUS
<1>1. docs \in DocRows
  BY DEF Init, DocRows
<1>2. edges \subseteq Edges
  <2>1. \A x \in Live : <<x, "owner_department", docs[x].owner>> \in OwnerEdges
    BY DEF Init, Live, OwnerEdges
  <2> QED
    BY <2>1 DEF Init, Mirrored, Edges
<1> QED
  BY <1>1, <1>2 DEF Init, TypeOK, PlanInv, PCs

\* The rows a request writes.
LEMMA WrittenTypes ==
  ASSUME TypeOK, NEW r \in Requests
  PROVE  /\ Written(r) \in SUBSET RowKeys
         /\ {Key(e) : e \in op[r].put} \subseteq Written(r)
<1>1. WellFormed(op[r])
  BY OpWellFormed
<1>2. /\ op[r].put \subseteq Edges /\ op[r].insert \subseteq Edges /\ op[r].drop \subseteq Edges
      /\ op[r].document \subseteq Documents
  BY <1>1 DEF WellFormed, Edges
<1>3. {Key(e) : e \in op[r].put \union (op[r].insert \ mirror) \union (op[r].drop \intersect mirror)}
        \subseteq RowKeys
  BY <1>2 DEF RowKeys
<1>4. \A y \in op[r].document : <<y>> \in RowKeys
  BY <1>2 DEF RowKeys
<1> QED
  BY <1>3, <1>4 DEF Written

\* The mirror keeps its unique constraint when a transaction that holds the rows
\* it upserts commits.
LEMMA CommitTypes ==
  ASSUME TypeOK, PlanInv, NEW r \in Requests, Commit(r)
  PROVE  /\ mirror' \subseteq MembershipEdges \union ShareEdges
         /\ \A e, f \in mirror' : Key(e) = Key(f) => e = f
         /\ docs' \in DocRows
<1>1. WellFormed(op[r]) /\ {Key(e) : e \in Put(r)} \subseteq rows[r]
  BY OpWellFormed DEF PlanInv, Commit, Put
<1>2. mirror' = {e \in mirror : Key(e) \notin rows[r]} \union Put(r)
  BY DEF Commit
<1>3. mirror' \subseteq MembershipEdges \union ShareEdges
  BY <1>1, <1>2 DEF TypeOK, WellFormed, Put
<1>4. ASSUME NEW e \in mirror', NEW f \in mirror', Key(e) = Key(f)
      PROVE  e = f
  <2>1. CASE e \in Put(r) /\ f \in Put(r)
    BY <2>1, <1>1, <1>4 DEF WellFormed, OnePerKey, Put
  <2>2. CASE e \notin Put(r) /\ f \notin Put(r)
    BY <2>2, <1>2, <1>4 DEF TypeOK
  <2>3. e \in Put(r) => Key(e) \in rows[r]
    BY <1>1
  <2>4. f \in Put(r) => Key(f) \in rows[r]
    BY <1>1
  <2> QED
    BY <2>1, <2>2, <2>3, <2>4, <1>2, <1>4
<1>5. ASSUME NEW x \in Documents
      PROVE  DocumentAfter(r, x) \in [status : {"indexed", "failed", "deleted"}, owner : Departments]
  <2>1. docs[x].owner \in Departments
    BY DEF TypeOK, DocRows
  <2>2. ~(op[r].owner \subseteq {loaded[r][x].owner}) => (CHOOSE d \in op[r].owner : TRUE) \in Departments
    BY <1>1 DEF WellFormed
  <2> QED
    BY <2>1, <2>2 DEF DocumentAfter
<1>6. docs' \in DocRows
  BY <1>5 DEF Commit, TypeOK, DocRows
<1> QED
  BY <1>3, <1>4, <1>6

\* Every step keeps the types and what is said of the requests' rows and calls.
LEMMA TypesStep == TypeOK /\ PlanInv /\ [Next]_vars => TypeOK' /\ PlanInv'
<1> SUFFICES ASSUME TypeOK, PlanInv, [Next]_vars
             PROVE  TypeOK' /\ PlanInv'
  OBVIOUS
<1>1. ASSUME NEW r \in Requests, Validate(r)
      PROVE  TypeOK' /\ PlanInv'
  <2>1. before' \in [Requests -> SUBSET Requests] /\ loaded' \in [Requests -> DocRows]
    BY <1>1 DEF TypeOK, Validate, Ended
  <2>2. pc' \in [Requests -> PCs]
    BY <1>1 DEF TypeOK, Validate, GoTo, PCs
  <2> QED
    BY <1>1, <2>1, <2>2 DEF TypeOK, PlanInv, Validate, GoTo, stores
<1>2. ASSUME NEW r \in Requests, Stage(r)
      PROVE  TypeOK' /\ PlanInv'
  <2>1. Written(r) \in SUBSET RowKeys /\ {Key(e) : e \in op[r].put} \subseteq Written(r)
    BY WrittenTypes
  <2>2. \A s \in Requests \ {r} : Written(r) \intersect rows[s] = {}
    BY <1>2 DEF Stage, Locked, WaitsFor
  <2>3. \A s, t \in Requests : s # t => rows'[s] \intersect rows'[t] = {}
    BY <1>2, <2>2 DEF TypeOK, Stage
  <2>4. pc' \in [Requests -> PCs] /\ rows' \in [Requests -> SUBSET RowKeys]
    BY <1>2, <2>1 DEF TypeOK, Stage, GoTo, PCs
  <2>5. TypeOK'
    BY <1>2, <2>3, <2>4 DEF TypeOK, Stage, stores
  <2>6. Len(op[r].remove) \in {1, 2} /\ call[r] = 1
    BY <1>2, OpWellFormed DEF WellFormed, PlanInv, Stage
  <2>7. PlanInv'
    BY <1>2, <2>1, <2>6 DEF TypeOK, PlanInv, Stage, GoTo
  <2> QED BY <2>5, <2>7
<1>3. ASSUME NEW r \in Requests, SpiceDBReturns(r)
      PROVE  TypeOK' /\ PlanInv'
  <2>1. /\ Update(r) \in Updates
        /\ call[r] \in 1 .. Len(op[r].remove) /\ Len(op[r].remove) \in {1, 2}
    BY <1>3, UpdateFacts, OpWellFormed DEF SpiceDBReturns, HasLock, PlanInv, WellFormed
  <2>2. edges' \subseteq Edges
    BY <1>3, <2>1 DEF SpiceDBReturns, Applied, Updates, TypeOK
  <2>3. call' \in [Requests -> 1 .. 3]
    <3>1. call[r] \in 1 .. 3 /\ call[r] + 1 \in 1 .. 3
      <4>1. \A n \in {1, 2} : \A c \in 1 .. n : c \in 1 .. 3 /\ c + 1 \in 1 .. 3
        OBVIOUS
      <4> QED
        BY <2>1, <4>1
    <3>2. call' = [call EXCEPT ![r] = @ + 1] /\ call \in [Requests -> 1 .. 3]
      BY <1>3 DEF SpiceDBReturns, TypeOK
    <3> QED
      BY <3>1, <3>2
  <2>4. pc' \in [Requests -> PCs] /\ holder' \in Requests \union {NoRequest}
    BY <1>3 DEF SpiceDBReturns, GoTo, TypeOK, PCs
  <2>5. TypeOK'
    BY <1>3, <2>2, <2>3, <2>4 DEF TypeOK, SpiceDBReturns, stores
  <2>6. PlanInv'
    BY <1>3, <2>1 DEF TypeOK, PlanInv, SpiceDBReturns, GoTo, HasLock
  <2> QED BY <2>5, <2>6
<1>4. ASSUME NEW r \in Requests, Rollback(r), UNCHANGED <<op, call>>
      PROVE  /\ rows' \in [Requests -> SUBSET RowKeys]
             /\ \A s, t \in Requests : s # t => rows'[s] \intersect rows'[t] = {}
             /\ pc' \in [Requests -> PCs]
             /\ PlanInv'
  <2>1. /\ rows' \in [Requests -> SUBSET RowKeys]
        /\ \A s, t \in Requests : s # t => rows'[s] \intersect rows'[t] = {}
    BY <1>4 DEF Rollback, TypeOK
  <2>2. pc' \in [Requests -> PCs]
    BY <1>4 DEF Rollback, TypeOK, GoTo, PCs
  <2>3. PlanInv'
    BY <1>4 DEF Rollback, TypeOK, GoTo, PlanInv
  <2> QED BY <2>1, <2>2, <2>3
<1>5. ASSUME NEW r \in Requests, SpiceDBRejects(r)
      PROVE  TypeOK' /\ PlanInv'
  BY <1>4, <1>5 DEF TypeOK, SpiceDBRejects, stores
<1>6. ASSUME NEW r \in Requests, SpiceDBFails(r)
      PROVE  TypeOK' /\ PlanInv'
  <2>1. Update(r) \in Updates
    BY <1>6, UpdateFacts DEF SpiceDBFails
  <2>2. edges' \subseteq Edges /\ late' \subseteq Updates
    BY <1>6, <2>1 DEF SpiceDBFails, Applied, Updates, TypeOK
  <2> QED
    BY <1>4, <1>6, <2>2 DEF TypeOK, SpiceDBFails, stores
<1>7. ASSUME NEW update \in late, LateWriteApplies(update)
      PROVE  TypeOK' /\ PlanInv'
  <2>1. edges' \subseteq Edges
    BY <1>7 DEF LateWriteApplies, Applied, Updates, TypeOK
  <2> QED
    BY <1>7, <2>1 DEF TypeOK, PlanInv, LateWriteApplies, stores
<1>8. ASSUME NEW r \in Requests, Commit(r)
      PROVE  TypeOK' /\ PlanInv'
  <2>1. /\ rows' \in [Requests -> SUBSET RowKeys]
        /\ \A s, t \in Requests : s # t => rows'[s] \intersect rows'[t] = {}
    BY <1>8 DEF Commit, TypeOK
  <2>2. pc' \in [Requests -> PCs]
    BY <1>8 DEF Commit, TypeOK, GoTo, PCs
  <2>3. active' \subseteq Users
    BY <1>8 DEF Commit, TypeOK
  <2>4. TypeOK'
    BY <1>8, <2>1, <2>2, <2>3, CommitTypes DEF TypeOK, Commit
  <2>5. PlanInv'
    BY <1>8 DEF Commit, TypeOK, GoTo, PlanInv
  <2> QED BY <2>4, <2>5
<1>9. ASSUME NEW r \in Requests, CommitFails(r)
      PROVE  TypeOK' /\ PlanInv'
  <2>1. /\ rows' \in [Requests -> SUBSET RowKeys]
        /\ \A s, t \in Requests : s # t => rows'[s] \intersect rows'[t] = {}
    BY <1>9 DEF CommitFails, TypeOK
  <2>2. pc' \in [Requests -> PCs]
    BY <1>9 DEF CommitFails, TypeOK, GoTo, PCs
  <2>3. PlanInv'
    BY <1>9 DEF CommitFails, TypeOK, GoTo, PlanInv
  <2> QED
    BY <1>9, <2>1, <2>2, <2>3 DEF TypeOK, CommitFails, stores
<1>10. ASSUME NEW r \in Requests, RecordFailure(r)
       PROVE  TypeOK' /\ PlanInv'
  <2>1. docs' \in DocRows
    <3>1. ASSUME NEW x \in Documents
          PROVE  [docs[x] EXCEPT !.status = "failed"]
                   \in [status : {"indexed", "failed", "deleted"}, owner : Departments]
      <4>1. docs[x] \in [status : {"indexed", "failed", "deleted"}, owner : Departments]
        BY DEF TypeOK, DocRows
      <4> QED
        BY <4>1
    <3> QED
      BY <1>10, <3>1 DEF RecordFailure, TypeOK, DocRows
  <2>2. pc' \in [Requests -> PCs]
    BY <1>10 DEF RecordFailure, TypeOK, GoTo, PCs
  <2>3. PlanInv'
    BY <1>10 DEF RecordFailure, TypeOK, GoTo, PlanInv
  <2> QED
    BY <1>10, <2>1, <2>2, <2>3 DEF TypeOK, RecordFailure
<1>11. CASE UNCHANGED vars
  BY <1>11 DEF vars, stores, TypeOK, PlanInv
<1> QED
  BY <1>1, <1>2, <1>3, <1>5, <1>6, <1>7, <1>8, <1>9, <1>10, <1>11
  DEF Next, RequestStep, Terminated

-------------------------------------------------------------------------------
(* One role per user and department.                                       *)

\* Nothing else creates relationships: a step leaves the graph alone, or applies the
\* call of a request or a write that is late.
LEMMA EdgesStep ==
  ASSUME [Next]_vars
  PROVE  \/ UNCHANGED edges
         \/ \E r \in Requests : HasLock(r) /\ edges' = Applied(Update(r))
         \/ \E update \in late : edges' = Applied(update)
  BY DEF Next, RequestStep, Terminated, vars, stores, Validate, Stage, SpiceDBReturns,
         SpiceDBRejects, SpiceDBFails, LateWriteApplies, Commit, CommitFails, RecordFailure

\* What may still arrive is what might already, or the call a failing request made.
LEMMA LateStep ==
  ASSUME [Next]_vars
  PROVE  \/ late' \subseteq late
         \/ \E r \in Requests : /\ HasLock(r)
                                /\ late' = late \union {Update(r)}
                                /\ r \in parted'
  BY DEF Next, RequestStep, Terminated, vars, stores, Validate, Stage, SpiceDBReturns,
         SpiceDBRejects, SpiceDBFails, LateWriteApplies, Commit, CommitFails, RecordFailure

\* An update that keeps one role per pair leaves one role per pair.
LEMMA AppliedKeepsOneRole ==
  ASSUME OneRolePerPair, NEW update, KeepsOneRole(update), edges' = Applied(update)
  PROVE  OneRolePerPair'
<1> SUFFICES ASSUME NEW e \in Applied(update) \intersect MembershipEdges,
                    NEW f \in Applied(update) \intersect MembershipEdges,
                    Key(e) = Key(f), e # f
             PROVE  FALSE
  BY DEF OneRolePerPair
<1>1. e \notin update.touch
  BY DEF KeepsOneRole, Applied
<1>2. f \notin update.touch
  BY DEF KeepsOneRole, Applied
<1> QED
  BY <1>1, <1>2 DEF Applied, OneRolePerPair

\* Every step keeps one role per pair, in the graph and in the writes yet to arrive.
LEMMA RoleStep ==
  ASSUME TypeOK, PlanInv, LateRoleInv, OneRolePerPair, [Next]_vars
  PROVE  LateRoleInv' /\ OneRolePerPair'
<1>1. \A r \in Requests : HasLock(r) => KeepsOneRole(Update(r))
  BY UpdateFacts
<1>2. LateRoleInv'
  BY <1>1, LateStep DEF LateRoleInv
<1>3. CASE UNCHANGED edges
  BY <1>2, <1>3 DEF OneRolePerPair
<1>4. CASE \E r \in Requests : HasLock(r) /\ edges' = Applied(Update(r))
  BY <1>1, <1>2, <1>4, AppliedKeepsOneRole
<1>5. CASE \E update \in late : edges' = Applied(update)
  BY <1>2, <1>5, AppliedKeepsOneRole DEF LateRoleInv
<1> QED
  BY <1>3, <1>4, <1>5, EdgesStep

-------------------------------------------------------------------------------
(* One owner per document.                                                 *)

\* What an ingest or any other request does to the owners.
LEMMA OwnerUpdate ==
  ASSUME TypeOK, PlanInv, NEW r \in Requests, HasLock(r)
  PROVE  \/ Update(r).touch \intersect OwnerEdges = {}
         \/ \E x \in Documents, d \in Departments :
              /\ op[r].kind = "ingest" /\ op[r].document = {x}
              /\ Update(r).touch = {<<x, "owner_department", d>>}
              /\ \A e \in edges \intersect OwnerEdges :
                   Resource(e) = x /\ Subject(e) # d => e \in Update(r).remove
<1>1. WellFormed(op[r]) /\ Update(r).touch = op[r].touch
  BY OpWellFormed, UpdateFacts
<1>2. CASE op[r].kind = "ingest"
  <2>1. PICK x \in Documents, d \in Departments :
          /\ op[r].document = {x} /\ op[r].owner = {d}
          /\ op[r].touch = {<<x, "owner_department", d>>}
    BY <1>1, <1>2 DEF WellFormed
  <2>2. Update(r).remove = OwnersToReplace(r)
    BY <1>2 DEF Update
  <2> QED
    BY <1>1, <1>2, <2>1, <2>2 DEF OwnersToReplace
<1>3. CASE op[r].kind # "ingest"
  BY <1>1, <1>3 DEF WellFormed
<1> QED
  BY <1>2, <1>3

\* Every step keeps one owner per document whose owner changes were not lost.
LEMMA OwnerStep ==
  ASSUME TypeOK, PlanInv, LateOwnerInv, SingleOwner, [Next]_vars
  PROVE  LateOwnerInv' /\ SingleOwner'
<1>1. parted \subseteq parted' /\ op' = op
  BY DEF Next, RequestStep, Terminated, vars, stores, Validate, Stage, SpiceDBReturns,
         SpiceDBRejects, SpiceDBFails, LateWriteApplies, Commit, CommitFails, RecordFailure
<1>2. LateOwnerInv'
  <2>1. CASE late' \subseteq late
    BY <1>1, <2>1 DEF LateOwnerInv
  <2>2. ASSUME NEW r \in Requests, HasLock(r), late' = late \union {Update(r)}, r \in parted'
        PROVE  LateOwnerInv'
    <3>1. \A e \in Update(r).touch \intersect OwnerEdges :
            op[r].kind = "ingest" /\ Resource(e) \in op[r].document
      BY <2>2, OwnerUpdate, EdgeParts
    <3> QED
      BY <1>1, <2>2, <3>1 DEF LateOwnerInv
  <2> QED
    BY <2>1, <2>2, LateStep
<1>3. SingleOwner'
  <2> SUFFICES ASSUME NEW e \in edges' \intersect OwnerEdges, NEW f \in edges' \intersect OwnerEdges,
                      Resource(e) = Resource(f), \A r \in parted' : e \notin Concerns(r)'
               PROVE  e = f
    BY DEF SingleOwner
  <2>1. \A r \in parted : e \notin Concerns(r)
    BY <1>1 DEF Concerns
  <2>2. CASE e \in edges /\ f \in edges
    BY <2>1, <2>2 DEF SingleOwner
  <2>3. ASSUME NEW r \in Requests, HasLock(r), edges' = Applied(Update(r))
        PROVE  e = f
    <3>1. CASE Update(r).touch \intersect OwnerEdges = {}
      BY <2>2, <2>3, <3>1 DEF Applied
    <3>2. ASSUME NEW x \in Documents, NEW d \in Departments,
                 Update(r).touch = {<<x, "owner_department", d>>},
                 \A g \in edges \intersect OwnerEdges :
                   Resource(g) = x /\ Subject(g) # d => g \in Update(r).remove
          PROVE  e = f
      <4>1. CASE Resource(e) # x
        BY <2>2, <2>3, <3>2, <4>1, EdgeParts DEF Applied
      <4>2. CASE Resource(e) = x
        <5>1. \A g \in edges' \intersect OwnerEdges :
                Resource(g) = x => g = <<x, "owner_department", d>>
          BY <2>3, <3>2, EdgeParts DEF Applied, Edges
        <5> QED
          BY <4>2, <5>1
      <4> QED BY <4>1, <4>2
    <3> QED
      BY <2>3, <3>1, <3>2, OwnerUpdate
  <2>4. ASSUME NEW update \in late, edges' = Applied(update)
        PROVE  e = f
    <3>1. \A r \in parted : ~(op[r].kind = "ingest" /\ Resource(e) \in op[r].document)
      <4>1. \A r : op[r].kind = "ingest" /\ Resource(e) \in op[r].document => e \in Concerns(r)
        BY DEF Concerns
      <4> QED
        BY <2>1, <4>1
    <3>2. e \notin update.touch /\ f \notin update.touch
      BY <3>1 DEF LateOwnerInv
    <3> QED
      BY <2>2, <2>4, <3>2 DEF Applied
  <2> QED
    BY <2>2, <2>3, <2>4, EdgesStep
<1> QED
  BY <1>2, <1>3

-------------------------------------------------------------------------------
(* The theorems.                                                           *)

\* The invariant holds at first.
LEMMA InitInv == Init => Inv
<1> SUFFICES ASSUME Init PROVE Inv
  OBVIOUS
<1>1. TypeOK /\ PlanInv
  BY InitTypes
<1>2. LateRoleInv /\ LateOwnerInv
  BY DEF Init, LateRoleInv, LateOwnerInv
<1>3. \A e \in edges : \/ e \in mirror /\ e \notin OwnerEdges
                       \/ /\ e \notin MembershipEdges
                          /\ \E x \in Live : e = <<x, "owner_department", docs[x].owner>>
  <2>1. \A e \in mirror : e \notin OwnerEdges
    BY EdgeParts DEF Init
  <2>2. \A x \in Live : <<x, "owner_department", docs[x].owner>> \notin MembershipEdges
    BY EdgeParts
  <2> QED
    BY <2>1, <2>2 DEF Init, Mirrored
<1>4. OneRolePerPair
  BY <1>1, <1>3 DEF OneRolePerPair, TypeOK
<1>5. SingleOwner
  BY <1>3, EdgeParts DEF SingleOwner
<1> QED
  BY <1>1, <1>2, <1>4, <1>5 DEF Inv

\* The inductive invariant holds in every reachable state.
THEOREM Invariance == Spec => []Inv
<1>1. Init => Inv
  BY InitInv
<1>2. Inv /\ [Next]_vars => Inv'
  BY TypesStep, RoleStep, OwnerStep DEF Inv
<1> QED
  BY <1>1, <1>2, PTL DEF Spec

\* Type correctness: the mirror keeps its unique constraints and open transactions
\* write disjoint rows, whatever the requests and however many.
THEOREM TypeCorrect == Spec => []TypeOK
<1>1. Inv => TypeOK
  BY DEF Inv
<1> QED
  BY <1>1, Invariance, PTL

\* A user never holds both roles in a department, whichever add, remove and
\* deactivation requests run, fail or arrive late (add_user_to_department).
THEOREM OneRole == Spec => []OneRolePerPair
<1>1. Inv => OneRolePerPair
  BY DEF Inv
<1> QED
  BY <1>1, Invariance, PTL

\* Owner changes never leave two owners behind, unless one of them failed
\* (set_document_owner reads the owners it replaces inside the checkpoint lock).
THEOREM OneOwner == Spec => []SingleOwner
<1>1. Inv => SingleOwner
  BY DEF Inv
<1> QED
  BY <1>1, Invariance, PTL

-------------------------------------------------------------------------------
(* Every relationship is listed.                                           *)

Listable == MembershipEdges \union ShareEdges

\* What an operation removes, in any of its calls.
Removes(o, e) == o.kind # "ingest" /\ \E i \in 1 .. Len(o.remove) : e \in o.remove[i]

\* The relationships whose rows it upserts or inserts.
Lists(o) == o.put \union o.insert

\* An operation's mirror rows and relationships belong together: it upserts or inserts the
\* rows of what it creates, and whatever else a row of its stands for, it removes.
Matches(o) ==
  /\ Lists(o) \subseteq o.touch /\ o.touch \intersect Listable \subseteq Lists(o)
  /\ o.touch # {} => Len(o.remove) = 1
  /\ \A f \in Lists(o) \union o.drop : \A e \in Listable :
       Key(e) = Key(f) => e \in Lists(o) \/ Removes(o, e)

\* A relationship of the two kinds of rows is known by its key, but for the role.
LEMMA KeyFacts ==
  /\ \A e \in Listable : Key(e) = <<Resource(e), Subject(e)>>
  /\ \A e, f \in Listable : Key(e) = Key(f) => Resource(e) = Resource(f) /\ Subject(e) = Subject(f)
  /\ \A e \in ShareEdges, f \in Listable : Key(e) = Key(f) => e = f
  /\ \A e \in MembershipEdges, f \in Listable :
       Key(e) = Key(f) => f \in MembershipEdges
  /\ \A e \in Listable, x \in Documents : Key(e) # <<x>>
  /\ Listable = Edges \ OwnerEdges
<1>1. \A e \in Listable : Key(e) = <<Resource(e), Subject(e)>>
  BY DEF Key
<1>2. \A e, f \in Listable : Key(e) = Key(f) => Resource(e) = Resource(f) /\ Subject(e) = Subject(f)
  BY DEF Key
<1>3. \A e \in ShareEdges : /\ Resource(e) \in Documents
                            /\ \/ Relation(e) = "shared_department" /\ Subject(e) \in Departments
                               \/ Relation(e) = "viewer" /\ Subject(e) \in Users
  BY DEF ShareEdges, Resource, Relation, Subject
<1>4. \A e \in MembershipEdges : Resource(e) \in Departments
  BY DEF MembershipEdges, Resource
<1>5. \A e \in Listable : e \in Edges
  BY DEF Listable, Edges
<1>6. \A e \in ShareEdges, f \in Listable : Key(e) = Key(f) => e = f
  <2> SUFFICES ASSUME NEW e \in ShareEdges, NEW f \in Listable, Key(e) = Key(f) PROVE e = f
    OBVIOUS
  <2>1. Resource(e) = Resource(f) /\ Subject(e) = Subject(f)
    BY <1>2 DEF Listable
  <2>2. f \in ShareEdges
    BY <1>3, <1>4, <2>1, ServiceAssumption DEF Listable
  <2>3. Relation(e) = Relation(f)
    BY <1>3, <2>1, <2>2, ServiceAssumption
  <2> QED
    BY <1>5, <2>1, <2>3, EdgeParts DEF Listable
<1>7. \A e \in MembershipEdges, f \in Listable : Key(e) = Key(f) => f \in MembershipEdges
  BY <1>2, <1>3, <1>4, ServiceAssumption DEF Listable
<1>8. \A e \in Listable, x \in Documents : Key(e) # <<x>>
  BY DEF Key
<1>9. Listable = Edges \ OwnerEdges
  BY EdgeParts DEF Listable, Edges
<1> QED
  BY <1>1, <1>2, <1>6, <1>7, <1>8, <1>9

\* An operation about one share.
LEMMA ShareMatches ==
  ASSUME NEW e \in ShareEdges, NEW o, o.kind # "ingest", o.put = {},
         \/ o.insert = {e} /\ o.drop = {} /\ o.touch = {e} /\ o.remove = <<{}>>
         \/ o.insert = {} /\ o.drop = {e} /\ o.touch = {} /\ o.remove = <<{e}>>
  PROVE  Matches(o)
<1>1. \A f \in Listable : Key(f) = Key(e) => f = e
  BY KeyFacts
<1>2. CASE o.insert = {e} /\ o.drop = {} /\ o.touch = {e} /\ o.remove = <<{}>>
  BY <1>1, <1>2 DEF Matches, Lists
<1>3. CASE o.insert = {} /\ o.drop = {e} /\ o.touch = {} /\ o.remove = <<{e}>>
  BY <1>1, <1>3 DEF Matches, Lists, Removes
<1> QED
  BY <1>2, <1>3

\* An operation that only removes.
LEMMA PurgeMatches ==
  ASSUME NEW o, o.kind # "ingest", Lists(o) = {}, o.touch = {}, o.drop \subseteq Listable,
         NEW first, NEW second,
         \/ o.remove = <<first>> /\ \A f \in o.drop, e \in Listable : Key(e) = Key(f) => e \in first
         \/ /\ o.remove = <<first, second>>
            /\ \A f \in o.drop, e \in Listable : Key(e) = Key(f) => e \in first \union second
  PROVE  Matches(o)
<1>1. CASE o.remove = <<first>>
  <2>1. \A e : Removes(o, e) <=> e \in first
    BY <1>1 DEF Removes
  <2>2. \A f \in o.drop, e \in Listable : Key(e) = Key(f) => e \in first
    BY <1>1
  <2> QED
    BY <2>1, <2>2 DEF Matches
<1>2. CASE o.remove = <<first, second>>
  <2>1. o.remove # <<first>> /\ \A e : Removes(o, e) <=> e \in first \union second
    BY <1>2 DEF Removes
  <2>2. \A f \in o.drop, e \in Listable : Key(e) = Key(f) => e \in first \union second
    BY <2>1
  <2> QED
    BY <2>1, <2>2 DEF Matches
<1> QED
  BY <1>1, <1>2

\* So it is with every operation of the service.
LEMMA OperationsMatch == \A o \in Operations : Matches(o)
<1> SUFFICES ASSUME NEW o \in Operations PROVE Matches(o)
  OBVIOUS
<1>1. ASSUME NEW u \in Users, NEW d \in Departments, NEW role \in Roles
      PROVE  Matches(AddUserToDepartment(u, d, role))
  <2> DEFINE plan == AddUserToDepartment(u, d, role)
             e == <<d, role, u>>
             f == <<d, OtherRole(role), u>>
  <2>1. plan.kind = "add" /\ Lists(plan) = {e} /\ plan.drop = {} /\ plan.touch = {e} /\ plan.remove = <<{f}>>
    BY DEF AddUserToDepartment, Lists, Plan
  <2>2. e \in MembershipEdges
    BY DEF MembershipEdges
  <2>3. \A g \in Listable : Key(g) = Key(e) => g = e \/ g = f
    <3>1. \A g \in MembershipEdges : Key(g) = Key(e) => g = e \/ g = f
      BY DEF MembershipEdges, Key, Resource, Subject, OtherRole, Roles
    <3> QED
      BY <2>2, <3>1, KeyFacts
  <2> HIDE DEF plan, e, f
  <2>4. Matches(plan)
    BY <2>1, <2>3 DEF Matches, Removes
  <2> QED
    BY <2>4 DEF plan
<1>2. ASSUME NEW u \in Users, NEW d \in Departments
      PROVE  Matches(RemoveUserFromDepartment(u, d))
  <2> DEFINE plan == RemoveUserFromDepartment(u, d)
             E == {<<d, role, u>> : role \in Roles}
  <2>1. plan.kind = "remove" /\ Lists(plan) = {} /\ plan.drop = E /\ plan.touch = {} /\ plan.remove = <<E>>
    BY DEF RemoveUserFromDepartment, Lists, Plan
  <2>2. E \subseteq MembershipEdges
    BY DEF MembershipEdges
  <2>3. \A f \in E, e \in Listable : Key(e) = Key(f) => e \in E
    <3>1. \A f \in E, e \in MembershipEdges : Key(e) = Key(f) => e \in E
      BY DEF MembershipEdges, Key, Resource, Subject, Roles
    <3> QED
      BY <2>2, <3>1, KeyFacts
  <2> HIDE DEF plan, E
  <2>4. Matches(plan)
    BY <2>1, <2>2, <2>3, PurgeMatches DEF Listable
  <2> QED
    BY <2>4 DEF plan
<1>3. ASSUME NEW x \in Documents, NEW d \in Departments
      PROVE  /\ Matches(ShareDocumentWithDepartment(x, d))
             /\ Matches(UnshareDocumentWithDepartment(x, d))
  <2>1. <<x, "shared_department", d>> \in ShareEdges
    BY DEF ShareEdges
  <2> QED
    BY <2>1, ShareMatches DEF ShareDocumentWithDepartment, UnshareDocumentWithDepartment, Plan
<1>4. ASSUME NEW x \in Documents, NEW u \in Users
      PROVE  /\ Matches(GrantDocumentToUser(x, u))
             /\ Matches(RevokeDocumentFromUser(x, u))
  <2>1. <<x, "viewer", u>> \in ShareEdges
    BY DEF ShareEdges
  <2> QED
    BY <2>1, ShareMatches DEF GrantDocumentToUser, RevokeDocumentFromUser, Plan
<1>5. ASSUME NEW u \in Users PROVE Matches(DeactivateUser(u))
  <2> DEFINE plan == DeactivateUser(u)
             first == EdgesOf(u) \intersect MembershipEdges
             second == EdgesOf(u) \intersect ShareEdges
  <2>1. /\ plan.kind = "deactivate" /\ Lists(plan) = {} /\ plan.touch = {}
        /\ plan.drop = EdgesOf(u) /\ plan.remove = <<first, second>>
    BY DEF DeactivateUser, Lists, Plan
  <2>2. EdgesOf(u) \subseteq Listable
    BY ServiceAssumption, EdgeParts DEF EdgesOf, Edges, OwnerEdges, Subject, Listable
  <2>3. \A f \in EdgesOf(u), e \in Listable : Key(e) = Key(f) => e \in first \union second
    BY <2>2, KeyFacts DEF EdgesOf, Listable, Edges
  <2> HIDE DEF plan, first, second
  <2>4. Matches(plan)
    BY <2>1, <2>2, <2>3, PurgeMatches
  <2> QED
    BY <2>4 DEF plan
<1>6. ASSUME NEW x \in Documents PROVE Matches(DeleteDocument(x))
  <2> DEFINE plan == DeleteDocument(x)
             first == {e \in Edges : Resource(e) = x}
  <2>1. /\ plan.kind = "delete" /\ Lists(plan) = {} /\ plan.touch = {}
        /\ plan.drop = {e \in ShareEdges : Resource(e) = x} /\ plan.remove = <<first>>
    BY DEF DeleteDocument, Lists, Plan
  <2>2. \A f \in plan.drop, e \in Listable : Key(e) = Key(f) => e \in first
    BY <2>1, KeyFacts DEF Listable
  <2> HIDE DEF plan, first
  <2>3. Matches(plan)
    BY <2>1, <2>2, PurgeMatches DEF Listable
  <2> QED
    BY <2>3 DEF plan
<1>7. ASSUME NEW x \in Documents, NEW d \in Departments, NEW transfer \in BOOLEAN
      PROVE  Matches(IngestDocument(x, d, transfer))
  <2> DEFINE plan == IngestDocument(x, d, transfer)
             e == <<x, "owner_department", d>>
  <2>1. Lists(plan) = {} /\ plan.drop = {} /\ plan.touch = {e} /\ plan.remove = <<{}>>
    BY DEF IngestDocument, Lists, Plan
  <2>2. e \notin Listable
    BY EdgeParts DEF Listable
  <2> HIDE DEF plan, e
  <2>3. Matches(plan)
    BY <2>1, <2>2 DEF Matches
  <2> QED
    BY <2>3 DEF plan
<1> QED
  BY <1>1, <1>2, <1>3, <1>4, <1>5, <1>6, <1>7 DEF Operations

\* A relationship that a failed request may have touched.
Lost(e) == \E r \in parted : e \in Concerns(r)

\* The rows a request holds are of what it creates or removes.
RowsInv ==
  \A r \in Requests, e \in Listable : Key(e) \in rows[r] => e \in Lists(op[r]) \/ Removes(op[r], e)

\* Who had ended before a request began stays ended.
BeforeInv == \A r \in Requests : before[r] \subseteq Ended

\* A row that an insert found is there until somebody deletes it who had not ended when
\* the request began.
KeptInv ==
  \A r \in Requests : pc[r] = "write" => \A e \in op[r].insert : Key(e) \notin rows[r] =>
    /\ r \in kept
    /\ e \in mirror \/ \E s \in Requests \ {r} : pc[s] = "done" /\ s \notin before[r] /\ Removes(op[s], e)

\* Between its two calls a request keeps the lock, and what the first removed is gone.
CallInv ==
  \A r \in Requests : pc[r] = "write" /\ call[r] # 1 =>
    /\ holder = r
    /\ \A e \in op[r].remove[1] \intersect Listable : e \in edges => Lost(e)

\* What may still arrive was of a failed request.
LateEdgeInv == \A update \in late : \A e \in update.touch : Lost(e)

\* A relationship has its row, or the row is about to be committed; and no commit takes
\* the row away.
Listed(e) ==
  /\ \A r \in Requests : pc[r] = "commit" /\ Key(e) \in rows[r] => e \in Put(r)
  /\ e \in mirror \/ \E r \in Requests : pc[r] = "commit" /\ e \in Put(r)

\* So it is with all that no failed request and no race of an insert has touched.
ListedInv == \A e \in edges \intersect Listable : Lost(e) \/ Raced(e) \/ Listed(e)

ListedParts == RowsInv /\ BeforeInv /\ KeptInv /\ CallInv /\ LateEdgeInv /\ ListedInv

\* At first there is nothing to list.
LEMMA InitListed == Init => ListedParts
<1> SUFFICES ASSUME Init PROVE ListedParts
  OBVIOUS
<1>1. \A e \in edges \intersect Listable : e \in mirror
  BY KeyFacts, EdgeParts DEF Init, Mirrored, Listable
<1> QED
  BY <1>1 DEF Init, ListedParts, RowsInv, BeforeInv, KeptInv, CallInv, LateEdgeInv, ListedInv, Listed

\* Operations stay, failures are remembered, and a row is held from the request's
\* statements on.
LEMMA RowsStep ==
  ASSUME TypeOK, RowsInv, [Next]_vars
  PROVE  /\ op' = op /\ parted \subseteq parted'
         /\ \A e : Lost(e) => Lost(e)'
         /\ RowsInv'
<1>1. op' = op /\ parted \subseteq parted'
  BY DEF Next, RequestStep, Terminated, vars, stores, Validate, Stage, SpiceDBReturns,
         SpiceDBRejects, SpiceDBFails, LateWriteApplies, Commit, CommitFails, RecordFailure
<1>2. \A e : Lost(e) => Lost(e)'
  BY <1>1 DEF Lost, Concerns
<1>3. ASSUME NEW r \in Requests, NEW e \in Listable, Key(e) \in Written(r)
      PROVE  e \in Lists(op[r]) \/ Removes(op[r], e)
  <2>1. Matches(op[r]) /\ op[r].document \subseteq Documents
    BY OfferedAssumption, OperationsMatch, OpWellFormed DEF TypeOK, WellFormed
  <2>2. PICK f \in Lists(op[r]) \union op[r].drop : Key(e) = Key(f)
    BY <1>3, <2>1, KeyFacts DEF Written, Lists
  <2> QED
    BY <2>1, <2>2 DEF Matches
<1>4. \A r \in Requests : rows'[r] \subseteq rows[r] \/ rows'[r] = Written(r)
  BY DEF Next, RequestStep, Terminated, vars, stores, Validate, Stage, SpiceDBReturns, Rollback,
         SpiceDBRejects, SpiceDBFails, LateWriteApplies, Commit, CommitFails, RecordFailure, TypeOK
<1> QED
  BY <1>1, <1>2, <1>3, <1>4 DEF RowsInv

\* A race is forgotten only if one of the two has failed after all.
LEMMA RacedStep ==
  ASSUME TypeOK, RowsInv, [Next]_vars, NEW e, Raced(e)
  PROVE  Raced(e)' \/ Lost(e)'
<1>1. PICK r \in kept : \E s \in Requests \ {r} :
        /\ e \in op[r].insert /\ \E i \in DOMAIN op[s].remove : e \in op[s].remove[i]
        /\ {pc[r], pc[s]} \subseteq {"commit", "done"}
        /\ r \notin before[s] /\ s \notin before[r]
  BY DEF Raced
<1>2. PICK s \in Requests \ {r} :
        /\ e \in op[r].insert /\ \E i \in DOMAIN op[s].remove : e \in op[s].remove[i]
        /\ {pc[r], pc[s]} \subseteq {"commit", "done"}
        /\ r \notin before[s] /\ s \notin before[r]
  BY <1>1
<1>3. r \in Requests /\ op' = op /\ r \in kept'
  BY <1>2, RowsStep
     DEF TypeOK, Next, RequestStep, Terminated, vars, stores, Validate, Stage, SpiceDBReturns,
         SpiceDBRejects, SpiceDBFails, LateWriteApplies, Commit, CommitFails, RecordFailure
<1>4. ASSUME NEW t \in {r, s}
      PROVE  /\ before'[t] = before[t]
             /\ pc'[t] \in {"commit", "done"} \/ t \in parted'
  BY <1>2, <1>3
     DEF TypeOK, Next, RequestStep, Terminated, vars, stores, Validate, Stage, SpiceDBReturns,
         SpiceDBRejects, SpiceDBFails, LateWriteApplies, Commit, CommitFails, RecordFailure,
         Rollback, GoTo, HasLock
<1>5. e \in Concerns(r) /\ e \in Concerns(s)
  <2>1. op[r].insert \subseteq op[r].touch
    BY <1>3, OfferedAssumption, OperationsMatch DEF TypeOK, Matches, Lists
  <2> QED
    BY <1>2, <2>1 DEF Concerns
<1>6. CASE r \in parted' \/ s \in parted'
  BY <1>3, <1>5, <1>6 DEF Lost, Concerns
<1>7. CASE r \notin parted' /\ s \notin parted'
  BY <1>2, <1>3, <1>4, <1>7 DEF Raced
<1> QED
  BY <1>6, <1>7

\* What an insert found, and who had ended before.
LEMMA KeptStep ==
  ASSUME Inv, RowsInv, BeforeInv, KeptInv, [Next]_vars
  PROVE  BeforeInv' /\ KeptInv'
<1> USE DEF Inv
<1>1. op' = op
  BY RowsStep
<1>2. Ended \subseteq Ended' /\ \A r \in Requests : pc[r] = "done" => pc'[r] = "done"
  BY DEF TypeOK, Next, RequestStep, Terminated, vars, stores, Validate, Stage,
         SpiceDBReturns, SpiceDBRejects, SpiceDBFails, LateWriteApplies, Commit, CommitFails,
         RecordFailure, Rollback, GoTo, HasLock, Ended
<1>3. \A r \in Requests : before'[r] = before[r] \/ before'[r] = Ended
  BY DEF TypeOK, Next, RequestStep, Terminated, vars, stores, Validate, Stage,
         SpiceDBReturns, SpiceDBRejects, SpiceDBFails, LateWriteApplies, Commit, CommitFails,
         RecordFailure
<1>4. BeforeInv'
  BY <1>2, <1>3 DEF BeforeInv
<1>5. ASSUME NEW r \in Requests, pc'[r] = "write", NEW e \in op[r].insert, Key(e) \notin rows'[r]
      PROVE  /\ r \in kept'
             /\ \/ e \in mirror'
                \/ \E s \in Requests \ {r} : pc'[s] = "done" /\ s \notin before'[r] /\ Removes(op[s], e)
  <2>1. CASE Stage(r)
    <3>1. rows'[r] = Written(r) /\ mirror' = mirror
      BY <2>1 DEF Stage, TypeOK, stores
    <3>2. e \in mirror
      BY <1>5, <3>1 DEF Written
    <3> QED
      BY <2>1, <3>1, <3>2 DEF Stage
  <2>2. CASE ~Stage(r)
    <3>1. /\ pc[r] = "write" /\ rows'[r] = rows[r] /\ before'[r] = before[r]
          /\ kept \subseteq kept'
      BY <1>5, <2>2
         DEF TypeOK, Next, RequestStep, Terminated, vars, stores, Validate, Stage, SpiceDBReturns,
             SpiceDBRejects, SpiceDBFails, LateWriteApplies, Commit, CommitFails, RecordFailure,
             Rollback, GoTo, HasLock
    <3>2. /\ r \in kept
          /\ \/ e \in mirror
             \/ \E s \in Requests \ {r} : pc[s] = "done" /\ s \notin before[r] /\ Removes(op[s], e)
      BY <1>5, <3>1 DEF KeptInv
    <3>3. ASSUME e \in mirror, e \notin mirror'
          PROVE  \E s \in Requests \ {r} : pc'[s] = "done" /\ s \notin before[r] /\ Removes(op[s], e)
      <4>1. PICK s \in Requests : Commit(s)
        BY <3>3 DEF Next, RequestStep, Terminated, vars, stores, Validate, Stage, SpiceDBReturns,
             SpiceDBRejects, SpiceDBFails, LateWriteApplies, CommitFails, RecordFailure
      <4>2. pc[s] = "commit" /\ pc'[s] = "done" /\ Key(e) \in rows[s] /\ e \notin Put(s)
        BY <3>3, <4>1 DEF Commit, GoTo, TypeOK
      <4>3. s # r /\ s \notin before[r]
        BY <3>1, <4>2 DEF BeforeInv, Ended
      <4>4. e \in Listable
        BY OpWellFormed DEF WellFormed, Listable
      <4>5. Removes(op[s], e)
        BY <4>2, <4>4 DEF RowsInv, Lists, Put
      <4> QED
        BY <4>2, <4>3, <4>5
    <3> QED
      BY <1>2, <3>1, <3>2, <3>3
  <2> QED
    BY <2>1, <2>2
<1>6. KeptInv'
  BY <1>1, <1>5 DEF KeptInv
<1> QED
  BY <1>4, <1>6

\* The steps that make no SpiceDB call: a commit takes its rows from who is not listed and
\* leaves the others theirs, and a failed one is remembered.
LEMMA QuietListed ==
  ASSUME Inv, ListedParts, [Next]_vars, UNCHANGED edges, UNCHANGED late,
         NEW r \in Requests,
         Validate(r) \/ Stage(r) \/ Commit(r) \/ CommitFails(r) \/ RecordFailure(r)
         \/ SpiceDBRejects(r)
  PROVE  CallInv' /\ LateEdgeInv' /\ ListedInv'
<1> USE DEF Inv, ListedParts, GoTo, stores
<1>1. op' = op /\ \A e : Lost(e) => Lost(e)'
  BY RowsStep
<1>2. LateEdgeInv'
  BY <1>1 DEF LateEdgeInv
<1>3. CallInv'
  <2> SUFFICES ASSUME NEW s \in Requests, pc'[s] = "write", call'[s] # 1
               PROVE  /\ holder' = s
                      /\ \A e \in op[s].remove[1] \intersect Listable : e \in edges => Lost(e)'
    BY <1>1 DEF CallInv
  <2>1. pc[s] = "write" /\ call[s] # 1
    BY DEF Validate, Stage, Commit, CommitFails, RecordFailure, SpiceDBRejects, Rollback,
           TypeOK, PlanInv
  <2>2. holder = s /\ \A e \in op[s].remove[1] \intersect Listable : e \in edges => Lost(e)
    BY <2>1 DEF CallInv
  <2>3. holder' = holder
    BY <2>1, <2>2, ServiceAssumption
       DEF Validate, Stage, Commit, CommitFails, RecordFailure, SpiceDBRejects, HasLock, Rollback, TypeOK
  <2> QED
    BY <1>1, <2>2, <2>3
<1>4. ListedInv'
  <2> SUFFICES ASSUME NEW e \in edges \intersect Listable, ~Lost(e)', ~Raced(e)'
               PROVE  Listed(e)'
    BY DEF ListedInv
  <2> USE DEF Listed
  <2>1. Listed(e)
    BY <1>1, RacedStep DEF ListedInv
  <2>2. \A s \in Requests : pc'[s] = "commit" => pc[s] = "commit" /\ rows'[s] = rows[s] /\ Put(s)' = Put(s)
    BY <1>1 DEF Put, Validate, Stage, Commit, CommitFails, RecordFailure, SpiceDBRejects, Rollback, TypeOK
  <2>3. \A s \in Requests \ {r} : pc'[s] = pc[s]
    BY DEF Validate, Stage, Commit, CommitFails, RecordFailure, SpiceDBRejects, Rollback, TypeOK
  <2>4. CASE Commit(r)
    <3>1. mirror' = {f \in mirror : Key(f) \notin rows[r]} \union Put(r) /\ pc[r] = "commit"
      BY <2>4 DEF Commit
    <3> QED
      BY <2>1, <2>2, <2>3, <3>1
  <2>5. CASE CommitFails(r)
    <3>1. e \notin Put(r)
      <4>1. Put(r) \subseteq op[r].touch
        BY OfferedAssumption, OperationsMatch DEF TypeOK, Matches, Lists, Put
      <4> QED
        BY <1>1, <2>5, <4>1 DEF CommitFails, Lost, Concerns
    <3> QED
      BY <2>1, <2>2, <2>3, <2>5, <3>1 DEF CommitFails
  <2>6. CASE Validate(r) \/ Stage(r) \/ RecordFailure(r) \/ SpiceDBRejects(r)
    <3>1. mirror' = mirror /\ pc[r] # "commit"
      BY <2>6 DEF Validate, Stage, RecordFailure, SpiceDBRejects, HasLock
    <3> QED
      BY <2>1, <2>2, <2>3, <3>1
  <2> QED
    BY <2>4, <2>5, <2>6
<1> QED
  BY <1>2, <1>3, <1>4

\* What a call leaves behind: a relationship that was there before and is not removed, or
\* one the request has the row of.
LEMMA CallFacts ==
  ASSUME Inv, ListedParts, NEW r \in Requests, HasLock(r)
  PROVE  /\ Update(r).touch = op[r].touch
         /\ Len(op[r].remove) \in {1, 2} /\ call[r] \in 1 .. Len(op[r].remove)
         /\ \A e \in op[r].touch \intersect Listable :
              /\ e \in Put(r) \/ (e \in op[r].insert /\ Key(e) \notin rows[r])
              /\ e \in Concerns(r) /\ Len(op[r].remove) = 1
              /\ e \in Put(r) => \A s \in Requests \ {r} : Key(e) \notin rows[s]
         /\ \A e \in op[r].touch : e \in Concerns(r)
         /\ op[r].kind # "ingest" => Update(r).remove = op[r].remove[call[r]]
         /\ Len(op[r].remove) = 2 => op[r].kind # "ingest" /\ op[r].touch = {}
<1> USE DEF Inv
<1>1. Matches(op[r]) /\ WellFormed(op[r]) /\ pc[r] = "write"
  BY OfferedAssumption, OperationsMatch, OpWellFormed DEF TypeOK, HasLock
<1>2. Update(r).touch = op[r].touch
      /\ (op[r].kind # "ingest" => Update(r).remove = op[r].remove[call[r]])
  BY DEF Update
<1>3. Len(op[r].remove) \in {1, 2} /\ call[r] \in 1 .. Len(op[r].remove)
  BY <1>1 DEF WellFormed, PlanInv
<1>4. \A e \in op[r].touch : e \in Concerns(r)
  BY DEF Concerns
<1>5. \A e \in Put(r) : \A s \in Requests \ {r} : Key(e) \notin rows[s]
  BY <1>1 DEF PlanInv, TypeOK, Put
<1>6. Len(op[r].remove) = 2 => op[r].kind # "ingest" /\ op[r].touch = {}
  <2>1. Len(op[r].remove) = 2 => op[r].touch = {}
    BY <1>1 DEF Matches
  <2>2. op[r].kind = "ingest" => op[r].touch # {}
    BY <1>1 DEF WellFormed
  <2> QED
    BY <2>1, <2>2
<1> QED
  BY <1>1, <1>2, <1>3, <1>4, <1>5, <1>6 DEF Matches, Lists, Put

\* A call that succeeds.
LEMMA ReturnsListed ==
  ASSUME Inv, ListedParts, [Next]_vars, NEW r \in Requests, SpiceDBReturns(r)
  PROVE  CallInv' /\ LateEdgeInv' /\ ListedInv'
<1> USE DEF Inv, ListedParts, GoTo
<1>1. op' = op /\ parted' = parted /\ (\A e : Lost(e)' <=> Lost(e)) /\ HasLock(r)
      /\ edges' = (edges \ Update(r).remove) \union op[r].touch
  BY RowsStep, CallFacts DEF SpiceDBReturns, Lost, Concerns, Applied
<1>2. LateEdgeInv'
  BY <1>1 DEF SpiceDBReturns, LateEdgeInv
<1>3. \A s \in Requests \ {r} : ~(pc[s] = "write" /\ call[s] # 1)
  BY <1>1, ServiceAssumption DEF HasLock, CallInv
<1>4. \A s \in Requests \ {r} : pc'[s] = pc[s] /\ call'[s] = call[s]
  BY DEF SpiceDBReturns, TypeOK
<1>5. CASE call[r] < Len(op[r].remove)
  <2>1. call[r] = 1 /\ Len(op[r].remove) = 2 /\ op[r].kind # "ingest" /\ op[r].touch = {}
        /\ Update(r).remove = op[r].remove[1]
    <3>1. \A n \in {1, 2} : \A c \in 1 .. n : c < n => c = 1 /\ n = 2
      OBVIOUS
    <3>2. call[r] = 1 /\ Len(op[r].remove) = 2
      BY <1>1, <1>5, <3>1, CallFacts
    <3> QED
      BY <1>1, <3>2, CallFacts
  <2>2. edges' = edges \ op[r].remove[1] /\ holder' = r /\ UNCHANGED <<pc, mirror, rows>>
    BY <1>1, <1>5, <2>1 DEF SpiceDBReturns
  <2>3. CallInv'
    BY <1>1, <1>3, <1>4, <2>2 DEF CallInv
  <2>4. \A e : Raced(e)' <=> Raced(e)
    BY <1>1, <2>2 DEF SpiceDBReturns, Raced
  <2>5. ListedInv'
    BY <1>1, <2>2, <2>4 DEF ListedInv, Listed, Put
  <2> QED
    BY <1>2, <2>3, <2>5
<1>6. CASE ~(call[r] < Len(op[r].remove))
  <2>1. pc' = [pc EXCEPT ![r] = "commit"] /\ UNCHANGED <<mirror, rows>>
    BY <1>6 DEF SpiceDBReturns
  <2>2. pc'[r] = "commit" /\ pc[r] = "write"
    BY <1>1, <2>1 DEF TypeOK, HasLock
  <2>3. CallInv'
    BY <1>3, <1>4, <2>2 DEF CallInv
  <2>4. ASSUME NEW e \in edges' \intersect Listable, ~Lost(e), ~Raced(e)'
        PROVE  /\ \A s \in Requests : pc'[s] = "commit" /\ Key(e) \in rows[s] => e \in Put(s)
               /\ e \in mirror \/ \E s \in Requests : pc'[s] = "commit" /\ e \in Put(s)
    <3>1. CASE e \in op[r].touch /\ e \in Put(r)
      <4>1. \A s \in Requests \ {r} : Key(e) \notin rows[s]
        BY <1>1, <2>4, <3>1, CallFacts
      <4> QED
        BY <2>2, <3>1, <4>1
    <3>2. CASE e \in op[r].insert /\ Key(e) \notin rows[r]
      <4>1. /\ r \in kept
            /\ e \in mirror \/ \E s \in Requests \ {r} : pc[s] = "done" /\ s \notin before[r] /\ Removes(op[s], e)
        BY <2>2, <3>2 DEF KeptInv
      <4>2. ASSUME NEW s \in Requests \ {r}, pc[s] \in {"commit", "done"}, s \notin before[r]
            PROVE  ~Removes(op[s], e)
        <5>1. r \notin before[s]
          BY <2>2 DEF BeforeInv, Ended
        <5>2. pc'[r] = "commit" /\ pc'[s] \in {"commit", "done"} /\ r \in kept' /\ before' = before
          BY <1>4, <2>2, <4>1, <4>2 DEF SpiceDBReturns
        <5>3. ~\E i \in DOMAIN op[s].remove : e \in op[s].remove[i]
          BY <1>1, <2>4, <3>2, <4>2, <5>1, <5>2 DEF Raced
        <5>4. DOMAIN op[s].remove = 1 .. Len(op[s].remove)
          BY OpWellFormed DEF WellFormed
        <5> QED
          BY <5>3, <5>4 DEF Removes
      <4>3. e \in mirror
        BY <4>1, <4>2
      <4>4. ASSUME NEW s \in Requests, pc'[s] = "commit", Key(e) \in rows[s]
            PROVE  e \in Put(s)
        <5>1. s # r /\ pc[s] = "commit"
          BY <1>4, <3>2, <4>4
        <5>2. s \notin before[r]
          BY <5>1 DEF BeforeInv, Ended
        <5> QED
          BY <2>4, <4>2, <4>4, <5>1, <5>2 DEF RowsInv, Lists, Put
      <4> QED
        BY <4>3, <4>4
    <3>3. CASE e \in edges /\ e \notin Update(r).remove
      <4>1. Key(e) \in rows[r] => e \in Put(r)
        <5> SUFFICES ASSUME Key(e) \in rows[r], Removes(op[r], e) PROVE FALSE
          BY <2>4 DEF RowsInv, Lists, Put
        <5>1. PICK i \in 1 .. Len(op[r].remove) : e \in op[r].remove[i]
          BY DEF Removes
        <5>2. i # call[r]
          BY <1>1, <3>3, <5>1, CallFacts DEF Removes
        <5>3. i = 1 /\ call[r] # 1
          <6>1. \A n \in {1, 2} : \A c, j \in 1 .. n : ~(c < n) /\ j # c => j = 1 /\ c # 1
            OBVIOUS
          <6>2. Len(op[r].remove) \in {1, 2} /\ call[r] \in 1 .. Len(op[r].remove)
            BY <1>1, CallFacts
          <6> QED
            BY <1>6, <5>1, <5>2, <6>1, <6>2
        <5> QED
          BY <2>2, <2>4, <3>3, <5>1, <5>3 DEF CallInv
      <4>2. Listed(e)
        BY <1>1, <2>4, <3>3, RacedStep DEF ListedInv
      <4> QED
        BY <1>4, <2>2, <4>1, <4>2 DEF Listed
    <3> QED
      BY <1>1, <2>4, <3>1, <3>2, <3>3, CallFacts
  <2>5. ListedInv'
    <3>1. \A s \in Requests : Put(s)' = Put(s)
      BY <1>1, <2>1 DEF Put
    <3> QED
      BY <1>1, <2>1, <2>4, <3>1 DEF ListedInv, Listed
  <2> QED
    BY <1>2, <2>3, <2>5
<1> QED
  BY <1>5, <1>6

\* A call that fails, and a write that arrives late.
LEMMA FailsListed ==
  ASSUME Inv, ListedParts, [Next]_vars,
         \/ \E r \in Requests : SpiceDBFails(r)
         \/ \E update \in late : LateWriteApplies(update)
  PROVE  CallInv' /\ LateEdgeInv' /\ ListedInv'
<1> USE DEF Inv, ListedParts, GoTo
<1>1. op' = op /\ \A e : Lost(e) => Lost(e)'
  BY RowsStep
<1>2. ASSUME NEW r \in Requests, SpiceDBFails(r)
      PROVE  /\ \A e \in edges' : e \in edges \/ Lost(e)'
             /\ LateEdgeInv'
             /\ \A s \in Requests : pc'[s] \in {"write", "commit"} =>
                  s # r /\ pc'[s] = pc[s] /\ rows'[s] = rows[s]
             /\ \A s \in Requests : pc[s] = "commit" => pc'[s] = "commit"
             /\ UNCHANGED <<mirror, call>>
             /\ \A s \in Requests \ {r} : ~(pc[s] = "write" /\ call[s] # 1)
  <2>1. HasLock(r) /\ r \in parted' /\ pc[r] = "write"
    BY <1>2 DEF SpiceDBFails, HasLock
  <2>2. \A e \in Update(r).touch : Lost(e)'
    BY <1>1, <2>1, CallFacts DEF Lost, Concerns
  <2>3. LateEdgeInv'
    BY <1>1, <1>2, <2>2 DEF SpiceDBFails, LateEdgeInv
  <2>4. \A e \in edges' : e \in edges \/ Lost(e)'
    BY <1>2, <2>2 DEF SpiceDBFails, Applied
  <2>5. pc' = [pc EXCEPT ![r] = IF op[r].kind = "ingest" THEN "record" ELSE "failed"]
        /\ rows' = [rows EXCEPT ![r] = {}]
    BY <1>2 DEF SpiceDBFails, Rollback
  <2>6. \A s \in Requests \ {r} : ~(pc[s] = "write" /\ call[s] # 1)
    BY <2>1, ServiceAssumption DEF HasLock, CallInv
  <2> QED
    BY <1>2, <2>1, <2>3, <2>4, <2>5, <2>6 DEF SpiceDBFails, TypeOK
<1>3. ASSUME NEW update \in late, LateWriteApplies(update)
      PROVE  /\ \A e \in edges' : e \in edges \/ Lost(e)'
             /\ LateEdgeInv'
             /\ UNCHANGED <<mirror, call, pc, rows, holder>>
  BY <1>1, <1>3 DEF LateWriteApplies, LateEdgeInv, Applied
<1>4. ListedInv'
  <2> SUFFICES ASSUME NEW e \in edges' \intersect Listable, ~Lost(e)', ~Raced(e)'
               PROVE  Listed(e)'
    BY DEF ListedInv
  <2>1. Listed(e)
    BY <1>1, <1>2, <1>3, RacedStep DEF ListedInv
  <2>2. \A s \in Requests : pc'[s] = "commit" => pc[s] = "commit" /\ rows'[s] = rows[s] /\ Put(s)' = Put(s)
    BY <1>1, <1>2, <1>3 DEF Put
  <2>3. mirror' = mirror /\ \A s \in Requests : pc[s] = "commit" => pc'[s] = "commit"
    BY <1>2, <1>3
  <2> QED
    BY <2>1, <2>2, <2>3 DEF Listed
<1>5. CallInv'
  BY <1>1, <1>2, <1>3 DEF CallInv
<1> QED
  BY <1>2, <1>3, <1>4, <1>5

\* Every step keeps it.
LEMMA ListedStep == Inv /\ ListedParts /\ [Next]_vars => ListedParts'
<1> SUFFICES ASSUME Inv, ListedParts, [Next]_vars PROVE ListedParts'
  OBVIOUS
<1>1. RowsInv'
  BY RowsStep DEF Inv, ListedParts
<1>2. ASSUME NEW r \in Requests,
             Validate(r) \/ Stage(r) \/ Commit(r) \/ CommitFails(r) \/ RecordFailure(r)
             \/ SpiceDBRejects(r)
      PROVE  CallInv' /\ LateEdgeInv' /\ ListedInv'
  <2>1. UNCHANGED edges /\ UNCHANGED late
    BY <1>2 DEF Validate, Stage, Commit, CommitFails, RecordFailure, SpiceDBRejects, stores
  <2> QED
    BY <1>2, <2>1, QuietListed
<1>3. ASSUME UNCHANGED vars
      PROVE  CallInv' /\ LateEdgeInv' /\ ListedInv'
  BY <1>3 DEF vars, ListedParts, CallInv, LateEdgeInv, ListedInv, Listed, Put, Raced, Lost, Concerns
<1>4. CallInv' /\ LateEdgeInv' /\ ListedInv'
  BY <1>2, <1>3, ReturnsListed, FailsListed DEF Next, RequestStep, Terminated
<1>5. BeforeInv' /\ KeptInv'
  BY KeptStep DEF ListedParts
<1> QED
  BY <1>1, <1>4, <1>5 DEF ListedParts

\* Whatever requests run, fail or arrive late, a membership or share that no failed request
\* has touched is listed once the requests are over, unless it was shared or granted anew,
\* its row in place, beside a change that removed it.
THEOREM NoUnlistedAccess == Spec => []EdgesAreListed
<1>1. Inv /\ ListedParts => EdgesAreListed
  <2> SUFFICES ASSUME Inv, ListedParts, Ended = Requests, NEW e \in edges \ OwnerEdges,
                      \A r \in parted : e \notin Concerns(r), ~Raced(e)
               PROVE  e \in mirror
    BY DEF EdgesAreListed
  <2>1. e \in Listable /\ ~Lost(e)
    BY KeyFacts DEF Lost, Inv, TypeOK
  <2>2. \A r \in Requests : pc[r] # "commit"
    BY DEF Ended
  <2> QED
    BY <2>1, <2>2 DEF ListedParts, ListedInv, Listed
<1> QED
  BY <1>1, ListedStep, InitListed, Invariance, PTL DEF Spec

-------------------------------------------------------------------------------
(* The last change wins.                                                   *)

\* An operation's rows and relationships, from the side of a relationship it concerns.
Reaches(o) ==
  /\ \A e \in Listable : Removes(o, e) =>
       e \in o.put \/ e \in o.drop \/ \E f \in o.put : Key(e) = Key(f)
  /\ o.document # {} => o.kind \in {"ingest", "delete"}
  /\ \A e \in OwnerEdges : e \in o.touch \/ Removes(o, e) => Resource(e) \in o.document
  /\ \A e \in OwnerEdges : o.kind = "delete" /\ Resource(e) \in o.document => Removes(o, e)
  /\ o.kind = "delete" => o.touch = {}
  /\ o.kind = "ingest" => o.remove = <<{}>>
  /\ o.document # {} /\ o.kind # "ingest" => o.owner = {}

\* So it is with every operation of the service.
LEMMA OperationsReach == \A o \in Operations : Reaches(o)
<1> SUFFICES ASSUME NEW o \in Operations PROVE Reaches(o)
  OBVIOUS
<1>1. ASSUME NEW u \in Users, NEW d \in Departments, NEW role \in Roles
      PROVE  Reaches(AddUserToDepartment(u, d, role))
  <2> DEFINE plan == AddUserToDepartment(u, d, role)
             e == <<d, role, u>>
             f == <<d, OtherRole(role), u>>
  <2>1. /\ plan.kind = "add" /\ plan.put = {e} /\ plan.touch = {e}
        /\ plan.remove = <<{f}>> /\ plan.document = {}
    BY DEF AddUserToDepartment, Plan
  <2>2. Key(f) = Key(e) /\ e \notin OwnerEdges /\ f \notin OwnerEdges
    <3>1. e \in MembershipEdges /\ f \in MembershipEdges
      BY DEF MembershipEdges, OtherRole, Roles
    <3> QED
      BY <3>1, EdgeParts
  <2> HIDE DEF plan, e, f
  <2>3. Reaches(plan)
    BY <2>1, <2>2 DEF Reaches, Removes
  <2> QED
    BY <2>3 DEF plan
<1>2. ASSUME NEW u \in Users, NEW d \in Departments
      PROVE  Reaches(RemoveUserFromDepartment(u, d))
  <2> DEFINE plan == RemoveUserFromDepartment(u, d)
             E == {<<d, role, u>> : role \in Roles}
  <2>1. /\ plan.kind = "remove" /\ plan.drop = E /\ plan.touch = {} /\ plan.remove = <<E>>
        /\ plan.document = {}
    BY DEF RemoveUserFromDepartment, Plan
  <2>2. \A e \in E : e \notin OwnerEdges
    BY EdgeParts DEF MembershipEdges
  <2> HIDE DEF plan, E
  <2>3. Reaches(plan)
    BY <2>1, <2>2 DEF Reaches, Removes
  <2> QED
    BY <2>3 DEF plan
<1>3. ASSUME NEW e \in ShareEdges, NEW plan, plan.kind \notin {"ingest", "delete"}, plan.document = {},
             \/ plan.touch = {e} /\ plan.remove = <<{}>>
             \/ plan.drop = {e} /\ plan.touch = {} /\ plan.remove = <<{e}>>
      PROVE  Reaches(plan)
  <2>1. e \notin OwnerEdges
    BY EdgeParts
  <2>2. CASE plan.touch = {e} /\ plan.remove = <<{}>>
    BY <1>3, <2>1, <2>2 DEF Reaches, Removes
  <2>3. CASE plan.drop = {e} /\ plan.touch = {} /\ plan.remove = <<{e}>>
    BY <1>3, <2>1, <2>3 DEF Reaches, Removes
  <2> QED
    BY <1>3, <2>2, <2>3
<1>4. ASSUME NEW x \in Documents, NEW d \in Departments
      PROVE  /\ Reaches(ShareDocumentWithDepartment(x, d))
             /\ Reaches(UnshareDocumentWithDepartment(x, d))
  <2>1. <<x, "shared_department", d>> \in ShareEdges
    BY DEF ShareEdges
  <2> QED
    BY <2>1, <1>3 DEF ShareDocumentWithDepartment, UnshareDocumentWithDepartment, Plan
<1>5. ASSUME NEW x \in Documents, NEW u \in Users
      PROVE  /\ Reaches(GrantDocumentToUser(x, u))
             /\ Reaches(RevokeDocumentFromUser(x, u))
  <2>1. <<x, "viewer", u>> \in ShareEdges
    BY DEF ShareEdges
  <2> QED
    BY <2>1, <1>3 DEF GrantDocumentToUser, RevokeDocumentFromUser, Plan
<1>6. ASSUME NEW u \in Users PROVE Reaches(DeactivateUser(u))
  <2> DEFINE plan == DeactivateUser(u)
             first == EdgesOf(u) \intersect MembershipEdges
             second == EdgesOf(u) \intersect ShareEdges
  <2>1. /\ plan.kind = "deactivate" /\ plan.touch = {} /\ plan.document = {}
        /\ plan.drop = EdgesOf(u) /\ plan.remove = <<first, second>>
    BY DEF DeactivateUser, Plan
  <2>2. \A e : e \in first \/ e \in second => e \in EdgesOf(u) /\ e \notin OwnerEdges
    BY EdgeParts
  <2> HIDE DEF plan, first, second
  <2>3. \A e : Removes(plan, e) => e \in first \/ e \in second
    BY <2>1 DEF Removes
  <2>4. Reaches(plan)
    BY <2>1, <2>2, <2>3 DEF Reaches
  <2> QED
    BY <2>4 DEF plan
<1>7. ASSUME NEW x \in Documents PROVE Reaches(DeleteDocument(x))
  <2> DEFINE plan == DeleteDocument(x)
             first == {e \in Edges : Resource(e) = x}
  <2>1. /\ plan.kind = "delete" /\ plan.touch = {} /\ plan.document = {x}
        /\ plan.drop = {e \in ShareEdges : Resource(e) = x} /\ plan.remove = <<first>>
        /\ plan.owner = {}
    BY DEF DeleteDocument, Plan
  <2>2. \A e \in first \intersect Listable : e \in plan.drop
    BY <2>1, ServiceAssumption DEF Listable, MembershipEdges, Resource
  <2>3. \A e \in OwnerEdges : e \in first <=> Resource(e) = x
    BY DEF Edges
  <2> HIDE DEF plan, first
  <2>4. Reaches(plan)
    BY <2>1, <2>2, <2>3 DEF Reaches, Removes
  <2> QED
    BY <2>4 DEF plan
<1>8. ASSUME NEW x \in Documents, NEW d \in Departments, NEW transfer \in BOOLEAN
      PROVE  Reaches(IngestDocument(x, d, transfer))
  <2> DEFINE plan == IngestDocument(x, d, transfer)
             e == <<x, "owner_department", d>>
  <2>1. plan.kind = "ingest" /\ plan.touch = {e} /\ plan.document = {x} /\ plan.remove = <<{}>>
    BY DEF IngestDocument, Plan
  <2>2. Resource(e) = x
    BY EdgeParts
  <2> HIDE DEF plan, e
  <2>3. Reaches(plan)
    BY <2>1, <2>2 DEF Reaches, Removes
  <2> QED
    BY <2>3 DEF plan
<1> QED
  BY <1>1, <1>2, <1>4, <1>5, <1>6, <1>7, <1>8 DEF Operations

\* What a request concerns: what it creates, what it removes, and the owners an ingest
\* may replace.
LEMMA ConcernFacts ==
  ASSUME TypeOK, NEW r \in Requests
  PROVE  /\ Reaches(op[r]) /\ Matches(op[r]) /\ WellFormed(op[r])
         /\ \A e : e \in Concerns(r) <=>
              \/ e \in op[r].touch \/ Removes(op[r], e)
              \/ e \in OwnerEdges /\ op[r].kind = "ingest" /\ Resource(e) \in op[r].document
         /\ \A e \in Concerns(r) : e \in Edges
         /\ \A e \in OwnerEdges : e \in Concerns(r) <=> Resource(e) \in op[r].document
<1>1. Reaches(op[r]) /\ Matches(op[r]) /\ WellFormed(op[r])
  BY OfferedAssumption, OperationsReach, OperationsMatch, OpWellFormed DEF TypeOK
<1>2. DOMAIN op[r].remove = 1 .. Len(op[r].remove)
      /\ \A i \in 1 .. Len(op[r].remove) : op[r].remove[i] \subseteq Edges
  BY <1>1 DEF WellFormed
<1>3. op[r].kind = "ingest" => \A i \in 1 .. Len(op[r].remove) : op[r].remove[i] = {}
  BY <1>1 DEF Reaches
<1>4. \A e : e \in Concerns(r) <=>
        \/ e \in op[r].touch \/ Removes(op[r], e)
        \/ e \in OwnerEdges /\ op[r].kind = "ingest" /\ Resource(e) \in op[r].document
  BY <1>2, <1>3 DEF Concerns, Removes
<1>5. \A e \in Concerns(r) : e \in Edges
  BY <1>1, <1>2, <1>4 DEF WellFormed, Removes, Edges
<1>6. \A e \in OwnerEdges : e \in Concerns(r) <=> Resource(e) \in op[r].document
  BY <1>1, <1>4 DEF Reaches
<1> QED
  BY <1>1, <1>4, <1>5, <1>6

\* A relationship has its row in the mirror, or is that of its document's owner.
LEMMA RowFacts ==
  ASSUME NEW M \in SUBSET Listable, NEW D \in DocRows, NEW e \in Edges
  PROVE  e \in M \union {<<x, "owner_department", D[x].owner>> :
                          x \in {y \in Documents : D[y].status # "deleted"}}
           <=> \/ e \in Listable /\ e \in M
               \/ /\ e \in OwnerEdges /\ D[Resource(e)].status # "deleted"
                  /\ D[Resource(e)].owner = Subject(e)
<1> DEFINE O == {<<x, "owner_department", D[x].owner>> :
                  x \in {y \in Documents : D[y].status # "deleted"}}
<1>1. \A x \in Documents : D[x].owner \in Departments
  BY DEF DocRows
<1>2. O \subseteq OwnerEdges
  BY <1>1 DEF OwnerEdges
<1>3. ASSUME e \in OwnerEdges
      PROVE  e \in O <=> D[Resource(e)].status # "deleted" /\ D[Resource(e)].owner = Subject(e)
  <2>1. e = <<Resource(e), "owner_department", Subject(e)>> /\ Resource(e) \in Documents
    BY <1>3 DEF OwnerEdges, Resource, Subject
  <2>2. \A x : e = <<x, "owner_department", D[x].owner>> => x = Resource(e) /\ D[x].owner = Subject(e)
    BY EdgeParts
  <2> QED
    BY <2>1, <2>2
<1>4. e \in Listable <=> e \notin OwnerEdges
  BY KeyFacts
<1> QED
  BY <1>2, <1>3, <1>4

\* Who failed is over or records it; what may arrive late concerned a failed request; and a
\* request holds no document row but its own document's.
HistoryInv ==
  /\ \A r \in parted : pc[r] \in {"record", "failed"}
  /\ \A update \in late : \A e \in update.touch \union update.remove : Lost(e)
  /\ \A r \in Requests, x \in Documents : <<x>> \in rows[r] => x \in op[r].document

\* What a call touches or removes is what its request concerns.
LEMMA UpdateConcerns ==
  ASSUME TypeOK, PlanInv, NEW r \in Requests, HasLock(r)
  PROVE  \A e \in Update(r).touch \union Update(r).remove : e \in Concerns(r)
<1>1. op[r].kind = "ingest" => Update(r).remove = OwnersToReplace(r)
  BY DEF Update
<1>2. op[r].kind # "ingest" => \A e \in Update(r).remove : Removes(op[r], e)
  BY DEF Update, Removes, PlanInv, HasLock
<1>3. Update(r).touch = op[r].touch
  BY DEF Update
<1> QED
  BY <1>1, <1>2, <1>3, ConcernFacts DEF OwnersToReplace

\* Every step keeps it.
LEMMA HistoryStep ==
  ASSUME Inv, ListedParts, HistoryInv, [Next]_vars
  PROVE  HistoryInv'
<1> USE DEF Inv
<1>1. op' = op /\ parted \subseteq parted' /\ \A e : Lost(e) => Lost(e)'
  BY RowsStep DEF ListedParts
<1>2. \A r \in parted' : pc'[r] \in {"record", "failed"}
  BY DEF HistoryInv, TypeOK, Next, RequestStep, Terminated, vars, stores, Validate, Stage,
         SpiceDBReturns, SpiceDBRejects, SpiceDBFails, LateWriteApplies, Commit, CommitFails,
         RecordFailure, Rollback, GoTo, HasLock
<1>3. \A update \in late' : \A e \in update.touch \union update.remove : Lost(e)'
  <2>1. CASE late' \subseteq late
    BY <1>1, <2>1 DEF HistoryInv
  <2>2. ASSUME NEW r \in Requests, HasLock(r), late' = late \union {Update(r)}, r \in parted'
        PROVE  \A update \in late' : \A e \in update.touch \union update.remove : Lost(e)'
    <3>1. \A e \in Update(r).touch \union Update(r).remove : e \in Concerns(r)
      BY <2>2, UpdateConcerns
    <3>2. \A e \in Update(r).touch \union Update(r).remove : Lost(e)'
      BY <1>1, <2>2, <3>1 DEF Lost, Concerns
    <3> QED
      BY <1>1, <2>2, <3>2 DEF HistoryInv
  <2> QED
    BY <2>1, <2>2, LateStep
<1>4. \A r \in Requests, x \in Documents : <<x>> \in rows'[r] => x \in op[r].document
  <2>1. ASSUME NEW r \in Requests, NEW x \in Documents, <<x>> \in Written(r)
        PROVE  x \in op[r].document
    <3>1. Lists(op[r]) \subseteq Listable /\ op[r].drop \subseteq Listable
      BY OpWellFormed DEF WellFormed, Listable, Lists
    <3>2. \A f \in Lists(op[r]) \union op[r].drop : Key(f) # <<x>>
      BY <3>1, KeyFacts
    <3>3. \A y : <<y>> = <<x>> => y = x
      OBVIOUS
    <3> QED
      BY <2>1, <3>2, <3>3 DEF Written, Lists
  <2>2. \A r \in Requests : rows'[r] \subseteq rows[r] \/ rows'[r] = Written(r)
    BY DEF Next, RequestStep, Terminated, vars, stores, Validate, Stage, SpiceDBReturns, Rollback,
           SpiceDBRejects, SpiceDBFails, LateWriteApplies, Commit, CommitFails, RecordFailure, TypeOK
  <2> QED
    BY <2>1, <2>2 DEF HistoryInv
<1> QED
  BY <1>1, <1>2, <1>3, <1>4 DEF HistoryInv

\* Nothing that the last change is about moves: the relationship, its mirror row, or the
\* document it is the owner of.
Untouched(e) ==
  /\ e \in edges' <=> e \in edges
  /\ e \in Listable => (e \in mirror' <=> e \in mirror)
  /\ e \in OwnerEdges => docs'[Resource(e)] = docs[Resource(e)]

\* A request leaves alone what it does not concern.
LEMMA Uninvolved ==
  ASSUME Inv, ListedParts, HistoryInv, NEW s \in Requests, RequestStep(s),
         NEW e \in Edges, e \notin Concerns(s)
  PROVE  Untouched(e)
<1> USE DEF Inv
<1>1. Reaches(op[s]) /\ Matches(op[s]) /\ WellFormed(op[s])
      /\ e \notin op[s].touch /\ ~Removes(op[s], e)
      /\ (e \in OwnerEdges => Resource(e) \in Documents /\ Resource(e) \notin op[s].document)
  <2>1. e \in OwnerEdges => Resource(e) \in Documents
    BY DEF OwnerEdges, Resource
  <2> QED
    BY <2>1, ConcernFacts
<1>2. CASE Validate(s) \/ Stage(s) \/ SpiceDBRejects(s) \/ CommitFails(s)
  BY <1>2 DEF Validate, Stage, SpiceDBRejects, CommitFails, stores, Untouched
<1>3. CASE SpiceDBReturns(s) \/ SpiceDBFails(s)
  <2>1. HasLock(s) /\ UNCHANGED <<mirror, docs>>
        /\ (edges' = edges \/ edges' = Applied(Update(s)))
    BY <1>3 DEF SpiceDBReturns, SpiceDBFails
  <2>2. e \notin Update(s).touch /\ e \notin Update(s).remove
    BY <2>1, UpdateConcerns
  <2> QED
    BY <2>1, <2>2 DEF Applied, Untouched
<1>4. CASE Commit(s)
  <2>1. /\ mirror' = {f \in mirror : Key(f) \notin rows[s]} \union Put(s)
        /\ docs' = [x \in Documents |-> IF <<x>> \in rows[s] THEN DocumentAfter(s, x) ELSE docs[x]]
        /\ edges' = edges
    BY <1>4 DEF Commit
  <2>2. e \notin Lists(op[s]) /\ Put(s) \subseteq Lists(op[s])
    BY <1>1 DEF Matches, Lists, Put
  <2>3. e \in Listable => Key(e) \notin rows[s]
    BY <1>1, <2>2 DEF ListedParts, RowsInv
  <2>4. e \in OwnerEdges => <<Resource(e)>> \notin rows[s]
    BY <1>1 DEF HistoryInv
  <2> QED
    BY <1>1, <2>1, <2>2, <2>3, <2>4 DEF Untouched
<1>5. CASE RecordFailure(s)
  BY <1>1, <1>5 DEF RecordFailure, Untouched
<1> QED
  BY <1>2, <1>3, <1>4, <1>5 DEF RequestStep

\* Until r ends, and ever since it began, nobody else can do anything about e.
Alone(r, e) ==
  \A s \in Requests \ {r} :
    e \in Concerns(s) => s \in before[r] \ parted \/ pc[s] \in {"validate", "refused"}

\* What a request that is alone with a relationship has found and done so far.
Words(r, e) ==
  /\ pc[r] \in {"stage", "write", "commit"} /\ e \in OwnerEdges =>
       docs[Resource(e)] = loaded[r][Resource(e)]
  /\ pc[r] \in {"write", "commit"} =>
       /\ e \in Listable /\ e \in mirror /\ e \notin Lists(op[r]) => Key(e) \in rows[r]
       /\ e \in op[r].insert /\ Key(e) \notin rows[r] => e \in mirror
       /\ e \in OwnerEdges =>
            \/ <<Resource(e)>> \in rows[r]
            \/ op[r].kind # "ingest" /\ docs[Resource(e)].status = "deleted"
  /\ pc[r] = "write" /\ call[r] # 1 /\ e \in op[r].remove[1] => e \notin edges
  /\ pc[r] \in {"commit", "done"} => (e \in edges <=> e \in op[r].touch)
  /\ pc[r] = "done" => (e \in Mirrored <=> e \in op[r].touch)

WordInv == \A r \in Requests : \A e \in Concerns(r) : Alone(r, e) => Words(r, e)

\* Once somebody else can do something about e, this stays so until r begins anew.
LEMMA AloneStep ==
  ASSUME Inv, ListedParts, [Next]_vars, NEW r \in Requests, NEW e, Alone(r, e)', ~Validate(r)
  PROVE  Alone(r, e)
<1> USE DEF Inv
<1>1. op' = op /\ parted \subseteq parted'
  BY RowsStep DEF ListedParts
<1>2. before'[r] = before[r]
  BY DEF TypeOK, Next, RequestStep, Terminated, vars, stores, Validate, Stage,
         SpiceDBReturns, SpiceDBRejects, SpiceDBFails, LateWriteApplies, Commit, CommitFails,
         RecordFailure
<1>3. \A s \in Requests : pc'[s] \in {"validate", "refused"} => pc[s] \in {"validate", "refused"}
  BY DEF TypeOK, Next, RequestStep, Terminated, vars, stores, Validate, Stage,
         SpiceDBReturns, SpiceDBRejects, SpiceDBFails, LateWriteApplies, Commit, CommitFails,
         RecordFailure, Rollback, GoTo
<1> QED
  BY <1>1, <1>2, <1>3 DEF Alone, Concerns

\* What r has found and done stays true while nothing about e moves, and r does not.
LEMMA WordsKept ==
  ASSUME Inv, Inv', op' = op, NEW r \in Requests, NEW e \in Concerns(r), Words(r, e), Untouched(e),
         pc'[r] = pc[r], loaded'[r] = loaded[r], rows'[r] = rows[r], call'[r] = call[r]
  PROVE  Words(r, e)'
<1>1. e \in Edges
  BY ConcernFacts DEF Inv
<1>2. e \in Mirrored' <=> e \in Mirrored
  <2>1. mirror \subseteq Listable /\ mirror' \subseteq Listable /\ docs \in DocRows /\ docs' \in DocRows
    BY DEF Inv, TypeOK, Listable
  <2>2. e \in Mirrored <=>
          \/ e \in Listable /\ e \in mirror
          \/ /\ e \in OwnerEdges /\ docs[Resource(e)].status # "deleted"
             /\ docs[Resource(e)].owner = Subject(e)
    BY <1>1, <2>1, RowFacts DEF Mirrored, Live
  <2>3. e \in Mirrored' <=>
          \/ e \in Listable /\ e \in mirror'
          \/ /\ e \in OwnerEdges /\ docs'[Resource(e)].status # "deleted"
             /\ docs'[Resource(e)].owner = Subject(e)
    BY <1>1, <2>1, RowFacts DEF Mirrored, Live
  <2> QED
    BY <2>2, <2>3 DEF Untouched
<1>3. e \in op[r].insert => e \in Listable
  BY OpWellFormed DEF Inv, WellFormed, Listable
<1> QED
  BY <1>2, <1>3 DEF Words, Untouched

\* The steps of others.
LEMMA OthersWords ==
  ASSUME Inv, Inv', ListedParts, HistoryInv, [Next]_vars, NEW r \in Requests, NEW s \in Requests \ {r},
         RequestStep(s), NEW e \in Concerns(r), Alone(r, e)', Words(r, e)
  PROVE  Words(r, e)'
<1> USE DEF Inv
<1>1. op' = op /\ parted \subseteq parted' /\ e \in Edges
  BY RowsStep, ConcernFacts DEF ListedParts
<1>2. pc'[r] = pc[r] /\ loaded'[r] = loaded[r] /\ rows'[r] = rows[r] /\ call'[r] = call[r]
      /\ before'[r] = before[r]
  BY DEF RequestStep, TypeOK, stores, Validate, Stage, SpiceDBReturns, SpiceDBRejects,
         SpiceDBFails, Commit, CommitFails, RecordFailure, Rollback, GoTo
<1>3. Untouched(e)
  <2>1. CASE e \notin Concerns(s)
    BY <1>1, <2>1, Uninvolved
  <2>2. CASE e \in Concerns(s)
    <3>1. s \notin before[r]
      BY DEF ListedParts, BeforeInv, Ended, RequestStep, Validate, Stage, SpiceDBReturns, SpiceDBRejects,
             SpiceDBFails, Commit, CommitFails, RecordFailure, HasLock
    <3>2. pc'[s] \in {"validate", "refused"}
      BY <1>1, <1>2, <2>2, <3>1 DEF Alone, Concerns
    <3>3. Validate(s)
      BY <3>2 DEF RequestStep, TypeOK, Validate, Stage, SpiceDBReturns, SpiceDBRejects, HasLock,
             SpiceDBFails, Commit, CommitFails, RecordFailure, Rollback, GoTo
    <3> QED
      BY <3>3 DEF Validate, stores, Untouched
  <2> QED
    BY <2>1, <2>2
<1> QED
  BY <1>1, <1>2, <1>3, WordsKept

\* What arrives late.
LEMMA LateWords ==
  ASSUME Inv, Inv', ListedParts, HistoryInv, [Next]_vars, NEW r \in Requests, pc[r] \notin {"record", "failed"},
         NEW update \in late, LateWriteApplies(update),
         NEW e \in Concerns(r), Alone(r, e), Words(r, e)
  PROVE  Words(r, e)'
<1>1. e \notin update.touch /\ e \notin update.remove
  <2> SUFFICES ASSUME Lost(e) PROVE FALSE
    BY DEF HistoryInv
  <2>1. PICK s \in parted : e \in Concerns(s)
    BY DEF Lost
  <2>2. s \in Requests /\ pc[s] \in {"record", "failed"}
    BY DEF HistoryInv, Inv, TypeOK
  <2> QED
    BY <2>1, <2>2 DEF Alone
<1>2. Untouched(e)
  BY <1>1 DEF LateWriteApplies, Untouched, Applied
<1> QED
  BY <1>2, WordsKept DEF LateWriteApplies

\* The request's own steps.  First what it reads, and the rows it writes.
LEMMA StageWords ==
  ASSUME Inv, NEW r \in Requests, Validate(r) \/ Stage(r), NEW e \in Concerns(r), Words(r, e)
  PROVE  Words(r, e)'
<1> USE DEF Inv
<1>1. /\ Reaches(op[r]) /\ Matches(op[r])
      /\ e \in Listable => e \in op[r].touch \/ Removes(op[r], e)
      /\ e \in OwnerEdges => Resource(e) \in op[r].document
  <2>1. Reaches(op[r]) /\ Matches(op[r])
    BY ConcernFacts
  <2>2. e \in Listable => e \in op[r].touch \/ Removes(op[r], e)
    BY ConcernFacts, KeyFacts
  <2>3. e \in OwnerEdges => Resource(e) \in op[r].document
    BY ConcernFacts
  <2> QED
    BY <2>1, <2>2, <2>3
<1>2. CASE Validate(r)
  <2>1. pc'[r] \in {"stage", "refused"} /\ docs' = docs
    BY <1>2 DEF Validate, GoTo, TypeOK, stores
  <2>2. e \in OwnerEdges => loaded'[r] = docs
    BY <1>1, <1>2 DEF Validate, TypeOK
  <2> QED
    BY <2>1, <2>2 DEF Words
<1>3. CASE Stage(r)
  <2>1. /\ pc[r] = "stage" /\ pc'[r] = "write" /\ call'[r] = 1 /\ rows'[r] = Written(r)
        /\ UNCHANGED <<mirror, docs, edges, loaded, op>>
    BY <1>3 DEF Stage, GoTo, TypeOK, PlanInv, stores
  <2>2. ASSUME e \in Listable, e \in mirror, e \notin Lists(op[r]) PROVE Key(e) \in Written(r)
    <3>1. e \notin op[r].touch /\ e \notin OwnerEdges /\ e \notin op[r].put
      BY <1>1, <2>2, KeyFacts DEF Matches, Lists
    <3>2. e \in op[r].drop \/ \E f \in op[r].put : Key(e) = Key(f)
      BY <1>1, <2>2, <3>1 DEF Reaches
    <3> QED
      BY <2>2, <3>2 DEF Written
  <2>3. ASSUME e \in OwnerEdges
        PROVE  \/ <<Resource(e)>> \in Written(r)
               \/ op[r].kind # "ingest" /\ docs[Resource(e)].status = "deleted"
    <3>1. docs[Resource(e)] = loaded[r][Resource(e)]
      BY <2>1, <2>3 DEF Words
    <3>2. Resource(e) \in op[r].document
      BY <1>1, <2>3
    <3> QED
      BY <3>1, <3>2 DEF Written
  <2>4. e \in OwnerEdges => docs[Resource(e)] = loaded[r][Resource(e)]
    BY <2>1 DEF Words
  <2>5. e \in op[r].insert /\ Key(e) \notin Written(r) => e \in mirror
    BY DEF Written
  <2> QED
    BY <2>1, <2>2, <2>3, <2>4, <2>5 DEF Words
<1> QED
  BY <1>2, <1>3

\* A call that returns: after the last one, the relationship is there if and only if the
\* request creates it.
LEMMA ReturnWords ==
  ASSUME Inv, ListedParts, NEW r \in Requests, SpiceDBReturns(r), NEW e \in Concerns(r), Words(r, e)
  PROVE  Words(r, e)'
<1> USE DEF Inv
<1>1. /\ WellFormed(op[r]) /\ pc[r] = "write" /\ HasLock(r)
      /\ \/ e \in op[r].touch \/ Removes(op[r], e)
         \/ e \in OwnerEdges /\ op[r].kind = "ingest" /\ Resource(e) \in op[r].document
  <2>1. WellFormed(op[r]) /\ pc[r] = "write" /\ HasLock(r)
    BY ConcernFacts DEF SpiceDBReturns, HasLock
  <2>2. \/ e \in op[r].touch \/ Removes(op[r], e)
        \/ e \in OwnerEdges /\ op[r].kind = "ingest" /\ Resource(e) \in op[r].document
    BY ConcernFacts
  <2> QED
    BY <2>1, <2>2
<1>2. /\ edges' = (edges \ Update(r).remove) \union op[r].touch /\ call'[r] = call[r] + 1
      /\ UNCHANGED <<mirror, docs, loaded, rows, op>>
  BY <1>1, CallFacts DEF SpiceDBReturns, Applied, TypeOK
<1>3. CASE call[r] < Len(op[r].remove)
  <2>1. pc'[r] = "write"
    BY <1>1, <1>3 DEF SpiceDBReturns
  <2>2. call[r] = 1 /\ Len(op[r].remove) = 2
    <3>1. \A n \in {1, 2} : \A c \in 1 .. n : c < n => c = 1 /\ n = 2
      OBVIOUS
    <3> QED
      BY <1>1, <1>3, <3>1, CallFacts
  <2>3. op[r].touch = {} /\ Update(r).remove = op[r].remove[1]
    BY <1>1, <2>2, CallFacts
  <2> QED
    BY <1>1, <1>2, <2>1, <2>3 DEF Words
<1>4. CASE ~(call[r] < Len(op[r].remove))
  <2>1. pc'[r] = "commit"
    BY <1>4 DEF SpiceDBReturns, GoTo, TypeOK
  <2>2. ASSUME e \notin op[r].touch PROVE e \notin edges'
    <3>1. CASE op[r].kind = "ingest"
      <4>1. PICK x \in Documents, d \in Departments :
              /\ op[r].document = {x} /\ op[r].owner = {d}
              /\ op[r].touch = {<<x, "owner_department", d>>}
        BY <1>1, <3>1 DEF WellFormed
      <4>2. e \in OwnerEdges /\ Resource(e) = x
        BY <1>1, <2>2, <3>1, <4>1 DEF Removes
      <4>3. e = <<x, "owner_department", Subject(e)>>
        BY <4>2, EdgeParts DEF Edges
      <4>4. Subject(e) # d
        BY <2>2, <4>1, <4>3
      <4>5. e \in edges => e \in Update(r).remove
        BY <3>1, <4>1, <4>2, <4>4 DEF Update, OwnersToReplace
      <4> QED
        BY <1>2, <2>2, <4>5
    <3>2. CASE op[r].kind # "ingest"
      <4>1. PICK i \in 1 .. Len(op[r].remove) : e \in op[r].remove[i]
        BY <1>1, <2>2, <3>2 DEF Removes
      <4>2. CASE i = call[r]
        BY <1>1, <1>2, <2>2, <3>2, <4>1, <4>2, CallFacts
      <4>3. CASE i # call[r]
        <5>1. \A n \in {1, 2} : \A c, j \in 1 .. n : ~(c < n) /\ j # c => j = 1 /\ c # 1
          OBVIOUS
        <5>2. i = 1 /\ call[r] # 1
          BY <1>1, <1>4, <4>1, <4>3, <5>1, CallFacts
        <5> QED
          BY <1>1, <1>2, <2>2, <4>1, <5>2 DEF Words
      <4> QED
        BY <4>2, <4>3
    <3> QED
      BY <3>1, <3>2
  <2>3. e \in edges' <=> e \in op[r].touch
    BY <1>2, <2>2
  <2> QED
    BY <1>1, <1>2, <2>1, <2>3 DEF Words
<1> QED
  BY <1>3, <1>4

\* The commit: the row is there if and only if the request creates the relationship.
LEMMA CommitWords ==
  ASSUME Inv, Inv', NEW r \in Requests, Commit(r), NEW e \in Concerns(r), Words(r, e)
  PROVE  Words(r, e)'
<1> USE DEF Inv
<1>1. Reaches(op[r]) /\ Matches(op[r]) /\ WellFormed(op[r]) /\ e \in Edges
      /\ (e \in OwnerEdges => Resource(e) \in op[r].document /\ Resource(e) \in Documents)
  <2>1. e \in OwnerEdges => Resource(e) \in Documents
    BY DEF OwnerEdges, Resource
  <2> QED
    BY <2>1, ConcernFacts
<1>2. /\ pc[r] = "commit" /\ pc'[r] = "done" /\ edges' = edges /\ op' = op
      /\ mirror' = {f \in mirror : Key(f) \notin rows[r]} \union Put(r)
      /\ docs' = [x \in Documents |-> IF <<x>> \in rows[r] THEN DocumentAfter(r, x) ELSE docs[x]]
  BY DEF Commit, GoTo, TypeOK
<1>3. ASSUME e \in Listable
      PROVE  e \in mirror' <=> e \in op[r].touch
  <2>1. e \in op[r].touch <=> e \in Lists(op[r])
    BY <1>1, <1>3 DEF Matches
  <2>2. e \in mirror /\ e \notin Lists(op[r]) => Key(e) \in rows[r]
    BY <1>2, <1>3 DEF Words
  <2>3. e \in op[r].insert /\ Key(e) \notin rows[r] => e \in mirror
    BY <1>2 DEF Words
  <2>4. e \in Lists(op[r]) => e \in Put(r) \/ (e \in op[r].insert /\ Key(e) \notin rows[r])
    BY DEF Lists, Put
  <2>5. e \in Put(r) => e \in Lists(op[r])
    BY DEF Lists, Put
  <2> QED
    BY <1>2, <2>1, <2>2, <2>3, <2>4, <2>5
<1>4. ASSUME e \in OwnerEdges
      PROVE  /\ docs'[Resource(e)].status # "deleted" /\ docs'[Resource(e)].owner = Subject(e)
               <=> e \in op[r].touch
  <2> DEFINE x == Resource(e)
  <2>1. /\ docs[x] = loaded[r][x] /\ x \in Documents /\ x \in op[r].document
        /\ \/ <<x>> \in rows[r]
           \/ op[r].kind # "ingest" /\ docs[x].status = "deleted"
    <3>1. docs[x] = loaded[r][x]
      BY <1>2, <1>4 DEF Words
    <3>2. \/ <<Resource(e)>> \in rows[r]
          \/ op[r].kind # "ingest" /\ docs[Resource(e)].status = "deleted"
      <4>1. pc[r] \in {"write", "commit"} /\ Words(r, e)
        BY <1>2
      <4> QED
        BY <1>4, <4>1 DEF Words
    <3> QED
      BY <1>1, <1>4, <3>1, <3>2
  <2>2. docs'[x] = IF <<x>> \in rows[r] THEN DocumentAfter(r, x) ELSE docs[x]
    BY <1>2, <2>1
  <2>3. CASE op[r].kind = "ingest"
    <3>1. PICK d \in Departments :
            op[r].owner = {d} /\ op[r].touch = {<<x, "owner_department", d>>}
      BY <1>1, <2>1, <2>3 DEF WellFormed
    <3>2. docs'[x].status = "indexed" /\ docs'[x].owner = d
      BY <2>1, <2>2, <2>3, <3>1 DEF DocumentAfter
    <3>3. e = <<x, "owner_department", Subject(e)>>
      BY <1>4, EdgeParts DEF Edges
    <3>4. e \in op[r].touch <=> Subject(e) = d
      BY <3>1, <3>3, EdgeParts
    <3> QED
      BY <3>2, <3>4
  <2>4. CASE op[r].kind # "ingest"
    <3>1. op[r].kind = "delete" /\ op[r].touch = {}
      BY <1>1, <2>1, <2>4 DEF Reaches
    <3>2. docs'[x].status = "deleted"
      BY <2>1, <2>2, <2>4 DEF DocumentAfter
    <3> QED
      BY <3>1, <3>2
  <2> QED
    BY <2>3, <2>4
<1>5. e \in Mirrored' <=> e \in op[r].touch
  <2>1. mirror' \subseteq Listable /\ docs' \in DocRows
    BY DEF TypeOK, Listable
  <2>2. e \in Mirrored' <=>
          \/ e \in Listable /\ e \in mirror'
          \/ /\ e \in OwnerEdges /\ docs'[Resource(e)].status # "deleted"
             /\ docs'[Resource(e)].owner = Subject(e)
    BY <1>1, <2>1, RowFacts DEF Mirrored, Live
  <2>3. e \in Listable <=> e \notin OwnerEdges
    BY <1>1, KeyFacts
  <2> QED
    BY <1>3, <1>4, <2>2, <2>3
<1>6. e \in edges' <=> e \in op[r].touch
  BY <1>2 DEF Words
<1> QED
  BY <1>2, <1>5, <1>6 DEF Words

\* At first no request has begun.
LEMMA InitWords == Init => HistoryInv /\ WordInv
  BY DEF Init, HistoryInv, WordInv, Words

\* Whoever has the last word on a relationship, and has succeeded, is obeyed by both stores,
\* whatever else overlaps, fails or arrives late.
THEOREM LastWordHolds == Spec => []LastChangeWins
<1> DEFINE All == Inv /\ ListedParts /\ HistoryInv /\ WordInv
<1>1. All /\ Inv' /\ [Next]_vars => HistoryInv' /\ WordInv'
  <2> SUFFICES ASSUME All, Inv', [Next]_vars PROVE HistoryInv' /\ WordInv'
    OBVIOUS
  <2>1. HistoryInv'
    BY HistoryStep
  <2>2. op' = op
    BY RowsStep DEF Inv, ListedParts
  <2> SUFFICES ASSUME NEW r \in Requests, NEW e \in Concerns(r), Alone(r, e)'
               PROVE  Words(r, e)'
    BY <2>1, <2>2 DEF WordInv, Concerns
  <2>3. ~Validate(r) => Words(r, e)
    BY AloneStep DEF WordInv
  <2>4. CASE Validate(r)
    <3>1. Words(r, e)
      BY <2>4 DEF Validate, Words, Inv, TypeOK
    <3> QED
      BY <2>4, <3>1, StageWords
  <2>5. ASSUME ~Validate(r), RequestStep(r) PROVE Words(r, e)'
    <3>1. CASE Stage(r) \/ SpiceDBReturns(r) \/ Commit(r)
      BY <2>3, <2>5, <3>1, StageWords, ReturnWords, CommitWords
    <3>2. CASE SpiceDBRejects(r) \/ SpiceDBFails(r) \/ CommitFails(r) \/ RecordFailure(r)
      <4>1. pc'[r] \in {"record", "failed"}
        BY <3>2 DEF SpiceDBRejects, SpiceDBFails, CommitFails, RecordFailure, Rollback, GoTo, Inv, TypeOK
      <4> QED
        BY <4>1 DEF Words
    <3> QED
      BY <2>5, <3>1, <3>2 DEF RequestStep
  <2>6. ASSUME ~Validate(r), NEW s \in Requests \ {r}, RequestStep(s) PROVE Words(r, e)'
    BY <2>3, <2>6, OthersWords
  <2>7. ASSUME ~Validate(r), NEW update \in late, LateWriteApplies(update) PROVE Words(r, e)'
    <3>1. CASE pc[r] \in {"record", "failed"}
      BY <2>7, <3>1 DEF LateWriteApplies, Words
    <3>2. CASE pc[r] \notin {"record", "failed"}
      BY <2>3, <2>7, <3>2, AloneStep, LateWords
    <3> QED
      BY <3>1, <3>2
  <2>8. CASE UNCHANGED vars
    <3>1. ~Validate(r) => Words(r, e)'
      BY <2>3, <2>8 DEF vars, Words, Mirrored, Live
    <3> QED
      BY <2>4, <3>1
  <2> QED
    BY <2>4, <2>5, <2>6, <2>7, <2>8 DEF Next, Terminated
<1>2. All => LastChangeWins
  <2> SUFFICES ASSUME All, Ended = Requests, NEW r \in Requests, NEW e \in Concerns(r), LastWord(r, e)
               PROVE  (e \in edges <=> e \in op[r].touch) /\ (e \in Mirrored <=> e \in op[r].touch)
    BY DEF LastChangeWins
  <2>1. Alone(r, e) /\ pc[r] = "done"
    BY DEF LastWord, Alone
  <2> QED
    BY <2>1 DEF WordInv, Words
<1> QED
  BY <1>1, <1>2, InitListed, InitWords, ListedStep, Invariance, PTL DEF Spec
-------------------------------------------------------------------------------
(* The rows and the checkpoint lock are taken in one order.                *)

\* Rows are held from their statements to the end of the transaction, and the checkpoint
\* lock, between two calls, by a request at SpiceDB.
HoldInv ==
  /\ \A r \in Requests : rows[r] # {} => pc[r] \in {"write", "commit"}
  /\ holder # NoRequest => pc[holder] = "write"

\* The request has a step that waits for nobody.
CanGoOn(r) ==
  \/ pc[r] \in {"validate", "commit"}
  \/ pc[r] = "stage" /\ WaitsFor(r) \intersect Locked(r) = {}
  \/ HasLock(r)
  \/ pc[r] = "record" /\ {<<x>> : x \in op[r].document} \intersect Locked(r) = {}

\* The most steps a request has left.
StepsLeft(r) ==
  CASE pc[r] = "validate" -> 5
    [] pc[r] = "stage" -> 4
    [] pc[r] = "write" -> 4 - call[r]
    [] pc[r] \in {"commit", "record"} -> 1
    [] OTHER -> 0

\* Who holds rows and the lock, in every reachable state.
LEMMA HoldInvariance == Spec => []HoldInv
<1>1. Init => HoldInv
  BY DEF Init, HoldInv
<1>2. ASSUME Inv, HoldInv, [Next]_vars PROVE HoldInv'
  <2> USE ServiceAssumption DEF Inv, TypeOK, HoldInv, GoTo
  <2>1. ASSUME NEW r \in Requests, RequestStep(r) PROVE HoldInv'
    <3>1. CASE Validate(r) \/ Stage(r)
      BY <1>2, <3>1 DEF Validate, Stage, stores
    <3>2. CASE SpiceDBReturns(r)
      BY <1>2, <3>2 DEF SpiceDBReturns, HasLock
    <3>3. CASE SpiceDBRejects(r) \/ SpiceDBFails(r)
      BY <1>2, <3>3 DEF SpiceDBRejects, SpiceDBFails, Rollback
    <3>4. CASE Commit(r) \/ CommitFails(r) \/ RecordFailure(r)
      BY <1>2, <3>4 DEF Commit, CommitFails, RecordFailure
    <3> QED
      BY <2>1, <3>1, <3>2, <3>3, <3>4 DEF RequestStep
  <2>2. UNCHANGED <<pc, rows, holder>> \/ \E r \in Requests : RequestStep(r)
    BY <1>2 DEF Next, LateWriteApplies, Terminated, vars
  <2> QED
    BY <1>2, <2>1, <2>2
<1> QED
  BY <1>1, <1>2, Invariance, PTL DEF Spec

\* Requests never wait for one another in a circle: rows are written before the
\* checkpoint lock is asked for, and whoever holds the lock waits for no row (the order in
\* PermissionService's docstring).  As long as one has not ended, one can go on.
THEOREM RequestsNeverStuck ==
  Spec => [](Ended # Requests => \E r \in Requests \ Ended : CanGoOn(r))
<1>1. ASSUME Inv, HoldInv, Ended # Requests PROVE \E r \in Requests \ Ended : CanGoOn(r)
  <2> SUFFICES ASSUME \A r \in Requests \ Ended : ~CanGoOn(r) PROVE FALSE
    OBVIOUS
  <2>1. \A r \in Requests : pc[r] \notin {"validate", "commit"}
    BY DEF Ended, CanGoOn
  <2>2. holder = NoRequest
    BY <1>1 DEF Inv, TypeOK, HoldInv, CanGoOn, HasLock, Ended
  <2>3. \A r \in Requests : pc[r] # "write"
    BY <2>2 DEF CanGoOn, HasLock, Ended
  <2>4. \A r \in Requests : rows[r] = {}
    BY <1>1, <2>1, <2>3 DEF HoldInv
  <2>5. \A r \in Requests : Locked(r) = {}
    BY <2>4 DEF Locked
  <2>6. PICK r \in Requests \ Ended : TRUE
    BY <1>1 DEF Ended
  <2>7. pc[r] \in {"stage", "record"}
    BY <1>1, <2>1, <2>3, <2>6 DEF Inv, TypeOK, PCs, Ended
  <2> QED
    BY <2>5, <2>6, <2>7 DEF CanGoOn
<1> QED
  BY <1>1, Invariance, HoldInvariance, PTL

\* A request does not go round in circles: each of its steps takes from the steps it has
\* left, a purge's second call included, and nothing else changes them.
THEOREM RequestsProgress ==
  Spec => [][\A r \in Requests :
               /\ StepsLeft(r)' <= StepsLeft(r)
               /\ RequestStep(r) => StepsLeft(r)' < StepsLeft(r)]_vars
<1>1. ASSUME Inv, NEW r \in Requests, RequestStep(r)
      PROVE  /\ StepsLeft(r)' < StepsLeft(r)
             /\ \A s \in Requests \ {r} : UNCHANGED <<pc[s], call[s]>>
  <2>1. pc \in [Requests -> PCs] /\ call \in [Requests -> 1 .. 3]
    BY <1>1 DEF Inv, TypeOK
  <2>2. ASSUME pc[r] = "write" PROVE call[r] \in {1, 2}
    <3>1. ASSUME NEW n \in {1, 2}, NEW i \in 1 .. n PROVE i \in {1, 2}
      OBVIOUS
    <3>2. Len(op[r].remove) \in {1, 2} /\ call[r] \in 1 .. Len(op[r].remove)
      BY <1>1, <2>2, OpWellFormed DEF Inv, PlanInv, WellFormed
    <3> QED
      BY <3>1, <3>2
  <2>3. CASE Validate(r) \/ Stage(r)
    <3>1. /\ UNCHANGED call
          /\ \/ pc[r] = "validate" /\ \E label \in {"stage", "refused"} : GoTo(r, label)
             \/ pc[r] = "stage" /\ call[r] = 1 /\ GoTo(r, "write")
      BY <1>1, <2>3 DEF Validate, Stage, Inv, PlanInv
    <3> QED
      BY <2>1, <3>1 DEF StepsLeft, GoTo
  <2>4. CASE SpiceDBReturns(r)
    <3>1. /\ pc[r] = "write" /\ call' = [call EXCEPT ![r] = call[r] + 1]
          /\ \/ call[r] < Len(op[r].remove) /\ UNCHANGED pc
             \/ GoTo(r, "commit")
      BY <2>4 DEF SpiceDBReturns, HasLock
    <3>2. call[r] \in {1, 2} /\ call'[r] = call[r] + 1
      BY <2>1, <2>2, <3>1
    <3>3. CASE call[r] < Len(op[r].remove) /\ UNCHANGED pc
      BY <2>1, <3>1, <3>2, <3>3 DEF StepsLeft
    <3>4. CASE GoTo(r, "commit")
      BY <2>1, <3>1, <3>2, <3>4 DEF StepsLeft, GoTo
    <3> QED
      BY <3>1, <3>3, <3>4
  <2>5. CASE SpiceDBRejects(r) \/ SpiceDBFails(r)
    <3>1. /\ pc[r] = "write" /\ UNCHANGED call
          /\ \E label \in {"record", "failed"} : GoTo(r, label)
      BY <2>5 DEF SpiceDBRejects, SpiceDBFails, HasLock, Rollback
    <3>2. call[r] \in {1, 2}
      BY <2>2, <3>1
    <3> QED
      BY <2>1, <3>1, <3>2 DEF StepsLeft, GoTo
  <2>6. CASE Commit(r) \/ CommitFails(r) \/ RecordFailure(r)
    BY <2>1, <2>6 DEF Commit, CommitFails, RecordFailure, StepsLeft, GoTo
  <2> QED
    BY <1>1, <2>3, <2>4, <2>5, <2>6 DEF RequestStep
<1>2. ASSUME Inv, [Next]_vars
      PROVE  [\A r \in Requests :
                /\ StepsLeft(r)' <= StepsLeft(r)
                /\ RequestStep(r) => StepsLeft(r)' < StepsLeft(r)]_vars
  <2>1. \A r \in Requests :
          /\ StepsLeft(r) \in Nat
          /\ UNCHANGED <<pc[r], call[r]>> => UNCHANGED StepsLeft(r)
    BY <1>2 DEF StepsLeft, Inv, TypeOK
  <2>2. ASSUME Inv' PROVE \A r \in Requests : StepsLeft(r)' \in Nat
    BY <2>2 DEF StepsLeft, Inv, TypeOK
  <2>3. Inv'
    BY <1>2, TypesStep, RoleStep, OwnerStep DEF Inv
  <2>4. UNCHANGED <<pc, call>> \/ \E r \in Requests : RequestStep(r)
    BY <1>2 DEF Next, LateWriteApplies, Terminated, vars
  <2>5. ASSUME NEW r \in Requests PROVE StepsLeft(r)' <= StepsLeft(r)
    <3>1. CASE UNCHANGED <<pc, call>>
      BY <2>1, <3>1
    <3>2. ASSUME NEW s \in Requests, RequestStep(s) PROVE StepsLeft(r)' <= StepsLeft(r)
      BY <1>1, <1>2, <2>1, <2>2, <2>3, <3>2
    <3> QED
      BY <2>4, <3>1, <3>2
  <2> QED
    BY <1>1, <1>2, <2>5
<1> QED
  BY <1>2, Invariance, PTL DEF Spec
===============================================================================
