------------------------- MODULE MCPermissionService -------------------------
(* One user, two departments, one document and three requests, each any of the *)
(* offered operations.  The runs that look for a race of two use two requests.  *)
EXTENDS PermissionService, TLC

CONSTANTS ann, legal, sales, report, r1, r2, r3

MCUsers == {ann}
MCDepartments == {legal, sales}
MCDocuments == {report}
MCRequests == {r1, r2, r3}
MCTwoRequests == {r1, r2}

\* Every operation.  Membership of one department and sharing with the other are
\* enough: the operations treat all pairs alike.
MCOffered ==
  {AddUserToDepartment(ann, legal, role) : role \in Roles}
    \union {IngestDocument(report, legal, FALSE), IngestDocument(report, sales, TRUE)}
    \union {RemoveUserFromDepartment(ann, legal),
            ShareDocumentWithDepartment(report, sales),
            UnshareDocumentWithDepartment(report, sales),
            GrantDocumentToUser(report, ann),
            RevokeDocumentFromUser(report, ann),
            DeactivateUser(ann),
            DeleteDocument(report)}

\* A manager with a personal grant, and a document that is not shared yet.
MCInit ==
  /\ Init
  /\ docs[report].owner = legal
  /\ mirror = {<<legal, "manager", ann>>, <<report, "viewer", ann>>}

MCSpec == MCInit /\ [][Next]_vars

\* Requests differ only in the operation they draw.
RequestSymmetry == Permutations(Requests)
===============================================================================
