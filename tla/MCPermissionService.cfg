SPECIFICATION MCSpec
CONSTANTS
  ann = ann
  legal = legal
  sales = sales
  report = report
  r1 = r1
  r2 = r2
  r3 = r3
  NoRequest = NoRequest
  Users <- MCUsers
  Departments <- MCDepartments
  Documents <- MCDocuments
  Requests <- MCRequests
  Offered <- MCOffered
SYMMETRY RequestSymmetry
INVARIANTS
  TypeOK
  OneRolePerPair
  SingleOwner
  EdgesAreListed
  LastChangeWins
