CONSTANTS
  d1 = d1
  d2 = d2
  x1 = x1
  x2 = x2
  x3 = x3
  Departments = {d1, d2}
  Documents = {x1, x2, x3}
  Chunks <- MCChunks
  Questions = {q1}
  InitialGraphs <- MCInitialGraphs
  MaxPermitted = 2
  Candidates = 3
  TopK = 1
  MaxRevisions = 3

SPECIFICATION Spec

INVARIANTS
  TypeOK
  OneSnapshot
  DeletedStaysOut
  CompleteBelowCap
