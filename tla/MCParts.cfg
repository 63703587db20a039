CONSTANTS
  ChunkSize = 6
  Overlap = 2
  MaxTokens = 12
  Documents = {x1, x2, x3, x4}
  Limit = 3
  MaxPage = 2
  MaxResults = 6
  RerankerEnabled = TRUE
  TopK = 2
  Floor = 2
  Scores = {1, 2, 3}
  MaxCandidates = 4
  Keys = {k1, k2, k3}
  Logins = {l1, l2}
  MaxFailures = 2
  Window = 1
  MaxKeys = 2
  Sessions = {s1, s2}
  Users = {u1, u2}
  Seconds = {1, 2}
  None = None
  Ttl = 1
  MaxFiles = 1
  MaxChanges = 2
SPECIFICATION Spec
INVARIANTS
  ChunkTypeOK
  NothingLost
  EdgesAtWords
  PassagesIntact
  PagingTypeOK
  PassagesTypeOK
  KeptAreBest
  CitationsMatch
  ThrottleTypeOK
  WindowIsExact
  FailuresBounded
  ChatIsOwn
  
PROPERTIES
  PagingIsAtomic
  LookupEnds
