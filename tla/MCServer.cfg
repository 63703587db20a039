CONSTANTS
  Requests = {r1, r2, r3}
  PoolSize = 3
  CheckpointPool = 2
  EvalSlots = 1
SPECIFICATION ServerSpec
INVARIANTS
  ServerTypeOK
  OneRowPerQuestion
  ScoresLostOnlyWithWarning
PROPERTIES
  RequestsEnd
  ShutdownEnds
