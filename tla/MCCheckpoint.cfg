SPECIFICATION FairSpec
CONSTANTS
  grant = grant
  revoke = revoke
  purge = purge
  chat = chat
  NoRow = NoRow
  NoOne = NoOne
  Writers <- MCWriters
  Readers <- MCReaders
  Calls <- MCCalls
INVARIANTS
  TypeOK
  OneWriterAtSpiceDB
  AckedWriteIsVisible
PROPERTIES
  TokenNeverMovesBack
  KeepsPromise
  WritesEnd
