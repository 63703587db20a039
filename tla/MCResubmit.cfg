SPECIFICATION Spec
CONSTANTS
  long = long
  short = short
  draft = draft
  final = final
  r1 = r1
  r2 = r2
  r3 = r3
  r4 = r4
  Nothing = Nothing
  Pages = {1, 2}
  Contents <- MCContents
  ChunkCount <- MCChunkCount
  Titles = {draft, final}
  Requests <- MCRequests
  Offered <- MCOffered
SYMMETRY RequestSymmetry
INVARIANT
  ReingestHeals
