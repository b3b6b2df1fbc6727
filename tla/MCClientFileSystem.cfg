SPECIFICATION CfsSpec
CONSTANTS
  pA = pA
  pB = pB
  NoPath = NoPath
  NoId = NoId
  U32 = 5
  CustomFdidStart = 2
  Threads = {t1, t2}
  Paths <- MCPaths
  Kinds = {"Mpq", "Casc"}
  Persistent = TRUE
  Listed <- OfficialListed
  StoredIds = {0}
  StoredPaths <- OnlyA
INVARIANTS CfsInv IdIsStable
PROPERTY AddedIsServed
