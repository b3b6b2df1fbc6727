SPECIFICATION PDSpec
CONSTANTS
  pA = pA
  pB = pB
  Absent = Absent
  Threads = {t1, t2}
  Paths <- MCPaths
  Names <- MCNames
  Canon <- MCCanon
  Native <- MCNative
  Contents <- MCContents
  MaxOps = 3
INVARIANT PDInv
PROPERTIES CleanReadExact NeverMissed
