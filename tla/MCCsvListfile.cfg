SPECIFICATION Spec
CONSTANTS
  pA = pA
  pAB = pAB
  EmptyPath = EmptyPath
  Blank = Blank
  Junk = Junk
  NoPath = NoPath
  NoId = NoId
  U32 = 6
  CustomFdidStart = 2
  Threads = {t1, t2}
  Paths <- MCPaths
  Spellings <- MCSpellings
  Norm <- MCNorm
  Cut <- MCCut
  SourceFiles <- CleanSources
  MaxLines = 3
  MaxCrashes = 1
INVARIANTS IInv AckedOnFile AckedResolves
PROPERTIES NeverRebound RegistrySpec FileIsMemory
