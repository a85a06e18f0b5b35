SPECIFICATION Spec
CONSTANTS
  Projects <- MCProjects
  SyncIds <- MCSyncIds
  Sessions <- MCSessions
  Texts <- MCTexts
  Names <- MCNames
  Start <- MCStart
  RawSeeds = {"phrase", "short"}
  Normalized <- MCNormalized
  TooShort = TooShort
  None = None
  Torn = Torn
  MaxRow = 9
  MaxWrites = 2
  MaxExports = 1
  MaxImports = 2
  MaxCrashes = 1
INVARIANTS ImportNeverRefused ImportedIsOffered
PROPERTIES RestoreIsFaithful MergeKeepsBoth
CHECK_DEADLOCK FALSE
