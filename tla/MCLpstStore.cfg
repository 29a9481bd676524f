SPECIFICATION MCSpec
CONSTANTS
  v1 = v1
  v2 = v2
  NFiles = 2
  LoadCountMax = 2
  Values = {v1, v2}
  Garbage = Garbage
  Compiled <- MCCompiled
  Defaults <- MCDefaults
  Fitting <- MCFitting
  CrashLog = 2
  Unmarked = {1}
  GenModulus = 5
  MaxGeneration = 3
  NoImage = NoImage
  NoBank = NoBank
  Names <- MCNames
  ScopeOf <- MCScopes
  Seeds <- MCSeeds
  SlotMax = 2
  SlotCap = 2
  PayloadMax = 3
  Texts <- MCTexts
  DriverMax = 1
  StageMax = 2
  CommitMax = 2
  StoreCap = 4
  FileMax = 2
  Stage2 = 1
  StoreLba = 4
  KernelSizes = {0, 1, 2, 3}
  MaxSteps = 4
INVARIANTS
  CleanMeansDurable
  UpdatesAreKept
PROPERTIES
  StoresAtomically
  AcknowledgedMeansRestored
  ReportsAreTrue
CHECK_DEADLOCK FALSE
