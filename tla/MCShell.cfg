SPECIFICATION MCSpec
CONSTANTS
  Lines <- MCLines
  KmoFiles <- MCKmoFiles
  Seeds <- MCSeeds
  Kept = {"theme"}
  Loose = {"bright"}
  Values = {0, 1}
  KmoMax = 1
  DepthMax = 1
  QueueMax = 1
  PathNames = {"n", "big"}
  Chars = {"a", "x", "lf"}
  Built <- MCBuilt
  FreeSlots = 2
  SlotCap = 2
  Stores <- MCStores
  StoreMax = 1
  StoreCap = 2
  HiddenMax = 1
  DeletedMax = 1
  Words <- MCWords
  MaxCommands = 4
INVARIANTS
  LinesEndClean
  ClipsAreKept
  FilesAreAsSaid
PROPERTY EditsLines
CHECK_DEADLOCK FALSE
