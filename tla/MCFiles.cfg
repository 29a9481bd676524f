SPECIFICATION MCSpec
CONSTANTS
  Slots <- MCSlots
  Names <- MCNames
  SlotNames <- MCSlotNames
  SlotName <- MCSlotName
  Home <- MCHome
  Cap <- MCCap
  Data <- MCData
  Size <- MCSize
  Nothing = "none"
  Default = "old"
  Bundles <- MCBundles
  ReadOnly = {"mine"}
  UndoFiles = 2
  UndoBytes = 2
INVARIANTS
  BootRestores
  InstallIsAtomic
  LogTellsTables
  ArchivesAreSound
PROPERTY DeletedStaysDeleted
CHECK_DEADLOCK FALSE
