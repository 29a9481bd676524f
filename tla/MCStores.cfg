SPECIFICATION MCSpec
CONSTANTS
 Drives = {"Z"}
 Names = {"a", "b"}
 Texts <- MCTexts
 MaxFiles = 2
 FileCap = 1
 Keys = {"k", "l"}
 BootKey = "k"
 FaultMax = 2
 TurnMax = 2

 Simple = {"priority"}
 Profiles = {"normal", "awakening"}
 Themes = {"classic", "night"}
 Colors = {"dark", "red"}
 Modes = {"grid", "plain", "bmp"}
 ProfileNames = {"p", "q", "r"}
 ProfileMax = 2
 Theme0 = "classic"
 Color0 = "dark"
 MaxCommands = 4
CHECK_DEADLOCK FALSE
INVARIANTS
  ReadsAsWritten
  ReturnsToSaved
PROPERTY LoaderFinishes
