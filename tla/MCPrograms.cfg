SPECIFICATION MCSpec
CONSTANTS
  Place <- MCPlace
  Libs = {"lib", "other"}
  Programs <- MCStarts
  Profiles <- MCProfiles
  Defaults <- MCDefaults
  BoxNames = {"sealed", "mine"}
  BoxMax = 2
  FdMax = 2
  HandleMax = 1
  KeyMax = 3
  Depth = 2
  PayloadMax = 1
  Messages = {1, 2}
  PortIds = {0}
  Keys = {"k"}
  MaxSteps = 5
  Width = 4
  Height = 6
  HasBackbuffer = TRUE
  Spots <- MCSpots
  Places <- MCPlaces
  Store <- MCStore
  MaxInputs = 3
INVARIANTS
  MachineIsSound
  AppsAreSound
  ProgramsAreConfined
PROPERTIES
  EveryRunEnds
  ScreenIsTrue
CHECK_DEADLOCK FALSE
