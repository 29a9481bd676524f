SPECIFICATION MCSpec
CONSTANTS
  MaxTasks = 2
  OsLevel = 2
  DefaultLevel = 1
  AgeCap = 1
  AgeSpan = 2
  WaitMax = 2
  HistoryMax = 2
  IdModulus = 3
  SeqModulus = 5
  LogWraps = FALSE
  NoPacket = NoPacket
  PollBudget <- MCBudget
  Others <- MCOthers
  Sizes <- MCSizes
  MaxArrivals = 4
  RxRing = 2
INVARIANTS
  DeliveredInOrder
PROPERTIES
  TasksInOrder
  WaitingIsServed
