SPECIFICATION MCFairSpec
CONSTANTS
  left = left
  right = right
  Nodes <- MCNodes
  InboxDepth = 2
  PeerMax = 2
  MaxTasks = 1
  MaxUserSends = 2
  MaxDuplicates = 1
  MaxRequests = 2
  ReqLen = 2
  RespLen = 2
  PeerMss = 2
  RecvCap = 1
  Attempts = 2
  IdleMax = 1
  CloseTries = 1
  MaxFaults = 1
  MaxFlight = 1
INVARIANTS
  InboxIsFifo
  AnswerIsKept
  BodyIsDecoded
  SessionIsSafe
PROPERTIES
  WaitsEnd
CHECK_DEADLOCK FALSE
