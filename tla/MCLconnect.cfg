SPECIFICATION MCSpec
CONSTANTS
  lender = lender
  borrower = borrower
  Nodes = {lender, borrower}
  Plain = {"clip"}
  Input = {"keyboard"}
  Clip = "clip"
  PeerMax = 2
  LogDepth = 2
  LenderCommands = 3
  BorrowerCommands = 1
  MaxCommands <- MCCommands
  MaxDuplicates = 1
  Servers <- MCServers
  Stations = {12, 22, 13, 53}
  Routers = {12, 22}
  Resolvers = {31, 12}
  Records <- MCRecords
  Literals <- MCLiterals
  Defaults <- MCDefaults
  DirectTo = 51
  Peers = {53, 13}
  RxMax = 2
  MaxJobs = 2
  MaxDoubles = 1
INVARIANTS InputIsGuarded SetupIsOurs
PROPERTIES GrantsAreShared Quiesces
CHECK_DEADLOCK FALSE
