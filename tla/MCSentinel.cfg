SPECIFICATION SentinelSpec
CONSTANTS
  Targets = {"home"}
  Profiles = {"profile"}
  Home = "home"
  Hwm = 9
  BindOutcomes = {TRUE}
  SendFaults = FALSE
  Popups = FALSE
  MaxFrames = 1
  MaxFetch = 1
  KiqCmds <- PageCmds
  KiqAnswers = {"generate"}
  Asks <- AllAsks
  Results = {"text"}
  LaunchFaults = FALSE
  MaxCmds = 3
  MaxAsks = 3
  MaxSleeps = 0
  MaxIn = 1
  MaxUsers = 1
  PortFaults = TRUE
CONSTRAINT SentinelBound
INVARIANTS
  SentinelTypeOK
  WaitIsKnown
  ReplyHasMessage
PROPERTIES
  ImplementsController
