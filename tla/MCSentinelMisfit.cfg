SPECIFICATION SentinelSpec
CONSTANTS
  Targets = {"home"}
  Profiles = {"profile"}
  Home = "home"
  Hwm = 9
  BindOutcomes = {TRUE}
  SendFaults = FALSE
  Popups = FALSE
  MaxFrames = 1
  MaxFetch = 1
  KiqCmds <- PageCmds
  KiqAnswers = {}
  Asks <- AllAsks
  Results = {"text"}
  LaunchFaults = FALSE
  MaxCmds = 2
  MaxAsks = 2
  MaxSleeps = 0
  MaxIn = 1
  MaxUsers = 1
  PortFaults = TRUE
INVARIANTS
  AnswerFitsRequest
CHECK_DEADLOCK FALSE
