SPECIFICATION Spec
CONSTANTS
  Targets = {"home"}
  Profiles = {"profile"}
  Home = "home"
  Hwm = 3
  BindOutcomes = {TRUE}
  SendFaults = FALSE
  Popups = FALSE
  MaxFrames = 1
  MaxFetch = 1
  KiqCmds <- PageCmds
  KiqAnswers = {}
  Asks = {}
  Results = {"text"}
  LaunchFaults = TRUE
  MaxCmds = 4
  MaxAsks = 1
  MaxSleeps = 0
  MaxIn = 1
INVARIANTS
  ActiveHasProcess
  RunningIsAccountedFor
PROPERTIES
  ImplementsSession
