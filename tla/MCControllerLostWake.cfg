SPECIFICATION Spec
CONSTANTS
  Targets = {"home"}
  Profiles = {"profile"}
  Home = "home"
  Hwm = 3
  BindOutcomes = {TRUE}
  SendFaults = FALSE
  Popups = FALSE
  MaxFrames = 1
  MaxFetch = 1
  KiqCmds <- PageCmds
  KiqAnswers = {}
  Asks <- LoadUrlOnly
  Results = {"text"}
  LaunchFaults = FALSE
  MaxCmds = 0
  MaxAsks = 0
  MaxSleeps = 2
  MaxIn = 1
INVARIANTS
  WaitsOnlyForWake
CHECK_DEADLOCK FALSE
