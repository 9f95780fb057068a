SPECIFICATION Spec
CONSTANTS
  Targets = {"home"}
  Profiles = {"profile"}
  Home = "home"
  Hwm = 3
  BindOutcomes = {TRUE}
  SendFaults = FALSE
  Popups = FALSE
  MaxFrames = 1
  MaxFetch = 1
  KiqCmds <- PageCmds
  KiqAnswers = {}
  Asks <- LoadUrlOnly
  Results = {"text"}
  LaunchFaults = FALSE
  MaxCmds = 3
  MaxAsks = 0
  MaxSleeps = 0
  MaxIn = 1
INVARIANTS
  RefusalHasReason
CHECK_DEADLOCK FALSE
