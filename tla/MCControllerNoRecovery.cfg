SPECIFICATION FairSpec
CONSTANTS
  Targets = {"home"}
  Profiles = {"profile"}
  Home = "home"
  Hwm = 3
  BindOutcomes = {TRUE}
  SendFaults = FALSE
  Popups = FALSE
  MaxFrames = 1
  MaxFetch = 1
  KiqCmds <- PageCmds
  KiqAnswers = {}
  Asks <- LoadUrlOnly
  Results = {"text"}
  LaunchFaults = FALSE
  MaxCmds = 0
  MaxAsks = 0
  MaxSleeps = 1
  MaxIn = 1
PROPERTIES
  WakeRecovers
CHECK_DEADLOCK FALSE
