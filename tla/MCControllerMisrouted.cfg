SPECIFICATION Spec
CONSTANTS
  Targets = {"home"}
  Profiles = {"profile"}
  Home = "home"
  Hwm = 3
  BindOutcomes = {TRUE}
  SendFaults = FALSE
  Popups = FALSE
  MaxFrames = 1
  MaxFetch = 1
  KiqCmds <- PageCmds
  KiqAnswers = {}
  Asks <- LoadUrlOnly
  Results = {"text"}
  LaunchFaults = FALSE
  MaxCmds = 2
  MaxAsks = 1
  MaxSleeps = 0
  MaxIn = 1
INVARIANTS
  AnswersGoToAnalyzer
CHECK_DEADLOCK FALSE
