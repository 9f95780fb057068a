SPECIFICATION FairSpec
CONSTANTS
  Targets = {"home"}
  Profiles = {}
  Home = "home"
  Hwm = 1
  BindOutcomes = {TRUE}
  SendFaults = FALSE
  Popups = FALSE
  MaxFrames = 1
  MaxFetch = 1
  KiqCmds <- DeferredCmds
  KiqAnswers = {}
  Asks <- LoadHome
  Results = {"text"}
  LaunchFaults = FALSE
  MaxCmds = 2
  MaxAsks = 0
  MaxSleeps = 2
  MaxIn = 1
INVARIANTS
  LinkDownMeansRecovering
PROPERTIES
  ImplementsOutbox
  MainLoops
  DeferredRun
\* The main thread may block on closed sockets, or on ax_; see the README.
CHECK_DEADLOCK FALSE
