SPECIFICATION FairSpec
CONSTANTS
  Targets = {"home"}
  Profiles = {}
  Home = "home"
  Hwm = 1
  BindOutcomes = {TRUE, FALSE}
  SendFaults = TRUE
  Popups = FALSE
  MaxFrames = 1
  MaxFetch = 1
  KiqCmds <- EndsCmds
  KiqAnswers = {}
  Asks = {}
  Results = {"text"}
  LaunchFaults = TRUE
  MaxCmds = 2
  MaxAsks = 1
  MaxSleeps = 0
  MaxIn = 1
INVARIANTS
  TypeOK
  NullOnlyAtFront
PROPERTIES
  ImplementsOutbox
  MainLoops
  AnalysisEnds
  ProcessJoined
  QueueDrains
\* Where the bind fails the main thread blocks; see the README.
CHECK_DEADLOCK FALSE
