SPECIFICATION Spec
CONSTANTS
  Targets = {"home"}
  Profiles = {}
  Home = "home"
  Hwm = 2
  BindOutcomes = {TRUE, FALSE}
  SendFaults = FALSE
  Popups = TRUE
  MaxFrames = 1
  MaxFetch = 1
  KiqCmds <- AllCmds
  KiqAnswers = {}
  Asks <- LoadHome
  Results = {"text"}
  LaunchFaults = FALSE
  MaxCmds = 3
  MaxAsks = 2
  MaxSleeps = 0
  MaxIn = 1
CONSTRAINT PopupsBound
INVARIANTS
  RunningIsAccountedFor
PROPERTIES
  ImplementsSession
\* Sources sent to an analyzer that has ended block the main thread, and so
\* does a bind that failed.
CHECK_DEADLOCK FALSE
