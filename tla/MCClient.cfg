SPECIFICATION ClientSpec
CONSTANTS
  b1 = b1
  b2 = b2
  Targets = {"home"}
  Profiles = {}
  Home = "home"
  Browsers = {b1, b2}
  Given = {"home", "loadurl"}
  Widths = {960, 1280}
  DefaultWidth = 960
  Popups = TRUE
  MaxFrames = 1
  MaxFetch = 2
  MaxXEvents = 2
SYMMETRY BrowserSymmetry
INVARIANTS
  TypeOK
  KnownIsOpen
  DownHasCause
  WindowFollows
PROPERTIES
  ImplementsBrowser
\* A crash, or the last browser closed, is the end.
CHECK_DEADLOCK FALSE
