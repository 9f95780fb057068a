SPECIFICATION ServerSpec
CONSTANTS
  Targets = {"home"}
  Profiles = {"p1"}
  Home = "home"
  Hwm = 1
  BindOutcomes = {TRUE, FALSE}
  SendFaults = TRUE
  Outgoing <- MCOutgoing
  Incoming <- MCIncoming
  MaxOut = 3
  MaxIn = 2
INVARIANTS
  TypeOK
  NullOnlyAtFront
PROPERTY
  Outbox
