SPECIFICATION Spec
CONSTANTS
  c1 = c1
  c2 = c2
  NoClient = NoClient
  Clients = {c1}
  SocketRoom = 1
  MaxFailures = 0
  NbShells = 1
  MaxCmds = 1
  Outputs <- QuietOrLine
  Mortal = {}
  Interruptible = {}
  Faults = {}
INVARIANT SurvivesWrites
CHECK_DEADLOCK FALSE
