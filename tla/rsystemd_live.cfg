SPECIFICATION FairSpec
CONSTANTS
  c1 = c1
  c2 = c2
  NoClient = NoClient
  Clients = {c1, c2}
  SocketRoom = 1
  MaxFailures = 0
  NbShells = 1
  MaxCmds = 1
  Outputs <- QuietOrLine
  Mortal = {1}
  Interruptible = {}
  Faults = {"oom", "read"}
PROPERTY CallReturns FreeingEnds GoneIsFreed
CHECK_DEADLOCK FALSE
