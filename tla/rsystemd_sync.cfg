SPECIFICATION Spec
CONSTANTS
  c1 = c1
  c2 = c2
  NoClient = NoClient
  Clients = {c1, c2}
  SocketRoom = 1
  MaxFailures = 1
  NbShells = 1
  MaxCmds = 2
  Outputs <- SplitLine
  Mortal = {}
  Interruptible = {}
  Faults = {"read", "nomem", "write"}
INVARIANT FreeShellQuiet OwnAnswers BusyNotRun
SYMMETRY ClientSymmetry
CHECK_DEADLOCK FALSE
