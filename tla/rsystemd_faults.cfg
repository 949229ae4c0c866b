SPECIFICATION Spec
CONSTANTS
  c1 = c1
  c2 = c2
  NoClient = NoClient
  Clients = {c1, c2}
  SocketRoom = 1
  MaxFailures = 1
  NbShells = 2
  MaxCmds = 1
  Outputs <- OneLine
  Mortal = {1}
  Interruptible = {c1, c2}
  Faults = {"oom", "accept", "select", "read", "toolong", "sigterm", "nomem", "write"}
INVARIANT LinkInv RoundInv NoAssertFails
PROPERTY NoSharing
SYMMETRY ClientSymmetry
CHECK_DEADLOCK FALSE
