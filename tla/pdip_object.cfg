SPECIFICATION FairSpec
CONSTANTS
  Objects = {o1, o2}
  NoObject = NoObject
  MaxPid = 2
  NbCpus = 1
  Affinities = {}
  NoMap = NoMap
  OtherThread = FALSE
INVARIANT NoAssertFails ZombieIsDead PidIsOwn NoOrphan StatusIsOwn
PROPERTY DeathNotForgotten ExitEmpties
CHECK_DEADLOCK FALSE
