SPECIFICATION Spec
CONSTANTS
  o1 = o1
  Objects = {o1}
  NoObject = NoObject
  MaxPid = 1
  NbCpus = 2
  Affinities = {{0}}
  NoMap = NoMap
  OtherThread = FALSE
INVARIANT RunsWhereAsked
CHECK_DEADLOCK FALSE
