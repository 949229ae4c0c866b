SPECIFICATION FairSpec
CONSTANTS
    Father = father
    Child = child
    NoShell = NoShell
    NoCmd = NoCmd
    Programs <- MCPrograms
    MaxCalls <- MCMaxCalls
    ForkCalls = 0
INVARIANTS IsysInv OwnStatus OwnOutput
PROPERTIES CallReturns
CHECK_DEADLOCK FALSE
