SPECIFICATION FairSpec
CONSTANTS
    Chars = {"a", "nl", "nul"}
    NL = "nl"
    NUL = "nul"
    Regexes <- MCRegexes
    NoRegex = NoRegex
    Idle = Idle
    FlowFlags = {TRUE, FALSE}
    Increment = 3
    Timeouts = {0, 1}
    MaxText = 3
    MsgLen = 2
    MaxMsgs = 1
    MemoryFaults = {"read", "append", "lines", "rest"}
INVARIANTS RecvInv InputWhole
PROPERTIES MatchNotCut CallReturns ImplementsChannel
CHECK_DEADLOCK FALSE
