SPECIFICATION Spec
CONSTANTS
    Chars = {"a", "nl", "nul"}
    NL = "nl"
    NUL = "nul"
    Scripts <- MCExit
    NoRegex = NoRegex
    Modes = {"interact"}
    BackRead = {TRUE, FALSE}
    Codes = {3}
    MaxText = 3
INVARIANTS ExitPropagated
CHECK_DEADLOCK FALSE
