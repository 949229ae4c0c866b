SPECIFICATION FairSpec
CONSTANTS
    Chars = {"a", "nl", "nul"}
    NL = "nl"
    NUL = "nul"
    Scripts <- MCScripts
    NoRegex = NoRegex
    Modes = {"interact", "terminal"}
    BackRead = {TRUE, FALSE}
    Codes = {3}
    MaxText = 3
INVARIANTS TextInv DeathSeen
PROPERTIES FirstMatch NothingLost NoOrphan RecvEnds ToolEnds
CHECK_DEADLOCK FALSE
