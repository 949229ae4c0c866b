SPECIFICATION Spec
CONSTANTS
  NbCpus = 4
  Width = 16
  Numbers = {0, 2, 9}
  MaxTokens = 6
INVARIANT ReadsList ShellsCounted
PROPERTY ParserEnds
CHECK_DEADLOCK FALSE
