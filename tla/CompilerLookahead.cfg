CONSTANTS
  Sources <- SharedStartFiles
  Automata = {}
  NameOrder <- MCNameOrder
  MaxTimes = 16
  MaxText = 5
SPECIFICATION Spec
INVARIANT WordEndsWithRule
CHECK_DEADLOCK FALSE
