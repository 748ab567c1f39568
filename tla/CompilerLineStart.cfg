CONSTANTS
  Sources <- LineStartFiles
  Automata = {}
  NameOrder <- MCNameOrder
  MaxTimes = 16
  MaxText = 5
SPECIFICATION Spec
INVARIANT RecognizesAtLineStart
CHECK_DEADLOCK FALSE
