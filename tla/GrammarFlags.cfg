SPECIFICATION Spec
CONSTANTS
  TerminalOrder <- MCTerminalOrder
  ActionOrder <- MCActionOrder
  Sources <- MCSources
  MaxWord = 4
INVARIANTS FirstSetsAccumulated
CHECK_DEADLOCK FALSE
