SPECIFICATION Spec
CONSTANTS
  TerminalOrder <- MCTerminalOrder
  ActionOrder <- MCActionOrder
  Sources <- MCSources
  MaxWord = 4
INVARIANTS RewrittenIsEquivalent
CHECK_DEADLOCK FALSE
