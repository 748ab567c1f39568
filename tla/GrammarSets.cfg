SPECIFICATION FairSpec
CONSTANTS
  TerminalOrder <- MCTerminalOrder
  ActionOrder <- MCActionOrder
  Sources <- MCSources
  MaxWord = 4
INVARIANTS
  TypeOK
  ReadAsWritten
  RewrittenIsRightRecursive
  SetsAreJustified
  SetsAreComplete
PROPERTIES Returns
CHECK_DEADLOCK FALSE
