SPECIFICATION Spec
CONSTANTS
  TerminalOrder <- MCTerminalOrder
  ActionOrder <- MCActionOrder
  Tables <- MCTables
  MaxWords = 3
INVARIANTS EmptyStackIsSuccess
CHECK_DEADLOCK FALSE
