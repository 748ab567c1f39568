SPECIFICATION FairSpec
CONSTANTS
  TerminalOrder <- MCTerminalOrder
  ActionOrder <- MCActionOrder
  Tables <- MCTables
  MaxWords = 5
INVARIANTS TypeOK ValuesBalanced RewindsOneHandle ParsesTheLanguage ReturnsStartValue EpsilonFindsValue
PROPERTIES Returns SentencesAccepted ImplementsDerivation
CHECK_DEADLOCK FALSE
