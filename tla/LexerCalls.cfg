SPECIFICATION FairSpec
CONSTANTS
  Defs <- AllDefs
  Inputs <- Texts
  RequiresBeginOfLine = TRUE
  ReadErrors = TRUE
  MaxTokens = 9
  MaxResets = 1
  SwitchTo <- Conditional
  UseIterator = TRUE
CHECK_DEADLOCK FALSE
INVARIANTS
  TypeOK
  EofComesLast
  BolFollowsText
PROPERTY
  EofComes
