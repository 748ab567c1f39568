SPECIFICATION Spec
CONSTANTS
  Defs <- ReopenDefs
  Inputs <- ShortTexts
  RequiresBeginOfLine = TRUE
  ReadErrors = FALSE
  MaxTokens = 6
  MaxResets = 1
  SwitchTo = {}
  UseIterator = FALSE
CHECK_DEADLOCK FALSE
INVARIANT
  ReadConservation
