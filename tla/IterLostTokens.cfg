SPECIFICATION Spec
CONSTANTS
  Defs <- LookaheadDefs
  Inputs <- ShortTexts
  RequiresBeginOfLine = TRUE
  ReadErrors = FALSE
  MaxPasses = 1
  SwitchTo = {}
  EofReads = 3
CHECK_DEADLOCK FALSE
INVARIANT
  NothingLost
