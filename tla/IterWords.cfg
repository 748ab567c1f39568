SPECIFICATION FairSpec
CONSTANTS
  Defs <- AllDefs
  Inputs <- Texts
  RequiresBeginOfLine = TRUE
  ReadErrors = FALSE
  MaxPasses = 2
  SwitchTo <- Conditional
  EofReads = 3
CHECK_DEADLOCK FALSE
INVARIANTS
  TypeOK
  ReadConservation
  OffsetCountsReads
  StackMatchesWord
  OffsetIsPosition
  BolFollowsText
  Replay
PROPERTIES
  ImplementsMaximalMunch
  PassesEnd
