CONSTANTS
  Sources <- ToolSources
  Automata = {}
  NameOrder <- MCNameOrder
  Programs <- MCPrograms
  CommandLines <- MCCommandLines
  RulesFile <- MCRulesFile
  MaxTimes = 16
  MaxText = 5
SPECIFICATION MCSpec
INVARIANTS
  TypeOK
  RulesAsWritten
  TableIsRight
  Recognizes
  WordEndsWithRule
  Minimal
  OvershadowsAreRight
  OrderlyRulesCompile
  FlagsAsWritten
  OutputsAgree
  WritesBothOrNeither
  GraphsShowTheRules
CHECK_DEADLOCK FALSE
