SPECIFICATION ConcreteSpec
CONSTANTS
  None = None
  Configs <- MCShipped
  Workflows <- MCWorkflows
  InputPaths <- MCInputPaths
  Payloads <- MCPayloads
  Scores <- MCScores
  MaxFloat <- MCMaxFloat
  Rounded <- MCRounded
  TextTest <- MCTextTest
INVARIANT RulesNeverRaise
CHECK_DEADLOCK FALSE
