SPECIFICATION ConcreteSpec
CONSTANTS
  None = None
  Configs <- MCConfigs
  Workflows <- MCWorkflows
  InputPaths <- MCInputPaths
  Payloads <- MCPayloads
  Scores <- MCScores
  MaxFloat <- MCMaxFloat
  Rounded <- MCRounded
  TextTest <- MCTextTest
INVARIANTS ConcreteTypeOK LoanAsDescribed UnassessedNotApproved OnlyHugeFiguresRaise LockHeldBriefly
PROPERTY ImplementsOrchestrator
CHECK_DEADLOCK FALSE
