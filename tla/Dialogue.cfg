CONSTANTS
  Scenarios <- MCScenarios
  MaxChunks <- MCMaxChunks
  MaxInFlight <- MCMaxInFlight
SPECIFICATION FairSpec
CHECK_DEADLOCK FALSE
INVARIANTS
  TypeOK
  InStep
  AnswersNotMerged
  LoginAgrees
PROPERTY
  PromptReturns
VIEW InScope
