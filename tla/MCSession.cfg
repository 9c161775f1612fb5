SPECIFICATION FairSpec
CONSTANTS
  MaxTokens = 4
  BufferSize = 9
  MaxInt = 31
  MaxLine = 5
  MaxPlain = 6
  Inputs <- MCInputs
INVARIANTS
  ParsesAsDocumented
  BurstIsCount
PROPERTIES
  AnswersInStep
  LineAnswered
CHECK_DEADLOCK FALSE
