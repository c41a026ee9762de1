CONSTANTS
  NumStages = 5
  MaxTokens = 3
  Input <- MCInput
  Output <- MCOutput
  Type <- MCType
  Access <- MCAccess
  intfOf <- MCIntfOf
  stageOf <- MCStageOf
  Conditional <- MCConditional
SPECIFICATION FairSpec
INVARIANTS
  TypeOK
  TokensInOrder
  StageIsAtomic
  StallsOnlyForIo
PROPERTIES LoopSpec AllTokensFinish
