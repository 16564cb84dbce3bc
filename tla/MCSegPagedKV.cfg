SPECIFICATION Spec
CONSTANTS
  KVHeads = 4
  TPSize = 2
  Configs <- MCConfigs
  DefaultWindow = 2
  RetrievalBudget = 1
  Windows = {1, 2, 4}
  MaxPrompt = 4
  MaxLen = 8
  PageSize = 2
  None = None
INVARIANTS GathersInOrder FootprintBounded
PROPERTIES ImplementsHeadClassKV ReadsWindow NoPaddingRead
CHECK_DEADLOCK FALSE
