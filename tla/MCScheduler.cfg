SPECIFICATION FairSpec
CONSTANTS
  None = None
  Req = {1, 2}
  Token = {0}
  Prompt <- MCPrompt
  PageSize = 2
  MaxNew <- MCMaxNew
  Margin = 5
  NumPages = 7
  ChunkSize = 4
  RetractSteps = 1
  ServerArgs <- MCServerArgs
  StripThinking = FALSE
  MaxPauses = 1
INVARIANTS TreeExact LocksExact PageOwnership PoolBalance KVMatches NeverFails LastOneFits
PROPERTY Served
