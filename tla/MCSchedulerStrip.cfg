SPECIFICATION Spec
CONSTANTS
  None = None
  Req = {1, 2}
  Token = {0}
  Prompt <- MCStripPrompt
  PageSize = 2
  MaxNew <- MCMaxNew
  Margin = 5
  NumPages = 7
  ChunkSize = 2
  RetractSteps = 1
  ServerArgs <- MCOverlap
  StripThinking = TRUE
  MaxPauses = 0
INVARIANT PoolBalance
