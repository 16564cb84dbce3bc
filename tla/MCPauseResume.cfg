SPECIFICATION LoopSpec
CONSTANTS
  None = None
  Req = {1, 2}
  Token = {0}
  Prompt <- MCPrompt
  PageSize = 2
  MaxNew <- MCShortMaxNew
  Margin = 5
  NumPages = 6
  ChunkSize = 4
  RetractSteps = 1
  ServerArgs <- MCOverlap
  StripThinking = FALSE
  MaxPauses = 1
PROPERTY ContinuesLater
