SPECIFICATION FairSpec
CONSTANTS
  r1 = r1
  r2 = r2
  None = None
  Room = {r1, r2}
  NumChunks <- OddChunks
  NewPages <- MCNewPages
  DPages = 3
  DReqs = 2
  Reserves = {1, 2}
  DSlots = 1
  PSlots = 1
  MaxRetries = 1
  Faults = {"timeout", "crash"}
PROPERTIES DecodeAnswers PrefillAnswers
CHECK_DEADLOCK FALSE
