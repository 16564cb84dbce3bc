SPECIFICATION Spec
CONSTANTS
  r1 = r1
  r2 = r2
  None = None
  Room = {r1, r2}
  NumChunks <- EvenChunks
  NewPages <- MCNewPages
  DPages = 3
  DReqs = 2
  Reserves = {1}
  DSlots = 1
  PSlots = 1
  MaxRetries = 1
  Faults = {"timeout"}
INVARIANT CommittedKV
SYMMETRY Rooms
CHECK_DEADLOCK FALSE
