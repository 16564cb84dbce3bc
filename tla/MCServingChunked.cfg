SPECIFICATION ServingSpec
CONSTANTS
  a = a
  b = b
  build1 = build1
  build2 = build2
  build3 = build3
  query1 = query1
  query2 = query2
  None = None
  Seg = {a, b}
  Sizes = {0, 1, 2}
  MaxDevice = 2
  MaxHost = None
  Req <- MCReq
  Plan <- MCPlan
  TextLen <- MCTextLen
  Layers = 2
  ChunkSize = 1
INVARIANT WholeSnapshot
CHECK_DEADLOCK FALSE
