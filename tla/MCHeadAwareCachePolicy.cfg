SPECIFICATION Spec
CONSTANTS
  Chunk = {c1, c2, c3}
  Sizes = {1, 2, 4}
  Costs = {1, 2}
  Capacity = 3
  MaxStep = 2
  MaxReuse = 2
INVARIANT CapacityRespected
PROPERTIES DominatedGoFirst ImplementsAdmission
CHECK_DEADLOCK FALSE
