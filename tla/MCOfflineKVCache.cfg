SPECIFICATION Spec
CONSTANTS
  Seg = {s1, s2, s3, s4}
  Sizes <- MCSizes
  MaxDevice = 3
  MaxHost = 2
  None = None
INVARIANT NoKeyError
PROPERTIES ImplementsCache EnforcementReturns RemovalOrder
CHECK_DEADLOCK FALSE
