CONSTANTS
  None = None
  Workers = {1, 2}
  Starts <- AnyStart
  MaxThreads = 2
SPECIFICATION Spec
INVARIANTS
  StopMeansStop
PROPERTIES
  StopReturns
CHECK_DEADLOCK FALSE
