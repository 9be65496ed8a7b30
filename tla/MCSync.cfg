CONSTANTS
  c1 = c1
  c2 = c2
  None = None
  STRIPE_SIZE = 2
  LOG_STRIPES = 1
  TIP_BLOCKS = 1
  Connections = {c1, c2}
  Chain <- BadTop
  Genesis = "g"
  Invalid = {"x4"}
  Slow = {c2}
  MaxBlocks = 1
  MaxIds = 3
  MaxSpans = 1
  MaxQueued = 1
  NearBlocks = 1
  MaxReplies = 2
SPECIFICATION Spec
INVARIANTS
  
  NeededIsAligned
  ScheduledIsAsked

  
  
CHECK_DEADLOCK FALSE
