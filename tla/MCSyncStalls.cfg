CONSTANTS
  c1 = c1
  c2 = c2
  None = None
  STRIPE_SIZE = 2
  LOG_STRIPES = 1
  TIP_BLOCKS = 1
  Connections = {c1, c2}
  Chain <- Forked
  Genesis = "g"
  Invalid = {"b2"}
  Slow = {c2}
  MaxBlocks = 1
  MaxIds = 3
  MaxSpans = 1
  MaxQueued = 1
  NearBlocks = 1
  MaxReplies = 2
SPECIFICATION Spec
INVARIANTS
  DownloadGoesOn
CHECK_DEADLOCK FALSE
