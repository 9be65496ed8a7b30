CONSTANTS
  m1 = m1
  MaxConns = 3
  Messages = {m1}
  Fragments <- TwoPieces
  Channels = 2
  MaxFragments = 2
  MaxTasks = 2
  MaxLost = 1
  MaxPosted = 1
SPECIFICATION Spec
INVARIANTS
  ChannelsFollowMap
  WholeOnOneConnection
PROPERTIES
  ChannelsHeal
  QueuedIsSent
