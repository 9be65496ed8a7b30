CONSTANTS
  c1 = c1
  c2 = c2
  None = None
  STRIPE_SIZE = 2
  LOG_STRIPES = 1
  TIP_BLOCKS = 1
  Connections = {c1, c2}
  Chain <- ForkedChain
  PeerSeed <- OneStriped
  LocalSeed <- FirstStripe
  MaxBlocks = 2
  MaxHeight = 40
SPECIFICATION Spec
INVARIANTS
  RequestedIsQueued
  HaveIsFilled
  SpansAligned
  RequestsAreServable
  SpansAreUniform
  NextUnprunedIsLeast
  NextPrunedStopsInTime
CHECK_DEADLOCK FALSE
