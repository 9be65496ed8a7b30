CONSTANTS
  a = a
  b = b
  c = c
  k1 = k1
  k2 = k2
  None = None
  Txs <- ThreeTxs
  KeyImages = {k1, k2}
  Vin <- ThreeVin
  RingOf <- ThreeRings
  Weight <- ThreeWeights
  Rate <- ThreeRates
  IdOrder <- ThreeIds
  MinRate = 1
  MaxPoolWeight = 3
  MaxTemplateWeight = 3
  EntryMethods = {"none", "block", "flood"}
  HiddenZone = FALSE
  Bodies <- TwoBodies
  Nonces = {0}
  StorageFails = FALSE
  Declines = {}
  MaxHeight = 2
  MaxRelaying = 1
  MaxEntries = 2
  MaxDrift = 0
SPECIFICATION Spec
INVARIANTS
  PoolReloads
CHECK_DEADLOCK FALSE
