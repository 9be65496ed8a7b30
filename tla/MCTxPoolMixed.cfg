CONSTANTS
  a = a
  b = b
  c = c
  k1 = k1
  k2 = k2
  None = None
  Txs <- TwoTxs
  KeyImages = {k1, k2}
  Vin <- TwoVin
  RingOf <- TwoRings
  Weight <- TwoWeights
  Rate <- TwoRates
  IdOrder <- TwoIds
  MinRate = 1
  MaxPoolWeight = 3
  MaxTemplateWeight = 3
  EntryMethods = {"none", "local"}
  HiddenZone = FALSE
  Bodies <- OneBody
  Nonces = {0}
  StorageFails = TRUE
  Declines = {{}}
  MaxHeight = 1
  MaxRelaying = 1
  MaxEntries = 2
  MaxDrift = 0
SPECIFICATION Spec
INVARIANTS
  TemplateSound
CHECK_DEADLOCK FALSE
