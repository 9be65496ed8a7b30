CONSTANTS
  w1 = w1
  w2 = w2
  None = None
  Workers = {w1, w2}
  MaxTip = 2
SPECIFICATION Spec
PROPERTIES
  MinesTheTip
