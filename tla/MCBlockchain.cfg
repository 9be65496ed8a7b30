CONSTANTS
  g = g
  t1 = t1
  a2 = a2
  a3 = a3
  a4 = a4
  b2 = b2
  b3 = b3
  b4 = b4
  None = None
  Genesis = g
  Blocks <- Tree
  Parent <- TreeParent
  Work <- TreeWork
  Forks <- TwoForks
  WindowSize = 2
  Version <- TreeVersion
  Vote <- TreeVersion
  Bad = {a4}
  Flaky = {b3}
  Announced = {a2, a3, b4}
  KeepAlts = TRUE
  MaxPop = 2
SPECIFICATION Spec
INVARIANTS
  
  
  
  NoNestedSwitch
PROPERTIES
  KeepsLedger
CHECK_DEADLOCK FALSE
