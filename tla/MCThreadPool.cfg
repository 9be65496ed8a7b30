CONSTANTS
  None = None
  c = c
  d = d
  A = A
  B = B
  a1 = a1
  a2 = a2
  d1 = d1
  d2 = d2
  r = r
  Workers = {w1}
  Callers = {c, d}
  Tasks = {A, B, a1, a2, d1, d2, r}
  Body <- TreeBody
  Leaf = {a1, d1}
  Detached = {d2}
  Quitters = {d}
SPECIFICATION Spec
INVARIANTS
  NothingOutlivesItsBody
PROPERTIES
  WaitsReturn
  DetachedComplete
  JoinReturns
