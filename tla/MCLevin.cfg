CONSTANTS
  None = None
  Note = Note
  c1 = c1
  c2 = c2
  Calls = {c1, c2}
  SendQueMax = 1
  Scenarios <- TwoCallsOrAClose
SPECIFICATION Spec
INVARIANTS
  CallbackOnce
  ReplyIsOwn
  DestroyedIsDone
PROPERTIES
  
  CloseTakesEffect
  
CHECK_DEADLOCK FALSE
