SPECIFICATION LiveSpec
CONSTANTS
  p1 = p1
  Proc = {p1, p2}
  Client = {c1}
  Attempts = 2
  Sharing = TRUE
  Settings <- Several
  LongCopy = TRUE
  Patient = TRUE
  Nil = Nil
INVARIANTS
  OneCopy
  
  
PROPERTIES
  CopySettles
  LockReturned
