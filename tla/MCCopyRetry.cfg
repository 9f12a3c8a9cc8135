SPECIFICATION Spec
CONSTANTS
  p1 = p1
  Proc = {p1}
  Client = {c1, c2}
  Attempts = 2
  Sharing = TRUE
  Settings <- OnlyRetry
  LongCopy = TRUE
  Patient = TRUE
  Nil = Nil
INVARIANTS
  CopyExcludesWriters
