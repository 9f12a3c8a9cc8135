SPECIFICATION JSpec
CONSTANTS
  Client = {c1, c2}
  Name = {1, 2, 3}
  Rand = {11, 12, 13}
  Tag = {t1}
  Limit = 1
  QueueMax = 2
  Scenarios <- Explored
  None = None
SYMMETRY Symmetry
INVARIANTS
  EffectOfAnswer
  FailedCommit
  ListedOnce
  AllDeleted
