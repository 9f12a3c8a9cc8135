SPECIFICATION Spec
CONSTANTS
  Slot = {s1, s2}
  b1 = b1
  b2 = b2
  Bucket = {b1, b2}
  Place <- Places
  Name = {1, 2}
  Deep = {2}
  Settings <- Explored
SYMMETRY Symmetry
INVARIANTS
  OthersKeepObjects
  CopyComplete
  Gone
