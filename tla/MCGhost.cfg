SPECIFICATION Spec
CONSTANTS
  Proc = {p1, p2}
  Name = {n1}
  Store = {s1, s2}
  WriteId = {w1, w2}
  ReadId = {}
  Tag = {}
  Settings <- Registrations
  Nil = Nil
SYMMETRY Symmetry
INVARIANTS
  RolledBack
