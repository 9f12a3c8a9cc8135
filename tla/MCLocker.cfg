SPECIFICATION Spec
CONSTANTS
  Proc = {p1, p2}
  Inst = {i1}
  WriteId = {w1, w2}
  ReadId = {r1, r2}
  NoProc = NoProc
  NoId = NoId
  WriteTtl = 2
  ReadTtl = 1
  Margin = 1
  SlowSection = FALSE
SYMMETRY Symmetry
INVARIANTS
  SectionExclusive
  GrantBacked
  IInv
PROPERTY ReadersWriter
