SPECIFICATION Spec
CONSTANTS
  Proc = {p1, p2}
  Inst = {i1, i2}
  Sub = {s1}
  j1 = j1
  j2 = j2
  Project = {j1, j2}
  MaxVersion = 2
  Settings <- Explored
  Nil = Nil
SYMMETRY Symmetry
INVARIANTS
  IInv
  NothingAbandoned
  AnswersStand
