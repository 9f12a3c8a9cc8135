SPECIFICATION Spec
CONSTANTS
  s1 = s1
  s2 = s2
  d1 = d1
  p1 = p1
  p2 = p2
  Nil = Nil
  Proc = {p1, p2}
  Sub <- MCSub
  Dataset <- MCDataset
  Home <- MCHome
  Settings <- Explored
  MaxItems = 2
  MaxTokens = 2
  MaxTime = 6
  Life = 3
  Margin = 1
SYMMETRY Symmetric
INVARIANTS
  Conferred
  Fresh
