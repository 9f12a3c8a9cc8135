SPECIFICATION Spec
CONSTANTS
  a1 = a1
  a2 = a2
  v1 = v1
  v2 = v2
  u1 = u1
  Proc = {p1, p2}
  Inst = {i1}
  User = {u1}
  Group = {a1, a2, v1, v2}
  Default = {a1, v1}
  Paged = {v2}
  Settings <- Resources
  AuthTtl = 1
  Nil = Nil
INVARIANTS
  AnswersHold
  NewcomerEnters
PROPERTIES
  LossTakesEffect
