SPECIFICATION Spec
CONSTANTS
  Proc = {p1}
  Inst = {i1}
  Dataset = {d1, d2}
  Ltag = {la, lb}
  Bucket = {b1, b2}
  Uuid = {u1, u2}
  Role = {admins}
  MaxFailures = 1
  Nil = Nil
SYMMETRY Symmetry
INVARIANTS
  RecordBacked
  DatasetsBacked
  BucketsOwned
  RecursivePatchComplete
PROPERTIES
  OnlyCreateCreates
