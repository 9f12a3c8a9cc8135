SPECIFICATION Spec
CONSTANTS
  Proc = {p1, p2, p3}
  Name = {n1, n2}
  Store = {s1, s2, s3}
  WriteId = {w1, w2, w3}
  ReadId = {r1}
  Tag = {t1}
  Settings <- ProtocolAndChanges
  Nil = Nil
SYMMETRY Symmetry
INVARIANTS
  DatasetKeepsObjects
  SessionExcludes
  OneDatasetPerName
  FailedLeavesNothing
PROPERTIES
  RecordKeepsLocation
  NoOrphanObjects
  RenameMovesDataset
