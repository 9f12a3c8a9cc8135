SPECIFICATION FairSpec
CONSTANTS
  Proc = {p1, p2}
  Inst = {i1}
  WriteId = {w1}
  ReadId = {r1}
  NoProc = NoProc
  NoId = NoId
  WriteTtl = 2
  ReadTtl = 1
  Margin = 1
  SlowSection = FALSE
PROPERTIES
  MutexFreed
  WriteLockEnds
