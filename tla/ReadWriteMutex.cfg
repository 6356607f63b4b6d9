SPECIFICATION RWFairSpec
CONSTANTS
  Threads = {t1, t2, t3, t4}
  Depths = {d1, d2}
  MaxLocks = 3
INVARIANTS
  RWSafe
  WriterAlone
PROPERTY
  SomeoneGetsIn
