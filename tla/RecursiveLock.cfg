SPECIFICATION RLFairSpec
CONSTANTS
  Threads = {t1, t2, t3}
  NoThread = none
  MaxTimes = 2
INVARIANT
  RLSafe
PROPERTY
  WaiterHears
