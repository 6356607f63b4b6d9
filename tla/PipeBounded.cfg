SPECIFICATION PipeSpec
CONSTANTS
  Threads = {t1, t2, t3}
  MaxSize = 2
  MaxItems = 3
  NoItem = NoItem
SYMMETRY ThreadSymmetry
INVARIANTS
  NoWakeUpLost
PROPERTY
  KeepsContract
CHECK_DEADLOCK FALSE
