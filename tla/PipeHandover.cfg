SPECIFICATION FairSpec
CONSTANTS
  Threads = {t1, t2, t3}
  MaxSize = 0
  MaxItems = 2
  NoItem = NoItem
INVARIANTS
  PipeInv
  NoWakeUpLost
PROPERTIES
  KeepsContract
  CallsEnd
  EnqueueMeetsDequeue
CHECK_DEADLOCK FALSE
