SPECIFICATION FairSpec
CONSTANTS
  Threads = {t1, t2}
  MaxSize = 0
  MaxItems = 1
  NoItem = NoItem
PROPERTY TimedOfferReturns
CHECK_DEADLOCK FALSE
