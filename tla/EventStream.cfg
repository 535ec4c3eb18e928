CONSTANTS
  Watchers = {w1, w2}
  Limit = 2
  ChanCap = 1
  MaxEvents = 4
  MaxBoots = 2
SPECIFICATION FairSpec
INVARIANTS Ordered NoSilentGap
PROPERTIES Delivered
CHECK_DEADLOCK FALSE
