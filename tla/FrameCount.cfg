SPECIFICATION Spec
CONSTANTS
  UPDATE_FRAMECOUNT_THRES = 2
  FRAMECOUNT_NUM_PER_SECT = 4
  Torn = 15
  MaxCount = 6
  MaxRefused = 1
INVARIANTS TypeOK CountIsKept CounterIsFresh
