SPECIFICATION FairSpec
CONSTANTS
  FIND_BIND_QUEUE_SIZE = 2
  ATTEMPTS_MAX = 1
  Lossy = {"simpleDesc", "nodeDesc", "key", "leave"}
  MaxFinds = 1
  MaxHeard = 2
  MaxLosses = 1
INVARIANTS TypeOK AttemptGoesOn FindIsTidy NetworkIsRetried
PROPERTIES AttemptEnds
CHECK_DEADLOCK FALSE
