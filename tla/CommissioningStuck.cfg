SPECIFICATION FairSpec
CONSTANTS
  FIND_BIND_QUEUE_SIZE = 2
  ATTEMPTS_MAX = 1
  Lossy = {"ieeeAddr"}
  MaxFinds = 1
  MaxHeard = 1
  MaxLosses = 0
PROPERTIES FallsAsleep
CHECK_DEADLOCK FALSE
