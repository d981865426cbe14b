SPECIFICATION FairSpec
CONSTANTS
  REPEAT_CMD_NUM = 2
  COUNT_MOD = 6
  Endpoints = {1}
  Commands = {"on", "stepWithOnOff"}
  Targets <- MixedTargets
  MaxSent = 4
INVARIANTS
  TypeOK
  CountCoversTable
  WatchdogArmed
  TableRecordsSent
  RepeatsToSameTarget
PROPERTIES
  AtMostOneRepeat
  RepeatsOnce
  LoneLossIsRepeated
  Drains
