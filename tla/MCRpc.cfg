CONSTANTS
  AckTimer = 1
  AckFail = 2
  RspTimer = 2
  RspFail = 1
  Keep = 5
  Delay = 1
  MaxCrashes = 1
SPECIFICATION FairSpec
CHECK_DEADLOCK FALSE
INVARIANTS
  TypeOK
  AtMostOnce
  ResultTrue
PROPERTIES
  EveryCallEnds
  ResultsForgotten
