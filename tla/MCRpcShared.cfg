CONSTANTS
  AckTimer = 1
  AckFail = 2
  RspTimer = 2
  RspFail = 1
  Keep = 5
  Delay = 1
  MaxCrashes = 0
SPECIFICATION SharedSpec
CHECK_DEADLOCK FALSE
INVARIANTS ResultTrue
