CONSTANTS
  t1 = t1
  runner = runner
  fast1 = fast1
  idle1 = idle1
  idle2 = idle2
  tick1 = tick1
  sync1 = sync1
  async1 = async1
  CPoints <- MCCPoints
  Sync <- MCSync
  Runner = runner
  NoJob = NoJob
  Threads <- MCOneThread
  Jobs <- MCJobs
  Class <- MCClass
  CPoint <- MCCPoint
  Period = 1
  MaxTime = 2
SPECIFICATION FairSpec
CHECK_DEADLOCK FALSE
INVARIANTS NoJobStranded RunsInOrder SyncCancelIsFinal TimersKeepTime
PROPERTIES EveryJobSettles
