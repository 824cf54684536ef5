CONSTANTS
  c0 = c0
  c1 = c1
  ctx0 = ctx0
  ctx1 = ctx1
  p1 = p1
  aux = aux
  Aux = aux
  Free = Free
  Contexts <- MCOneContext
  Threads <- MCThreads
  Group <- MCGroupMt
  Opens <- MCOpensMt
  Looping <- MCThreads
  Callers <- MCOneCaller
  Lockers <- MCNobody
  MaxJobs = 2
SPECIFICATION FairSpec
CHECK_DEADLOCK FALSE
PROPERTIES EveryJobRuns
