CONSTANTS
  c0 = c0
  c1 = c1
  ctx0 = ctx0
  ctx1 = ctx1
  p1 = p1
  aux = aux
  Aux = aux
  Free = Free
  Contexts <- MCContexts
  Threads <- MCThreads
  Group <- MCGroupGui
  Opens <- MCOpensGui
  Looping <- MCLoopingGui
  Callers <- MCOneCaller
  Lockers <- MCOneCaller
  MaxJobs = 1
SPECIFICATION FairSpec
CHECK_DEADLOCK FALSE
INVARIANTS TypeOK NothingStranded ContextsExclusive
PROPERTIES EveryJobRuns
