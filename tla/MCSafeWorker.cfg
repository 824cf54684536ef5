CONSTANTS
  owner = owner
  other = other
  a1 = a1
  a2 = a2
  NULL = NULL
  Producers <- MCProducers
  Owner = owner
  Addrs <- MCAddrs
  MaxJobs = 2
  Ping = TRUE
SPECIFICATION WorkerFairSpec
INVARIANTS
  NoLostWakeup
  QuitDrains
PROPERTIES
  ImplementsFifo
  EveryJobRuns
