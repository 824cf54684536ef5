CONSTANTS
  Order <- MCOrder
  Start <- MCStart
  Query = 1
  Close = 4
  MaxOps = 2
  MaxTroubles = 1
SPECIFICATION FairSpec
INVARIANT TypeOK
INVARIANT InSyncIsEqual
INVARIANT InSyncIsSnapshot
PROPERTY TseqGrows
PROPERTY Converges
\* The system comes to rest when both processes are gone.
CHECK_DEADLOCK FALSE
