CONSTANTS
  g1 = g1
  g2 = g2
  g3 = g3
  Guards <- MCGuards
  MaxVersion = 2
SPECIFICATION FairSpec
INVARIANTS
  NoTornRead
  CountsExact
PROPERTIES
  ImplementsPublication
  SetReturns
