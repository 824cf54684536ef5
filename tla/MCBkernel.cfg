CONSTANTS
  u1 = u1
  u2 = u2
  Ticker = Ticker
  Net = Net
  Users <- MCUsers
  Names = {n}
  Groups <- MCSlots
  Endpoints <- MCSlots
  Devices <- MCSlot
  Life = 1
  Death = 2
  MaxOpens = 2
SPECIFICATION FairSpec
CHECK_DEADLOCK FALSE
INVARIANTS TypeOK CountsExact NobodyDangles AllAttached RouteFollowsPeers
PROPERTIES CloseReturns
