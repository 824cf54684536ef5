CONSTANTS
  t1 = t1
  t2 = t2
  t3 = t3
  o1 = o1
  o2 = o2
  Nil = Nil
  Threads <- MCThreads
  Objs <- MCObjs
SPECIFICATION DropSpec
SYMMETRY Symmetry
INVARIANTS
  RefsExact
  NoUseAfterFree
  MarkHasOwner
