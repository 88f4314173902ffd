SPECIFICATION Spec
CONSTANTS
  p1 = p1  p2 = p2  p3 = p3  wide = wide  big = big
  Procs = {p1, wide, p3, big}
  Size <- MCSize
  Blocking = {p1, wide, big}
  Blocks = 1
  Capacity = 4
  MaxSize = 4
  MaxCalls <- MCMaxCalls
INVARIANTS
  TypeOK
  NoSleeperMissed
PROPERTY EveryAllocationReturns
CHECK_DEADLOCK FALSE
