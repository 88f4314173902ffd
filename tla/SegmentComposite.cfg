SPECIFICATION SafeSpec
CONSTANTS
  p1 = p1  p2 = p2  p3 = p3  wide = wide  big = big
  Procs = {p1, p2}
  Size <- MCSize
  Blocking = {p1, p2}
  Blocks = 2
  Capacity = 1
  MaxSize = 1
  MaxCalls <- MCMaxCalls
INVARIANT NoSleeperMissed
CHECK_DEADLOCK FALSE
