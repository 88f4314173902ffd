SPECIFICATION Spec
CONSTANTS
  Size = 4
  Radix = 2
  Tags <- MCTags
  MaxCalls <- MCMaxCalls
INVARIANTS
  TypeOK
  NoEarlyCallback
  UniformOrder
  RoundInv
PROPERTY ImplementsBarrier
CHECK_DEADLOCK FALSE
