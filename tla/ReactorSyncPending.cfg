SPECIFICATION Spec
CONSTANTS
  Size = 4
  Radix = 2
  Tags <- MCTags
  MaxCalls <- MCMaxCalls
PROPERTY EveryCallAnswered
CHECK_DEADLOCK FALSE
