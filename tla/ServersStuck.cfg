SPECIFICATION EagerSpec
CONSTANTS
  Size = 3
  Radix = 1
  Tags <- MCTags
  MaxBroadcasts = 3
  Configs <- EventsAndStops
  Stored <- MCStored
  TimeVarying = {"field"}
  Written <- MCWritten
  MaxVisItCalls = 3
PROPERTY EveryServerReturns
CHECK_DEADLOCK FALSE
