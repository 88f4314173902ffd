SPECIFICATION ServersSpec
CONSTANTS
  Size = 3
  Radix = 1
  Tags <- MCTags
  MaxBroadcasts = 3
  Configs <- MCConfigs
  Stored <- MCStored
  TimeVarying = {"field"}
  Written <- MCWritten
  MaxVisItCalls = 3
INVARIANTS
  ServersTypeOK
  BroadcastInv
  FileCallsMatch
  VisItLockstep
PROPERTIES
  VisItNeverRefused
  ImplementsAtomicBroadcast
  EventsDelivered
  ServersReturnWithoutEvents
CHECK_DEADLOCK FALSE
