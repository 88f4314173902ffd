SPECIFICATION Spec
CONSTANTS
  Configs <- MCConfigs
  Iterations = 2
  QueueSize = 2
INVARIANTS
  TypeOK
  PlacementAgrees
  SameSegment
  StartSucceeds
  DataMatchesHeader
  GroupActionOnce
  NothingIsLeftBehind
PROPERTY EveryJobEnds
CHECK_DEADLOCK FALSE
