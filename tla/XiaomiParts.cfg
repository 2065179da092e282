SPECIFICATION PartsSpec
CONSTANTS
  Instances <- TwoInstances
  Gestures <- TwoGestures
  MaxMain = 2
  MaxTasks = 1
INVARIANTS
  PartsInv
  EarpieceRestored
PROPERTIES
  PulseHasCause
  OffIsWatched
CHECK_DEADLOCK FALSE
