SPECIFICATION Spec
CONSTANTS
  Names <- LedLights
  States <- SomeStates
  FileSets <- LedFileSets
INVARIANTS
  ShownInEffect
