SPECIFICATION Spec
CONSTANTS
  Names <- BacklightNames
  States <- OneState
  FileSets <- BacklightFileSets
INVARIANTS
  LightsInv
