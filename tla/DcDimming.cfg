SPECIFICATION FairSpec
CONSTANTS
  Instances = {i1, i2}
  MaxPending = 2
  MaxAsleep = 2
  MaxSwitches = 2
  MaxReg = 2
INVARIANTS
  TypeOK
  WatchFollowsPref
  OnlyExcusedWrong
  OffStaysOff
PROPERTIES
  GivesWay
