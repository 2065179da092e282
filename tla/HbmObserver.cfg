SPECIFICATION HbmFairSpec
CONSTANTS
  Threads = {t1, t2}
  Observers = {o1, o2}
  MaxPending = 2
INVARIANTS
  HbmInv
PROPERTIES
  NeedIsServed
