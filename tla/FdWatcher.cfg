SPECIFICATION WatcherFairSpec
CONSTANTS
  Fds <- MctFds
  Senders <- TwoSenders
INVARIANTS
  WatcherInv
PROPERTIES
  DataIsRead
  WakeIsReleased
