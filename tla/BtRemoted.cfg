SPECIFICATION FairSpec
CONSTANTS
  FrameLen = 2
  Trim = 3
  BufSize = 5
  MaxPackets = 5
  MaxLost = 3
  FS = 4
  N = 4
  M = 2
  SBCRT = 1
  OLAL = 2
INVARIANTS
  RelayInv
  KeepsTime
  ClientHasSource
PROPERTIES
  Drained
CHECK_DEADLOCK FALSE
