SPECIFICATION FairSpec
CONSTANTS
  InPackets <- In
  OutPackets <- Out
  Writers <- TwoWriters
  Radix = 2
  MaxPackets = 2
INVARIANTS
  FramingInv
PROPERTIES
  ChannelsOfPackets
  Delivered
CHECK_DEADLOCK FALSE
