SPECIFICATION FewSpec
CONSTANTS
  Chips <- ShortChips
  Script <- ShortScript
  ClientOps <- Reset
  Unsolicited <- Async
  MaxDown = 1
INVARIANTS
  HalInv
  RoutingOK
PROPERTIES
  Implements
  ShutdownReturns
  InitAnswered
  ClientAnswered
