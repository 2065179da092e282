SPECIFICATION FairSpec
CONSTANTS
  Clients <- TwoClients
  Binders <- TwoBinders
  NoClient = NoClient
INVARIANTS
  HciInv
  OrderlyIsSafe
PROPERTIES
  DeathEndsSession
