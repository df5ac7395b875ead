SPECIFICATION FairSpec
CONSTANTS
  Ports <- ThreePorts
  SocketCap = 2
  MaxTick = 2
INVARIANTS PathInv PublishedInOrder
PROPERTIES ImplementsChannel VehicleNeverRegresses GateUnblocks CommandTakesEffect
