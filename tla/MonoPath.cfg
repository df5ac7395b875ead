SPECIFICATION Spec
CONSTANTS
  Ports <- FourPorts
  MaxTick = 2
INVARIANTS MonoInv
PROPERTIES ImplementsChannel
