SPECIFICATION FairSpec
CONSTANTS
  vcg = vcg
  ss = ss
  vs = vs
  ss_fed = ss_fed
  vs_fed = vs_fed
  mono = mono
  federate__ss = federate__ss
  federate__vs = federate__vs
  Reactors <- MCReactors
  Timed <- MCTimed
  Period <- MCPeriod
  Program <- MCProgram
  Wires <- MCWires
  Sender = ss_fed
  Receiver = vs_fed
  Workers = 2
  Ports = {0}
  SocketCap = 1
  MaxTime = 2
INVARIANTS ScheduleInv SmoothsLatestTick NoProgramStalls
PROPERTIES ImplementsTimers HandledInOrder KeepsFiring TrajectoryIsSmoothed
