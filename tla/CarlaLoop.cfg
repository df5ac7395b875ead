SPECIFICATION FairSpec
CONSTANTS
  UseTrafficManager = TRUE
  None = None
  MaxFrames = 5
  MaxCommands = 3
INVARIANTS LoopInv OneFrameLate CleanupReleases
PROPERTIES SimulationAdvances
