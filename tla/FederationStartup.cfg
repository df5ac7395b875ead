SPECIFICATION FairSpec
CONSTANTS
  Federates <- SomeFederates
INVARIANTS StartupInv StartsConnected AllOrNobody DoneMeansAllEnded BarrierNeverStalls
PROPERTIES EverybodyStarts NobodyIsLeft
