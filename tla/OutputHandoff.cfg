SPECIFICATION FairSpec
CONSTANTS
  MaxMade = 6
  Torn = Torn
INVARIANTS HandoffInv ForwardsEach PollNeverRegresses
PROPERTIES QuietOutputIsForwarded ImplementsMailbox LockSuffices
