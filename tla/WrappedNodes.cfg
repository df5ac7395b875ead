SPECIFICATION FairSpec
CONSTANT
  Programs <- SmallPrograms
INVARIANTS NodeInv TimerLeftToLF NodesOutliveCallbacks
PROPERTIES TimersStart ThreadsEnd
\* A process fails or ends.
CHECK_DEADLOCK FALSE
