SPECIFICATION Spec
CONSTANTS
  Nodes = {lcp, pml, other}
  Strict = {pml, other}
  Lone = {other}
  Process <- LonersApart
  Partial = Partial
  Stale = Stale
  None = None
  MaxFiles = 2
INVARIANTS ParamsInv LoneNodesOwnParameters
PROPERTY AtomicCounterSuffices
