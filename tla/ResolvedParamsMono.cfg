SPECIFICATION Spec
CONSTANTS
  Nodes = {lcp, pml}
  Strict = {pml}
  Lone = {}
  Process <- LonersApart
  Partial = Partial
  Stale = Stale
  None = None
  MaxFiles = 2
INVARIANTS OwnParameters
