SPECIFICATION CalmSpec
CONSTANTS
  k0 = k0
  k2 = k2
  k3 = k3
  Key <- MCKey
  Val = {v1, v2}
  None = None
  Hash <- MCHash
  InitialSize = 1
  MaxExp = 2
  EmptyVisits = 2
  ForceRatio = 2
  Batch = {2}
  MaxPause = 1
SYMMETRY Symmetry
INVARIANTS KeysInPlace CountsMatch RehashFrontier GrowthKeepsUp
PROPERTIES RehashProgress ActsAsMap
