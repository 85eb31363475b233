SPECIFICATION WalkSpec
CONSTANTS
  k0 = k0
  k1 = k1
  k3 = k3
  Key <- MCKey
  Val = {v1}
  None = None
  Hash <- MCHash
  InitialSize = 1
  MaxExp = 2
  EmptyVisits = 2
  ForceRatio = 2
  Batch = {1}
  MaxPause = 1
  Bits = 3
INVARIANTS IteratesOnce IteratorInPlace ScanComplete
PROPERTIES CursorGoesUp
