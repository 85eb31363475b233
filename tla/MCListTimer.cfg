SPECIFICATION Spec
CONSTANTS
  Adder = {a1, a2}
  Reader = {r1, r2}
  Node = {n1, n2, n3}
  NULL = NULL
  NoThread = NoThread
  Offset <- MCOffset
  MaxTime = 3
  MaxTimers = 3
SYMMETRY Symmetry
INVARIANTS SortedList NoDanglingLink NeverEarly
PROPERTIES FireInOrder ImplementsTimerQueue
