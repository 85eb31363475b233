SPECIFICATION Spec
CONSTANTS
  Client = {x1, x2, x3}
  Conn = {c1, c2, c3}
  Listener = L
  None = None
  BufSize = 2
  EAGAIN = 1
  Lengths = {3}
  MaxBytes = 3
  MaxFd = 3
  Failures = {"accept", "alloc", "nonblock"}
  Junk = {"clean", "oneshot", "einval"}
  SlowClients = TRUE
  Orderly = FALSE
SYMMETRY Symmetric
INVARIANTS PoolExact ActiveIsRegistered EchoesNoMore
PROPERTIES OwnEvents
CHECK_DEADLOCK FALSE
