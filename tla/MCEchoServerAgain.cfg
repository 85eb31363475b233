SPECIFICATION Spec
CONSTANTS
  Client = {x1}
  Conn = {c1, c2}
  Listener = L
  None = None
  BufSize = 2
  EAGAIN = 1
  Lengths = {1, 2}
  MaxBytes = 2
  MaxFd = 3
  Failures = {}
  Junk = {"clean"}
  SlowClients = FALSE
  Orderly = FALSE
INVARIANTS ReadyClearedOnAgain
CHECK_DEADLOCK FALSE
