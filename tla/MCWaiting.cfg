SPECIFICATION WaitingSpec
CONSTANTS
  TryLimit = 3
  Payload <- Payloads
  Timeout = 2
  MaxQueue = 2
  AddressBits = 3
  PortCount = 2
  Slots = 6
  Tris = 3
  MaxCount = 3
  Adder = {"a1", "a2"}
  Reader = {"r1", "r2"}
  Offset = {0, 1}
  MaxTime = 2
  MaxTimers = 2
  Lengths = {1, 2}
  EAGAIN = 1
  BufSize = 2
  MaxBytes = 4
  MaxFd = 2
INVARIANTS SilenceIsTrue ReportsWhatSpoke WakeupsExact
PROPERTIES PingEnds EveryWriteRead EveryTimerFires ClientsServed
CHECK_DEADLOCK FALSE
