SPECIFICATION SkipSpec
CONSTANTS
  Key = {"a", "b", "c"}
  Val = {"v", "w"}
  Null = "null"
  HashOf <- Hashes
  Asked = 3
  Rank = {1, 2}
  MaxNodes = 4
  MaxDeletions = 2
  MaxLevel = 2
  Element <- SmallNumbers
  MaxLen = 5
  LineLength = 5
  Char <- Characters
  MaxText = 5
  LexInt = 3
  LexLong = 6
  Digits = {"7", "2", "0"}
  Literal <- Literals
  Programs <- Expressions
  IntBits = 6
  Bits = 12
  Size = 6
  PoolHeader = 4
  BlockHeader = 2
  LargeNode = 2
  CleanupNode = 2
  Alignment = 2
  PageMax = 2
  FailLimit = 0
  LargeScan = 1
  SizeT = 64
  Requests = {1, 3}
  MaxBlocks = 4
  MaxCleanups = 1
  Ptr = {p1, p2}
  NULL = NULL
  BoardSize = 3
  MaxScore = 24
INVARIANT DeletedIsUnlinked
CHECK_DEADLOCK FALSE
