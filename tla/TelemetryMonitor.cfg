SPECIFICATION MonitorSpec
CONSTANTS
  Hashes <- MCHashes
  Priorities <- MCPriorities
  Priority <- MCPriority
  Values = {0, 1, 2}
  Bucket = 2
  ReadsFail = TRUE
  MaxFanOuts = 2
  MaxStray = 2
INVARIANT PendingIsTimed
PROPERTY ChangeIsFlushed
CHECK_DEADLOCK FALSE
