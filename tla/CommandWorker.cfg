SPECIFICATION FairSpec
CONSTANTS
  Commands = 3
  Workloads <- MCWorkloads
  Capacity = 1
  MaxFaults = 2
INVARIANTS NoCommandLost Isolated InstalledOnce InOrder
PROPERTY Drains
CHECK_DEADLOCK FALSE
