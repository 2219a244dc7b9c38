SPECIFICATION Spec
CONSTANTS
  None = None
  MaxStops = 2
  MaxRevision = 4
  MaxProbes = 3
  MaxConnections = 2
  MaxGeneration = 1
  QueueSize = 2
INVARIANTS ResultIsTrue GateFollowsJournal
PROPERTY ApplyIsConfirmed
CHECK_DEADLOCK FALSE
