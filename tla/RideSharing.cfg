SPECIFICATION Spec
CONSTANTS
  Sessions = {s1, s2}
  None = None
  MaxActivities = 2
  MaxStreams = 2
  MaxRevision = 2
  MaxSequence = 2
  MaxChanges = 2
  MaxConnections = 2
  Regrants = FALSE
SYMMETRY Symmetry
PROPERTIES   ClearIsFinal
CHECK_DEADLOCK FALSE
