SPECIFICATION Spec
CONSTANTS
  None = None
  Loop = loop
  Callers = {loop, other}
  Positions = {0, 1}
  Smoothing = 2
  FullResyncEvery = 1
  MaxLate = 1
INVARIANT ServerKnowsLastSent
PROPERTY ServerCatchesUp
CHECK_DEADLOCK FALSE
