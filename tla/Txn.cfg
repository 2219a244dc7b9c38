SPECIFICATION Spec
CONSTANTS
  None = None
  Torn = Torn
  Unknown = Unknown
  NoPending = NoPending
  NoPair = NoPair
  v1 = v1
  v2 = v2
  v3 = v3
  Version <- MCVersion
  Setups <- SoundSetups
  MaxRuns = 2
  MaxWrites = 1
INVARIANT ReportsFinal
PROPERTIES Refines 
