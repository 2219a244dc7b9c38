SPECIFICATION Spec
CONSTANTS
  Requests = {r1, r2}
  Identities = {i1, i2}
  MaxTokens = 2
  MaxFaults = 3
  None = None
  Bootstrap = Bootstrap
  Foreign = Foreign
  Pushed = Pushed
INVARIANT ConnectedIsInstalled
PROPERTIES JournalIsKept EnrollmentConnects 
