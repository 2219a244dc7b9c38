SPECIFICATION FairSpec
CONSTANTS
  Client = {c1, c2}
  Handler = {h1, h2}
  NoClient = NoClient
  NoHandler = NoHandler
  Attempts = 2
  MaxFailures = 2
  Requests = {"reconnect", "suspend", "resume"}
  MaxFaults = 2
INVARIANTS ReadyIsCurrent NoOrphan 
 
