CONSTANTS
  Occurrences = {e1, e2, e3}
  Flushers = {f1, f2}
  MaxRetries = 2
  MaxCrashes = 1
  MaxSaveFailures = 1

SPECIFICATION Spec
INVARIANTS Kept SentOnce SnapshotIsPrefix
PROPERTY RequestIsHonoured
