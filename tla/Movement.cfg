CONSTANTS
  Places = {0, 1, 2, 3, 4, 5}
  Far = far
  Unset = none
  States = {"stand-by", "ready-to-drive", "hop-on"}
  Unattended = {"stand-by"}
  Reported <- MCReported
  Samples = 3
  MinConsistent = 2
  Lag = 2
  Stability = 1
  RearmCooldown = 1
  MaxHandlers = 2
  MaxUpdates = 1
SPECIFICATION MovementSpec
PROPERTIES  ConfirmedMeansTaken TheftIsReported
