SPECIFICATION NotificationSpec
CONSTANTS
  Hashes = {"alarm", "battery"}
  Reread = {"alarm"}
  Levels = {"battery"}
  Rules = {"both", "message"}
  Needs <- MCNeeds
  Channel <- MCChannel
  Cooldown = 2
  Fault = "fault"
  Notifiers = {"telegram"}
  Routes <- MCRoutes
  QueueSize = 1
  RateLimit = 2
  Day = 4
  Handlers = {h1, h2}
  Setups <- MCSetups
  None = None
SYMMETRY Symmetry
INVARIANTS ConditionsHeld RateIsLimited NoFaultSkipped
PROPERTY CooldownKept
