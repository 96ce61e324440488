CONSTANTS
  Loads <- Burst
  OrderModulus = 8
  MinWindow = 2
  MaxWindow = 3
  Timeout = 3
  ResendDelay = 1
  FrameSize = 2
  Uptime = 3
  MaxDelay = 0
  MaxLosses = 0
  MaxCopies = 0
SPECIFICATION Spec
INVARIANTS
  DeadMeansUnacknowledged
