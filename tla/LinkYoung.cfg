CONSTANTS
  Loads <- Welcome
  OrderModulus = 8
  MinWindow = 2
  MaxWindow = 3
  Timeout = 3
  ResendDelay = 1
  FrameSize = 2
  Uptime = 0
  MaxDelay = 0
  MaxLosses = 1
  MaxCopies = 0
SPECIFICATION Spec
INVARIANTS
  AcknowledgedIsThere
