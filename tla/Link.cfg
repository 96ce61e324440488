CONSTANTS
  Loads <- Mixed
  OrderModulus = 8
  MinWindow = 2
  MaxWindow = 3
  Timeout = 3
  ResendDelay = 1
  FrameSize = 2
  Uptime = 3
  MaxDelay = 0
  MaxLosses = 1
  MaxCopies = 1
SPECIFICATION FairSpec
INVARIANTS
  TypeOK
  SequencedNeverGoesBack
  AcknowledgedIsThere
  MissingIsYoung
  OnlyACutKills
PROPERTIES
  LinkSpec
  LossIsNoticed
  ThrottleEnds
