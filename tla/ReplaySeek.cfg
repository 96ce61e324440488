CONSTANTS
  Input = {idle, jump}
  Idle = idle
  Unheard = Unheard
  REPLAY_SAVEPOINT_PERIOD = 3
  FillSteps = 1
  StepsPerCall = 2
  BarWidth = 5
  BarMargin = 2
  NormalSpeed = 2
  MaxSpeed = 4
  MaxFrames = 4
  MaxClicks = 2
SPECIFICATION FairSpec
INVARIANTS
  TypeOK
  ReplayIsFaithful
  FindsLastSavePoint
PROPERTIES
  JumpEnds
  ReplayEnds
\* nobody has to watch a replay, and the clicks run out
CHECK_DEADLOCK FALSE
