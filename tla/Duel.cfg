CONSTANTS
  RuleSets <- AllRules
  SquishTolerance = 2
  FirewallFactor = 2
  ScoreToWin = 2
  AirTime = 1
  RestTime = 1
  MaxScore = 4
SPECIFICATION Spec
INVARIANTS
  TypeOK
  RoundCanRestart
  WinnerIsCurrent
  TouchesBelongToOneSide
  BouncesBelongToOneSide
PROPERTIES
  OnePointPerFrame
  DeadBallCountsForNothing
  RallySpec
\* a match that is won is not stepped any more
CHECK_DEADLOCK FALSE
