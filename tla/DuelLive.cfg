CONSTANTS
  RuleSets <- LiveRules
  SquishTolerance = 1
  FirewallFactor = 3
  ScoreToWin = 1
  AirTime = 1
  RestTime = 2
  MaxScore = 2
SPECIFICATION FairSpec
PROPERTIES
  RoundRestarts
\* a match that is won is not stepped any more
CHECK_DEADLOCK FALSE
