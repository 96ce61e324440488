CONSTANTS
  Wishes = {"left"}
  RulesMissing = {TRUE}
  MaxRequests = 2
SPECIFICATION FairSpec
INVARIANTS
  TypeOK
  PauseMirror
  ResultIsRight
  NobodyPlaysWithoutRules
PROPERTIES
  LeavingIsNoticed
  ReplayArrives
  GameBegins
\* both players may be gone, or the server
CHECK_DEADLOCK FALSE
