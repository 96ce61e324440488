CONSTANTS
  alice = alice
  bob = bob
  carol = carol
  Away = Away
  Waiting = Waiting
  Playing = Playing
  Client <- Two
  Password <- Passwords
  PlayerHosted = TRUE
  MaxRequests = 3
  MaxDepartures = 1
SPECIFICATION FairSpec
INVARIANTS
  TypeOK
  RulesOnlyInGameSubstate
PROPERTIES
  LeaveIsAnswered
\* everybody may be gone
CHECK_DEADLOCK FALSE
