CONSTANTS
  alice = alice
  bob = bob
  carol = carol
  Away = Away
  Waiting = Waiting
  Playing = Playing
  Client <- Two
  Password <- NoPasswords
  PlayerHosted = FALSE
  MaxRequests = 3
  MaxDepartures = 1
SPECIFICATION Spec
INVARIANTS
  NoAssertionFails
\* everybody may be gone, or playing, or have nothing to ask for
CHECK_DEADLOCK FALSE
