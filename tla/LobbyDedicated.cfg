CONSTANTS
  alice = alice
  bob = bob
  carol = carol
  Away = Away
  Waiting = Waiting
  Playing = Playing
  Client <- Three
  Password <- NoPasswords
  PlayerHosted = FALSE
  MaxRequests = 4
  MaxDepartures = 1
SPECIFICATION Spec
SYMMETRY AnyPlayer
INVARIANTS
  OneGamePerPlayer
  LobbyMirror
  EveryGameIsListed
PROPERTIES
  TablesSpec
\* everybody may be gone, or playing, or have nothing to ask for
CHECK_DEADLOCK FALSE
