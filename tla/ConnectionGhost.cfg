SPECIFICATION Spec
CONSTANTS
    c1 = c1
    Client <- Clients
    AllowedPlayers = 1
    Plans <- Quiet
INVARIANT EveryPlayerHasAConnection
\* An attempt may be over.
CHECK_DEADLOCK FALSE
