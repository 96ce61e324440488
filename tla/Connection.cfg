SPECIFICATION FairSpec
CONSTANTS
    c1 = c1
    Client <- Clients
    AllowedPlayers = 1
    Plans <- EveryPlan
INVARIANTS
    TypeOK
    ConnectedIsMutual
PROPERTIES
    SessionSpec
    HalfOpenEnds
\* Everybody may have gone, or an attempt may be over.
CHECK_DEADLOCK FALSE
