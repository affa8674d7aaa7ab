SPECIFICATION Spec
CONSTANTS
    NoClaim = NoClaim
    Budget = 1
    MaxWork = 2
    MaxClaims = 3
    MaxMoves = 2
    MaxKills = 1
CHECK_DEADLOCK FALSE
INVARIANTS TypeOK WorkKept Detached
PROPERTIES Isolated Reclaimed
