SPECIFICATION Spec
CONSTANTS
    NoClaim = NoClaim
    Budget = 1
    MaxWork = 1
    MaxClaims = 2
    MaxMoves = 0
    MaxKills = 1
CHECK_DEADLOCK FALSE
INVARIANT MainUntouched
