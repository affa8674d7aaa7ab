SPECIFICATION CrashSpec
CONSTANTS
    a = a
    b = b
    w1 = w1
    w2 = w2
    NoClaim = NoClaim
    NoWorker = NoWorker
    NoJob = NoJob
    Cards <- TwoCards
    DependsOn <- NoDeps
    Rank <- Priority
    Workers <- OneWorker
    Backlog = {"ready"}
    InfraBudget = 1
    LeaseBudget = 0
    ReworkBudget = 1
    MoveTargets = {"ready", "done"}
    MaxOps = 2
    MaxClaims = 1
    WipLimit = 1
INVARIANT ClaimsBounded
PROPERTIES OnlyOwnersResult DoneIsFinal
