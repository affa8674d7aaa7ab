SPECIFICATION CrashSpec
CONSTANTS
    a = a
    b = b
    w1 = w1
    w2 = w2
    NoClaim = NoClaim
    NoWorker = NoWorker
    NoJob = NoJob
    Cards <- TwoCards
    DependsOn <- Chain
    Rank <- Priority
    Workers <- OneWorker
    Backlog = {"ready"}
    InfraBudget = 1
    LeaseBudget = 0
    ReworkBudget = 0
    MoveTargets = {}
    MaxOps = 1
    MaxClaims = 1
    WipLimit = 1
INVARIANTS DoingClaimed
