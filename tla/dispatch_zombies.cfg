SPECIFICATION Spec
CONSTANTS
    a = a
    b = b
    w1 = w1
    w2 = w2
    NoClaim = NoClaim
    NoWorker = NoWorker
    NoJob = NoJob
    Cards <- TwoCards
    DependsOn <- NoDeps
    Rank <- Priority
    Workers <- TwoWorkers
    Backlog = {"ready"}
    InfraBudget = 0
    LeaseBudget = 1
    ReworkBudget = 0
    MoveTargets = {}
    MaxOps = 0
    MaxClaims = 2
    WipLimit = 1
SYMMETRY WorkerSymmetry
INVARIANTS TypeOK ClaimFitsColumn WipRespected
PROPERTIES OrphansAreSuperseded
