SPECIFICATION FairSpec
CONSTANTS
    a = a
    b = b
    w1 = w1
    w2 = w2
    NoClaim = NoClaim
    NoWorker = NoWorker
    NoJob = NoJob
    Cards <- TwoCards
    DependsOn <- Chain
    Rank <- Priority
    Workers <- OneWorker
    Backlog = {"inbox"}
    InfraBudget = 1
    LeaseBudget = 0
    ReworkBudget = 1
    MoveTargets = {"done"}
    MaxOps = 2
    MaxClaims = 2
    WipLimit = 1
INVARIANTS DoingClaimed ReworkCounted
PROPERTIES ImplementsWorkflow EnvelopesConsumed Settles
