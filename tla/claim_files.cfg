SPECIFICATION Spec
CONSTANTS
    w1 = w1
    w2 = w2
    NoClaim = NoClaim
    NoWorker = NoWorker
    Workers <- TwoWorkers
    RetryBudget = 1
    MaxBeats = 2
SYMMETRY WorkerSymmetry
INVARIANTS TypeOK OneWorkerPerClaim
PROPERTIES OwnerIsFixed
