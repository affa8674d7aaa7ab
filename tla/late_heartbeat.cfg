SPECIFICATION Spec
CONSTANTS
    w1 = w1
    w2 = w2
    NoClaim = NoClaim
    NoWorker = NoWorker
    Workers <- OneWorker
    RetryBudget = 0
    MaxBeats = 1
PROPERTIES DoneStaysDone
