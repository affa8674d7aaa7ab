SPECIFICATION Spec
CONSTANTS
    a = a
    b = b
    c = c
    NoCard = NoCard
    Torn = Torn
    Cards <- ThreeCards
    DependsOn <- Waits
    OldCards <- Left
    MaxOps = 1
CHECK_DEADLOCK FALSE
INVARIANTS TypeOK AllOrNothing ReportsTruthful MemoryMatchesFiles
PROPERTIES ImplementsBoard EventsFollowFacts
