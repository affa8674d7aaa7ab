SPECIFICATION Spec
CONSTANTS
    a = a
    thinker = thinker
    k1 = k1
    k2 = k2
    planner = planner
    worker = worker
    gemini = gemini
    reviewer = reviewer
    unknown = unknown
    NoProfile = NoProfile
    Project = Project
    Nothing = Nothing
    Cards = {a}
    Criteria = {k1, k2}
    Profiles = {planner, thinker, worker, gemini, reviewer}
    Pins = {NoProfile, gemini, unknown}
    Configs <- Files
    RetryBudget = 1
    ReworkBudget = 1
    MaxEdits = 1
CHECK_DEADLOCK FALSE
INVARIANTS TypeOK RightRole Fresh Attributed OwnWords RouterInPlace RouterHarmless FallbackJustified
PROPERTIES ContractKept
