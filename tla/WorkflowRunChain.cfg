SPECIFICATION Spec
CONSTANTS
    a = a
    b = b
    Steps <- Pair
    Deps <- ChainDeps
    AutoRetry <- FirstRetriesOnce
    MaxRuns = 2
    Limit = 1
    MaxRestarts = 1
    MaxWork = 2
INVARIANTS
    TypeOK
    DependenciesRespected
    RunningAccounted
    CancelledIsQuiet
    SuccessIsComplete
PROPERTIES
    CancelledLeft
    OutcomeIsFinal
    PromotionHappens
    ConvergenceHappens
