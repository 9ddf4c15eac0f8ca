SPECIFICATION Spec
CONSTANTS
    a = a
    b = b
    Steps <- Single
    Deps <- SingleDeps
    AutoRetry <- NoRetry
    MaxRuns = 2
    Limit = 1
    MaxRestarts = 1
    MaxWork = 3
INVARIANT
    LeaseHeldWhileRunning
