SPECIFICATION JoinSpec
CONSTANTS
    Parents = {1, 2, 3}
    Joins <- SharedJoins
    MaxAttempt = 1
    MaxCoreCrashes = 0
    MaxRefusals = 0
INVARIANT NothingLeftBehind
