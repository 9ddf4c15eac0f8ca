SPECIFICATION MergeSpec
CONSTANTS
    Files = {1, 2}
    Leases = {"x"}
    MaxMergeWork = 1
INVARIANT FailedMergeIsUndone
CHECK_DEADLOCK FALSE
