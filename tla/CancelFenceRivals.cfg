SPECIFICATION Spec
CONSTANTS
    q1 = q1
    q2 = q2
    q3 = q3
    c1 = c1
    c2 = c2
    Core = core
    Runs <- OneRun
    Commands = {c1, c2}
    Requests = {q1, q2, q3}
    CmdOf <- Rivals
    MaxEpoch = 2
    MaxCrashes = 1
INVARIANTS TypeOK FenceFreezes CancelledIsStopped StoppedOnce StoresAgree FenceHasDriver AppliedIsDurable
PROPERTY AtomicSpec
