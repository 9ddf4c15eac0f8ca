SPECIFICATION FairSpec
CONSTANTS
    c1 = c1
    r1 = r1
    r2 = r2
    Commands = {c1}
    Requests = {r1, r2}
    CmdOf <- Resend
    MaxLease = 2
    MaxCrashes = 1
    MaxFaults = 1
CHECK_DEADLOCK FALSE
INVARIANTS
    TypeOK
    CreatedOnce
    EffectAfterAcceptance
    EndsAgree
    DispatchNotLost
    DispatchBlocks
PROPERTIES
    EndIsFinal
    NoWorkAfterEnd
    StartEnds
