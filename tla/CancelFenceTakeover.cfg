SPECIFICATION ResendSpec
CONSTANTS
    q1 = q1
    q2 = q2
    q3 = q3
    c1 = c1
    c2 = c2
    Core = core
    Runs <- OneRun
    Commands = {c1}
    Requests = {q1}
    CmdOf <- Single
    MaxEpoch = 2
    MaxCrashes = 0
PROPERTY FenceSurvivesTakeover
