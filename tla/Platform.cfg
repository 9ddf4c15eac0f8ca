SPECIFICATION Spec
CONSTANTS
    Cores = {1, 2, 3}
    MaxOwnerFaults = 2
    Projects = {"p", "q"}
    Tokens = {1}
    Paths = {"p", "q"}
    Requests = {1, 2}
    MaxMountWork = 2
    Files = {1, 2}
    Leases = {"x", "y"}
    MaxMergeWork = 1
    WorkflowKeys = {"k"}
    NodeKeys = {1, 2, 3}
    Drafts <- SampleDrafts
    Isolates = FALSE
    MaxEdits = 3
    Programs = {1, 2}
    Versions = {2, 3}
    MaxOpens = 3
    MaxWrites = 2
    RunSteps = {1}
    MaxTries = 2
    MaxGraphs = 2
    MaxQuestions = 2
    MaxMoves = 7
    AdHocs = {1}
    Contracts = {"exit", "shown", "never"}
    Sizes <- ScreenSizes
    OscLimit = 2
    MaxTokens = 4
    Turns = {1, 2}
    Replies <- SampleReplies
    Scripted = {2}
    MaxRounds = 2
    NonceTTL = 3
    RefreshEvery = 1
    ExchangeLimit = 2
    RateTicks = 2
    MaxNonces = 4
    MaxEntryFaults = 1
    Tabs = {1, 2, 3}
    BrowserOf <- TabBrowser
    SlidingTTL = 2
    AbsoluteTTL = 3
    MaxSessions = 2
    MaxClicks = 2
    MaxAccessFaults = 1
    PipeCalls = {1, 2}
    Verbs = {"complete", "fail", "evolve"}
    Taints = {"no", "dep"}
    MaxAddedNodes = 1
    MaxOutside = 1
    MaxPipeFaults = 1
    Plans <- NeedsPlans
    FirstPlan <- NeedsChain
    Guarded = {"b"}
    MaxPlans = 2
    MaxLaunches = 2
    MaxAsked = 1
INVARIANT
    PlatformSafety
    SurfaceSafety
PROPERTIES
    PlatformSteps
    MainIsKept
CHECK_DEADLOCK FALSE
