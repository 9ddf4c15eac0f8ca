SPECIFICATION Spec
CONSTANTS
    SessionRuns = {1, 2}
    SessionRows = {1, 2}
    MaxOutputEpoch = 2
    MaxSeq = 2
    RingMax = 1
    BatchMax = 2
    MaxSinkFaults = 1
    Writers = {1, 2}
    EpochOf <- MCEpochOf
    Payloads = {1, 2}
    MaxWriterLease = 2
    MaxInput = 2
    AckWindow = 1
    Answers = {1, 2}
    MaxQuestions = 2
    Parents = {1, 2}
    Joins <- OneJoin
    MaxAttempt = 2
    MaxCoreCrashes = 1
    MaxRefusals = 1
    Graphs <- MCGraphs
    FirstGraph <- Chain
    MaxRevision = 2
    MaxTries = 2
    MaxSaves = 1
    Flows = {"flow", "other"}
    Executions = {"run"}
    StoreOf <- MCStoreOf
    Subscribers = {1}
    JournalMax = 2
    QueueMax = 1
    MaxStored = 3
    MaxStream = 2
    MaxStreamFaults = 1
    Commands = {"c1", "c2"}
    Controllers = {"a", "b"}
    MaxAggregate = 3
    MaxLeaseEpoch = 2
    MaxLost = 1
    MaxCollections = 2
INVARIANTS
    SessionSafety
    OutputSafety
    WriterSafety
    QuestionSafety
    JoinSafety
    RevisionSafety
    StreamSafety
    CommandSafety
PROPERTY
    ServiceSteps
CHECK_DEADLOCK FALSE
