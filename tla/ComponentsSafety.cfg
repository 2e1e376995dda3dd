SPECIFICATION Spec
CONSTANTS
    p1 = p1
    p2 = p2
    Focuses = {"delivery", "schedule", "rerun", "status", "artifact", "cache", "logs", "execution", "selection", "planning", "matching", "masking"}
    Payloads <- AllPayloads
    Tree <- TwoRevisions
    MaxFiles = 3
    MaxFanOut = 3
    MaxRequests = 2
    MaxExpired = 1
    MaxDeliveryFaults = 1
    ScheduledRepositories <- TwoRepositories
    Cron <- DueMinutes
    Unsupported <- Unreadable
    MaxMinute = 2
    MaxPushes = 1
    MaxScheduleFaults = 1
    Consoles = {p1, p2}
    MaxAttempt = 3
    MaxRunUid = 3
    MaxRerunFaults = 1
    Runs = {1, 2}
    Controllers = {p1, p2}
    MaxNumber = 4
    MaxIdentityFaults = 1
    Reporters = {p1, p2}
    Newest = 2
    MaxReportFaults = 1
    Requests = {p1, p2}
    ArtifactNames = {n}
    MaxArtifactId = 2
    BlockIds = {1, 2}
    BlockSizes = {1, 2}
    BlockLists <- CommittedLists
    MaxArtifactBytes = 3
    MaxRunBytes = 3
    MaxArtifactsPerJob = 2
    MaxUploads = 3
    MaxArtifactFaults = 1
    CacheRequests = {p1, p2}
    Repositories = {r1, r2}
    CacheKeys = {k}
    MaxEntries = 2
    Ranges <- CacheRanges
    RangeSizes = {1, 2}
    MaxEntryBytes = 2
    MaxRepositoryBytes = 2
    MaxTotalBytes = 3
    MaxCacheUploads = 2
    MaxCacheFaults = 1
    MaxOutput = 4
    WriteSizes = {2}
    SpoolBytes = 2
    ChunkBytes = 2
    MaxLogBytes = 3
    MaxLogChunks = 2
    MaxLogFaults = 1
    MaxLines = 5
    BatchEntryLimit = 2
    BatchByteLimit = 3
    MaxBreaks = 2
    Plans <- AllPlans
    LogicalJobs = {"a", "m", "d"}
    Needs <- ChainNeeds
    Totals <- ChainTotals
    Deferred = {"m"}
    MaxAttempts = 3
    MaxLost = 1
    Files <- AllFiles
    SortedNames <- NameOrder
    MaxJobs = 4
    MaxMatrixJobs = 4
    MaxMapEntries = 2
    MaxRunnerLabels = 2
    DefaultMinutes = 6
    MaxMinutes = 5
    Cases <- AllCases
    BadGlobs = {"["}
    MaxPatterns = 3
    MaxChangedFiles = 2
    MaxCommits = 1
    MaxInputs = 2
    MaxPayload = 6
    Writers = {p1, p2}
    Chunks <- OutputChunks
    FirstMasks <- Secrets
    MaxCommandBytes = 3
    MaxMaskBytes = 3
    BufferBytes = 3
    MaxText = 4
INVARIANTS
     ScheduleKept GuardedKeepsSnapshot RerunFaithful PlanningSound TriggersHonoured
       
PROPERTIES StatusesInOrder 
SYMMETRY ActorSymmetry
CHECK_DEADLOCK FALSE
