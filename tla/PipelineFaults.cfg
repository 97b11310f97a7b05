CONSTANTS
    e1 = e1
    ew1 = ew1
    ew2 = ew2
    rw1 = rw1
    rw2 = rw2
    Events = {e1}
    Subs = {1}
    MatchingSubs <- AllMatch
    EventWorkers = {ew1, ew2}
    RetryWorkers = {rw1, rw2}
    ProviderOutcomes = {"success", "retryable", "terminal"}
    MaxRetryLimit = 1
    MaxStalledCount = 1
    RetryIdAnswers = {"taken"}
    NoWorker = NoWorker
    Faults = {"crash", "error", "apicrash"}
    AdminChanges = TRUE
SPECIFICATION FairSpec
INVARIANTS
    TypeOK
    ResentOnlyAfterRetryableFailure
    RetryBudget
    AttemptLedger
    JobsReferToRows
    RetriesAreRecorded
    ClaimHolds
    OneAttemptAtATime
    Exclusion
    Ledger
    LostRetryLeavesTrace
PROPERTIES ImplementsLifecycle QueuesDrain
