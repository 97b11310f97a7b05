CONSTANTS
    e1 = e1
    ew1 = ew1
    ew2 = ew2
    rw1 = rw1
    rw2 = rw2
    Events = {e1}
    Subs = {1, 2}
    MatchingSubs <- AllMatch
    EventWorkers = {ew1}
    RetryWorkers = {rw1}
    ProviderOutcomes = {"success", "retryable"}
    MaxRetryLimit = 1
    MaxStalledCount = 1
    RetryIdAnswers = {"taken"}
    NoWorker = NoWorker
    Faults = {"crash"}
    AdminChanges = FALSE
SPECIFICATION Spec
INVARIANTS
    ResentOnlyAfterRetryableFailure
    AttemptLedger
    FailedEventHasFailedDelivery
PROPERTY ImplementsLifecycle
