CONSTANTS
    e1 = e1
    ew1 = ew1
    ew2 = ew2
    rw1 = rw1
    rw2 = rw2
    Events = {e1}
    Subs = {1, 2}
    MatchingSubs <- AllMatch
    EventWorkers = {ew1}
    RetryWorkers = {rw1}
    ProviderOutcomes = {"success", "retryable", "terminal"}
    MaxRetryLimit = 2
    MaxStalledCount = 1
    RetryIdAnswers = {"taken", "refused"}
    NoWorker = NoWorker
    Faults = {}
    AdminChanges = FALSE
SPECIFICATION FairSpec
INVARIANT RetryingIsAccountedFor
PROPERTY EveryMatchIsResolved
