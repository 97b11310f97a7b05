CONSTANTS
    e1 = e1
    ew1 = ew1
    ew2 = ew2
    rw1 = rw1
    rw2 = rw2
    Events = {e1}
    Subs = {1}
    MatchingSubs <- AllMatch
    EventWorkers = {ew1}
    RetryWorkers = {rw1}
    ProviderOutcomes = {"success", "retryable", "terminal"}
    MaxRetryLimit = 0
    MaxStalledCount = 1
    RetryIdAnswers = {"taken"}
    NoWorker = NoWorker
    Faults = {"apicrash"}
    AdminChanges = FALSE
SPECIFICATION Spec
INVARIANT RecordedEventsAreQueued
