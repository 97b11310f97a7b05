CONSTANTS
    e1 = e1
    ew1 = ew1
    ew2 = ew2
    rw1 = rw1
    rw2 = rw2
    Events = {e1}
    Subs = {1}
    MatchingSubs <- AllMatch
    EventWorkers = {ew1, ew2}
    RetryWorkers = {rw1}
    ProviderOutcomes = {"retryable"}
    MaxRetryLimit = 1
    MaxStalledCount = 1
    RetryIdAnswers = {"taken"}
    NoWorker = NoWorker
    Faults = {"lockloss", "crash"}
    AdminChanges = FALSE
SPECIFICATION Spec
SYMMETRY WorkerSymmetry
INVARIANTS
    JobsReferToRows
    NoInventedAttempt
    SendsAreBounded
    UnrecordedSendsLeaveTrace
