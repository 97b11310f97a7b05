CONSTANTS
    Limits <- SomeLimits
    InitialRows = 4
    Times <- TwoTimes
    MaxChanges = 3
SPECIFICATION Spec
INVARIANTS
    NothingSettledIsMissed
    RepeatsAreAccountedFor
    AttemptHistoryIsExact
