CONSTANTS
    MaxRetryLimit = 3
    BaseDelay = 1
    MaxPause = 2
    Replies <- SomeReplies
SPECIFICATION Spec
INVARIANTS
    AttemptsBackOff
    AnnouncedRetryIsHonest
    GivenUpForAReason
    DuplicatesComeFromLostReplies
