CONSTANTS
    w1 = w1
    w2 = w2
    email = email
    digest = digest
    Jobs = {j1, j2}
    Workers = {w1, w2}
    JobTypes = {email, digest}
    Handles <- MCHandles
    MaxAttempts = {2}
    Backoff = 1
    BackoffCap = 3
    StaleTimeout = 1
    Horizon = 0
    MaxFaults = 2
    NoJob = NoJob

SPECIFICATION FairSpec

INVARIANTS
    TypeOK
    AttemptsBounded
    ExclusiveUntilReaped
    OutcomeIsEarned

PROPERTIES
    OutcomeIsFinalUntilReaped
    KeepsContract
    EventuallySettled
