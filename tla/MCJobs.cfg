SPECIFICATION FairSpec
CONSTANTS
    Jobs = {j1}
    Workers = {w1, w2}
    Passes = {p1}
    Nobody = Nobody
    MaxAttempts = 2
    MaxPublish = 2
    JobLease = 1
    OutboxLease = 1
    DelayCap = 1
    Limit = 2
INVARIANTS
    DispatchRows
    AttemptHistory
    OneRunnerPerAttempt
    NoDeadPendingRow
PROPERTIES
    FencedOutcome
    ImplementsLifecycle
    EventuallySettled
