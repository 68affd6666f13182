SPECIFICATION Spec
CONSTANTS
    loop1 = loop1
    loop2 = loop2
    w1 = w1
    w2 = w2
    job = job
    None = None
    Loops = {loop1, loop2}
    Workers = {w1, w2}
    Submitted = {job}
    MaxSchedules = 2
    Interval = 1
    MaxTime = 2
    MaxAttempts = 2
    MaxPublish = 2
    JobLease = 1
    DelayCap = 1
    Limit = 1
CONSTRAINT MCFewJobs
INVARIANTS
    SlotsAreExact
    AttemptsTellTheState
PROPERTY KeepsLifecycle
CHECK_DEADLOCK FALSE
