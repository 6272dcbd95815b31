SPECIFICATION FairSpec
CONSTANTS
    w1 = w1
    w2 = w2
    NoWorker = NoWorker
    Event = {1, 2}
    Active = {1, 2}
    Worker <- MCWorker
    MaxAttempts = 2
    BatchLimit = 2
    LeaseTicks = 1
    EnqueueDelays = {0}
    RetryDelays = {1}
    ClockOffset <- MCSkewedClocks
INVARIANT
    OutboxConsistent
PROPERTIES
    KeepsPromise
    EventuallySettled
CHECK_DEADLOCK FALSE
