SPECIFICATION SweepSpec
CONSTANTS
    w1 = w1
    w2 = w2
    org1 = org1
    NoWorker = NoWorker
    Event = {1, 2}
    Active = {1, 2}
    Coalesced = {}
    Org = {org1}
    OrgOf <- MCOrgOf
    Worker <- MCOneWorker
    MaxAttempts = 1
    BatchLimit = 2
    LeaseTicks = 1
    EnqueueDelays = {0}
    RetryDelays = {0}
    ClockOffset <- MCClocks
INVARIANTS
    PassFinishesBeforeExit
CHECK_DEADLOCK FALSE
