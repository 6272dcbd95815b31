SPECIFICATION AccessSpec
CONSTANTS
    slow = slow
    fast = fast
    v = v
    y = y
    z = z
    p1 = p1
    p2 = p2
    known = known
    unknown = unknown
    usual = usual
    other = other
    none = none
    Process = {slow, fast}
    Limit = 2
    Window = 2
    Keep = 4
    Ahead <- MCAhead
    Interval = 3
    RetryInterval = 1
    BatchSize = 1
    MaxTime = 6
    Administrator = {v, y, z}
    Initial = v
    Request = {p1, p2}
    None = none
    MaxIssue = 1
    Event = {known, unknown}
    Unsupported = {unknown}
    PollInterval = 1
    TelemetryInterval = 2
    MaxStaleness = 1
    MaxReadyAge = 2
    MaxUnsupportedAge = 3
    MaxDeadLetters = 0
    MaxSweep = 1
    MaxDelay = 1
    Horizon = 4
    Person = {slow, fast}
    Requester = fast
    Setting = {usual, other}
    Default = usual
    Command = {p1, p2}
    MaxVersion = 3
SYMMETRY Alike
INVARIANTS
    LimiterConsistent
    SuperadminConsistent
    ReadinessIsHonest
PROPERTIES
    OwnersStayInCharge
    PrivacyKept
CHECK_DEADLOCK FALSE
