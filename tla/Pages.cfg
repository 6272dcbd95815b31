SPECIFICATION PagesSpec
CONSTANTS
    a = a
    b = b
    few = few
    all = all
    v1 = v1
    v2 = v2
    r1 = r1
    r2 = r2
    i1 = i1
    i2 = i2
    w1 = w1
    w2 = w2
    t1 = t1
    t2 = t2
    q1 = q1
    q2 = q2
    y1 = y1
    y2 = y2
    y3 = y3
    n1 = n1
    n2 = n2
    n3 = n3
    n4 = n4
    u1 = u1
    u2 = u2
    m1 = m1
    m2 = m2
    e1 = e1
    k1 = k1
    k2 = k2
    k3 = k3
    x1 = x1
    x2 = x2
    none = none
    Client = {a, b}
    Value = {v1, v2}
    Request = {r1, r2}
    MaxTime = 2
    Item = {i1, i2}
    Workspace = {w1, w2}
    home <- TwoHomes
    MaxAttempts = 2
    MaxRevision = 3
    MaxFailures = 0
    FeedChange = {k1, k2, k3}
    Limit = 2
    Page = {a, b}
    InboxRequest = {r1, r2}
    MaxVersion = 3
    User = {u1, u2}
    Message = {m1, m2}
    Sender <- TwoSenders
    Emoji = {e1}
    Process = {r1, r2}
    MaxKinds = 1
    MaxMessageVersion = 4
    MaxSequence = 3
    NoValue = none
    Tab = {a, b}
    Uuid = {x1, x2}
    People = {few, all}
    MaxLoads = 3
    MaxExpired = 1
    ComposerTab = {t1, t2}
    Room = {q1, q2}
    Text = {y1, y2, y3}
    Written <- TwoRooms
    Id = {n1, n2, n3, n4}
    NoText = none
SYMMETRY Alike
INVARIANTS
    TagsConsistent
    SnapshotConsistent
    OnlyLateEventsArePassedOver
PROPERTIES
    KeepsPromise
    ConfirmedStays
    InboxKept
    SharingKept
    ComposerKept
    MessagesKept
CHECK_DEADLOCK FALSE
