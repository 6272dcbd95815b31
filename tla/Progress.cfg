SPECIFICATION ProgressSpec
CONSTANTS
    phone = phone
    laptop = laptop
    t1 = t1
    x1 = x1
    x2 = x2
    r1 = r1
    r2 = r2
    w1 = w1
    w2 = w2
    k1 = k1
    u1 = u1
    m1 = m1
    e1 = e1
    ann = ann
    home = home
    work = work
    c1 = c1
    c3 = c3
    ag = ag
    none = none
    Device = {phone, laptop}
    Text = {t1}
    Request = {r1, r2}
    MaxVersion = 3
INVARIANT
    PlansConsistent
PROPERTIES
    PublishedStaysShared
    KeepsPromise
    RequestsEnd
    CatchesUp
CHECK_DEADLOCK FALSE
