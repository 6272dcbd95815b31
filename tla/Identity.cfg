SPECIFICATION IdentitySpec
CONSTANTS
    c1 = c1
    c2 = c2
    c3 = c3
    k1 = k1
    k2 = k2
    o1 = o1
    o2 = o2
    e = e
    f = f
    i = i
    j = j
    h = h
    a1 = a1
    a2 = a2
    ann = ann
    home = home
    work = work
    club = club
    r1 = r1
    r2 = r2
    r3 = r3
    item = item
    none = none
    Command = {c1, c2, c3}
    Key = {k1, k2}
    KeyOf <- MCKeyOf
    Versioned = {c1, c3}
    Deferred = {c3}
    Aggregate = {item}
    AggregateOf <- MCAggregateOf
    Request = {r1, r2}
    NoCommand = none
    MaxReclaims = 1
    Account = {a1, a2}
    Invitation = {i, j, h}
    Organization = {o1, o2}
    Email = {e, f}
    Org <- MCOrg
    Address <- MCAddress
    None = none
    Tombstone = Tombstone
    MaxToken = 2
    EmailAccount = {ann}
    LoginAddress = {home, work, club}
    EmailRequest = {r1, r2, r3}
    PoolSize = 2
SYMMETRY Alike
INVARIANTS
    EffectsAreSingle
    AnswersAreTrue
    InvitationsConsistent
PROPERTIES
    MembershipsAreEarned
    EmailChangeKept
CHECK_DEADLOCK FALSE
