SPECIFICATION Spec
CONSTANTS
    c1 = c1
    c2 = c2
    c3 = c3
    k1 = k1
    k2 = k2
    a = a
    r1 = r1
    r2 = r2
    r3 = r3
    Command = {c2}
    Key = {k2}
    KeyOf <- MCKeyOf
    Versioned <- MCVersioned
    Deferred <- MCDeferred
    Aggregate = {a}
    AggregateOf <- MCAggregateOf
    Request = {r1, r2}
    NoCommand = NoCommand
    MaxReclaims = 1
INVARIANTS
    KeyNeverReused
CHECK_DEADLOCK FALSE
