SPECIFICATION SignalsSpec
CONSTANTS
    x1 = x1
    x2 = x2
    p1 = p1
    p2 = p2
    t = t
    x = x
    None = none
    Subject = {x1, x2}
    Worker = {p1, p2}
    MaxVersion = 2
    MaxDay = 1
    User = {1, 2, 3}
    Request = {p1, p2}
    Room = {t, x}
    Kind <- MCKind
SYMMETRY Alike
INVARIANTS
    AttentionConsistent
    RoomsConsistent
PROPERTIES
    ClosedIsFinal
    NothingIsOrphaned
CHECK_DEADLOCK FALSE
