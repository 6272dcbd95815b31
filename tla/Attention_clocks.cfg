SPECIFICATION Spec
CONSTANTS
    w1 = w1
    w2 = w2
    k1 = k1
    k2 = k2
    Worker = {w1, w2}
    Subject = {k1}
    MaxVersion = 2
    MaxDay = 1
INVARIANTS
    OnlyVerdictsSuppress
CHECK_DEADLOCK FALSE
