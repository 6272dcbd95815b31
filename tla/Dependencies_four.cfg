SPECIFICATION DependenciesSpec
CONSTANTS
    r1 = r1
    r2 = r2
    r3 = r3
    Items = 4
    DependencyRequest = {r1, r2}
    MaxRowVersion = 1
INVARIANT Acyclic
CHECK_DEADLOCK FALSE
