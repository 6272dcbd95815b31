SPECIFICATION WorkSpec
CONSTANTS
    x1 = x1
    x2 = x2
    y1 = y1
    y2 = y2
    r1 = r1
    r2 = r2
    r3 = r3
    p1 = p1
    w1 = w1
    none = none
    Board = {x1, x2}
    Item = {y1, y2}
    Request = {r1, r2}
    Kinds = {"updateBoard", "updateWorkItem"}
    MaxVersion = 1
    Person = {p1, x1, x2}
    Steward = {p1}
    MaxChanges = 3
    Portfolio = {x1, x2}
    Workspace = {w1}
    Command = {r1, r2}
    CommandKinds = {"create", "makeDefault", "giveUpDefault", "archive", "createWorkspace", "archiveWorkspace"}
    Record = {x1, x2}
    WaitingRequest = {r1, r2, r3}
    MaxItemVersion = 1
    Nobody = none
    Items = 3
    DependencyRequest = {r1, r2}
    MaxRowVersion = 2
SYMMETRY Alike
INVARIANTS
    PlanningConsistent
    DependenciesKept
    ReviewsConsistent
    PortfoliosConsistent
PROPERTIES
    NewWorkIsChecked
    WaitingKept
CHECK_DEADLOCK FALSE
