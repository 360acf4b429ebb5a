SPECIFICATION Spec
CONSTANTS
    Users = {a, b, d}
    Circles = {c1, c2}
    Txs = {t1, t2}
    Codes = {x, y}
    Capacities = {1,2}
    MembershipLimit = 1
    MaxCommands = 3
SYMMETRY Symmetry
CHECK_DEADLOCK FALSE
INVARIANT AlwaysATeacher
PROPERTY JoinIsWelcome
PROPERTY JoinWithinLimit
PROPERTY ActorStillManages
