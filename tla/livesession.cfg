SPECIFICATION Spec
CONSTANTS
    t = t
    a = a
    b = b
    k1 = k1
    k2 = k2
    Users = {t, a, b}
    Teacher = t
    Keys = {k1, k2}
    MaxParticipants = 2
    Corrections = {"present", "excused"}
    MaxRequests = 2
    MaxChanges = 1
SYMMETRY Symmetry
CHECK_DEADLOCK FALSE
INVARIANT SeatsAreCounted
INVARIANT DeletedNotPresent
INVARIANT CorrectionWins
PROPERTY ImplementsLifecycle
