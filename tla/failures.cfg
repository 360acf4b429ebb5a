SPECIFICATION Spec
CONSTANTS
    Students = {s1}
    InitialMembers = {s1}
    Grades = {excellent}
    Null = Null
    Calls = {c1, c2}
    Policies <- OptOutChoices
    InitialPolicy <- DefaultPolicy
    LostCallbacks = TRUE
    ResetCrashes = TRUE
    MaxRounds = 2
    MaxVersion = 4
    MaxPolicyVersion = 2
    MaxRequests = 1
    MaxPreorder = 0
    Promotable = {}
    Removable = {}
SYMMETRY CallSymmetry
CHECK_DEADLOCK FALSE
INVARIANT RoundOrder
INVARIANT EveryVersionAnnounced
INVARIANT ApprovedIsOptedOut
PROPERTY RoundLifecycleForward
