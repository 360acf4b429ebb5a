SPECIFICATION Spec
CONSTANTS
    Students = {s1, s2}
    InitialMembers = {s1}
    Grades = {excellent}
    Null = Null
    Calls = {}
    Policies <- OnlyAllStudents
    InitialPolicy <- AllStudents
    LostCallbacks = FALSE
    ResetCrashes = FALSE
    MaxRounds = 2
    MaxVersion = 4
    MaxPolicyVersion = 1
    MaxRequests = 0
    MaxPreorder = 0
    Promotable = {s1}
    Removable = {s2}
CHECK_DEADLOCK FALSE
INVARIANT ActivationInvariant
PROPERTY JoinIsHonoured
