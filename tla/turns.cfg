SPECIFICATION Spec
CONSTANTS
    Students = {s1, s2, s3}
    InitialMembers = {s1, s2, s3}
    Grades = {excellent, good}
    Null = Null
    Calls = {}
    Policies <- OnlyDefault
    InitialPolicy <- DefaultPolicy
    LostCallbacks = FALSE
    ResetCrashes = FALSE
    MaxRounds = 1
    MaxVersion = 8
    MaxPolicyVersion = 1
    MaxRequests = 0
    MaxPreorder = 1
    Promotable = {}
    Removable = {}
SYMMETRY StudentSymmetry
CHECK_DEADLOCK FALSE
INVARIANT TypeOK
INVARIANT SelectionIsLive
INVARIANT ProgressMatchesQueue
INVARIANT PositionsAreContiguous
PROPERTY VersionGuardsContent
PROPERTY TerminalIsFinal
