SPECIFICATION Spec
CONSTANTS
    Uids = {u1, u2}
    Ids = {1, 2, 3}
    SessionIds = {s1, s2}
    Requests = {r1, r2}
    Undeletable = {u1}
    BatchSize = 1
    MaxFaults = 1
CHECK_DEADLOCK FALSE
INVARIANT TombstoneIsFinal
INVARIANT ClosedHasNoSession
INVARIANT ClosedProfileIsErased
PROPERTY AdmittedIsActive
PROPERTY IdentityIsRemoved
