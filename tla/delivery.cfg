SPECIFICATION FairSpec
CONSTANTS
    e1 = e1
    e2 = e2
    student = student
    teacher = teacher
    phone = phone
    tablet = tablet
    laptop = laptop
    Events = {e1, e2}
    Users = {student, teacher}
    All = All
    Devices = {phone, laptop}
    Owner <- OwnerOf
    Plans <- AdvancedAndOptOut
    RetryLimit = 1
    BatchSize = 2
    MaxConnections = 3
    MaxFaults = 1
CHECK_DEADLOCK FALSE
INVARIANT TypeOK
INVARIANT BroadcastReachesAll
INVARIANT ParkedAfterRetries
PROPERTY EveryRowSettles
