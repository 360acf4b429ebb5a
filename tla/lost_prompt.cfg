SPECIFICATION Spec
CONSTANTS
    e1 = e1
    e2 = e2
    student = student
    teacher = teacher
    phone = phone
    tablet = tablet
    laptop = laptop
    Events = {e1}
    Users = {student}
    All = All
    Devices = {phone, tablet}
    Owner <- OwnerOf
    Plans <- YourTurn
    RetryLimit = 2
    BatchSize = 1
    MaxConnections = 3
    MaxFaults = 0
CHECK_DEADLOCK FALSE
INVARIANT PromptReachesDevices
