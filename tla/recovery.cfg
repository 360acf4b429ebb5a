SPECIFICATION Spec
CONSTANTS
    Sessions = {s1, s2}
    Broken = {s1}
    Limit = 1
    MaxFaults = 3
    MaxTouches = 1
CHECK_DEADLOCK FALSE
INVARIANT ActiveKeepsRoom
PROPERTY EndedRoomIsClosed
PROPERTY ActiveRoomIsRestored
