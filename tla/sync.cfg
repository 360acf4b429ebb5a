SPECIFICATION FairSpec
CONSTANTS
    MaxChanges = 3
    MaxDisconnects = 1
    MaxSwallowed = 1
    MaxFailures = 1
    MaxRefreshes = 2
CHECK_DEADLOCK FALSE
PROPERTY RoundConverges
