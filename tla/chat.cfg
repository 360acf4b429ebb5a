SPECIFICATION Spec
CONSTANTS
    Users = {"teacher", "student"}
    Staff = {"teacher"}
    Teachers = {"teacher"}
    Messages = {1, 2}
    Uploads = {1, 2}
    Txs = {1, 2}
    PinLimit = 1
    UploadLimit = 1
    AttemptLimit = 2
    ReconciliationLimit = 2
    Budgets <- MCBudgets
INVARIANTS LimitsHold
PROPERTIES MediaFollowsMessage DeletionIsLast EventsSettle
CHECK_DEADLOCK FALSE
