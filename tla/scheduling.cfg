SPECIFICATION Spec
CONSTANTS
    WeekLength = 2
    Managers = {m1, m2}
    SlotsPerDay = 2
    MonthLength = 4
    Months = {0, 1}
    PreviewDays = 4
    MaxDuration = 2
    MaxAttempts = 3
    Plans <- MCPlans
    Boundaries = {1, 4}
    EditDates = {1, 4}
    Patches <- MCPatches
    OneOffStarts = {3, 4}
    MaxNow = 3
    Budgets <- MCBudgets
SYMMETRY ManagerSymmetry
CHECK_DEADLOCK FALSE
INVARIANT CalendarAgrees
PROPERTY HistoryIsKept
PROPERTY OverlapsWereReviewed
