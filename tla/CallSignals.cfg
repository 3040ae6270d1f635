SPECIFICATION CallSpec
CONSTANTS
    None = None
    Lifetime = 2
    ReplayWindowSize = 2
    MaxEpoch = 2
    MaxTime = 2
    Budgets <- MCBudgets
INVARIANTS DeliveredOnce
PROPERTY EndReachesBoth
CHECK_DEADLOCK FALSE
