SPECIFICATION Spec
CONSTANTS
    Read = {r1, r2}
    MaxFaults = 2
    MINUTE_MS = 3
    GENLAYER_RPC_RATE_LIMIT_PER_MINUTE = 2
    windowMs <- MCWindowMs
    limit <- MCLimit
    SLOT_TTL_MS = 5
    READ_TIMEOUT_MS = 2
    MaxTime = 6
INVARIANTS SlotsSpaced MinuteBudgetKept WindowBudgetsKept 
SYMMETRY MCSymmetry
CHECK_DEADLOCK FALSE
