\* Requests of one report, one discounted and one not.
CONSTANTS
    UintMax = 100
    MaxTime = 2
    Alice = Alice
    Users <- MCOneUser
    Amounts = {10, 72}
    MIN_STETH_WITHDRAWAL_AMOUNT = 10
    MAX_STETH_WITHDRAWAL_AMOUNT = 72
    E27_PRECISION_BASE = 100
    PauseInputs = {}
    Rates <- MCOneRate
    MaxRequests = 2
    MaxBatches = 2
    MAX_BATCHES_LENGTH = 2
    Budgets = {1000}
SPECIFICATION OracleSpec
INVARIANT LockedCoversClaims
CHECK_DEADLOCK FALSE
