\* One request so small that its own rate is off by a quarter: it joins a request
\* that is not discounted with one that is.
CONSTANTS
    UintMax = 100
    MaxTime = 2
    Alice = Alice
    Users <- MCOneUser
    Amounts = {5, 7, 12}
    MIN_STETH_WITHDRAWAL_AMOUNT = 5
    MAX_STETH_WITHDRAWAL_AMOUNT = 12
    E27_PRECISION_BASE = 1000
    PauseInputs = {}
    Rates <- MCBudgetRates
    MaxRequests = 3
    MaxBatches = 2
    MAX_BATCHES_LENGTH = 2
    Budgets = {20}
SPECIFICATION OracleSpec
INVARIANT BatchesWithinBudget
CONSTRAINT OnlyRequests
CHECK_DEADLOCK FALSE
