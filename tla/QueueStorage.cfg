\* Two owners, three requests, reports and pauses: the storage and the hints.
CONSTANTS
    UintMax = 100
    MaxTime = 2
    Alice = Alice
    Bob = Bob
    Users <- MCUsers
    Amounts = {5, 13}
    MIN_STETH_WITHDRAWAL_AMOUNT = 10
    MAX_STETH_WITHDRAWAL_AMOUNT = 14
    E27_PRECISION_BASE = 100
    PauseInputs = {1, 100}
    Rates <- MCRates
    MaxRequests = 3
    MaxBatches = 2
SYMMETRY Symmetric
SPECIFICATION Spec
CONSTRAINT EarlyPauses
INVARIANTS
    TypeOK
    SumsIncrease
    OwnersExact
    SharesBacked
    CheckpointsTile
    HintsCorrect
CHECK_DEADLOCK FALSE
