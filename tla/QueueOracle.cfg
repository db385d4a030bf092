\* Any batches the oracle may report, and the ones its view proposes.
CONSTANTS
    UintMax = 100
    MaxTime = 2
    Alice = Alice
    Users <- MCOneUser
    Amounts = {10}
    MIN_STETH_WITHDRAWAL_AMOUNT = 10
    MAX_STETH_WITHDRAWAL_AMOUNT = 14
    E27_PRECISION_BASE = 100
    PauseInputs = {}
    Rates <- MCRates
    MaxRequests = 3
    MaxBatches = 2
    MAX_BATCHES_LENGTH = 2
    Budgets = {10, 19, 100}
SPECIFICATION FreeSpec
INVARIANTS
    SolventUpToDust
    ProposalAccepted
    ChunkingIrrelevant
    ClaimsWithinBudget
PROPERTY
    EscrowSpec
CONSTRAINT Quiet
CHECK_DEADLOCK FALSE
