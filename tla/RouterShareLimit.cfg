\* A module limited to half of the stake.
CONSTANTS
    A = A
    B = B
    C = C
    Addresses <- MCAddresses
    MAX_STAKING_MODULES_COUNT = 2
    MaxEBType1 = 2
    MaxEBType2 = 4
    MIN_DEPOSIT = 1
    TOTAL_BASIS_POINTS = 4
    FEE_PRECISION_POINTS = 100
    OldStorages <- MCOldPair
    ModuleConfigs <- MCDepositConfigs
    FeePairs = {}
    TopUpCaps = {9}
    TopUpLimits = {3}
    TopUpKeys = {1}
    LidoAmounts = {5}
    KeyCounts = {1}
    StakeDeltas <- MCPenalties
    Balances = {}
    AllocationSizes = {}
    MaxValidators = 2
    MaxBlocks = 2
SPECIFICATION Spec
PROPERTY ShareLimitKept
