\* Deposits and top-ups of an upgraded module and one of the second type.
CONSTANTS
    A = A
    B = B
    C = C
    Addresses <- MCAddresses
    MAX_STAKING_MODULES_COUNT = 2
    MaxEBType1 = 2
    MaxEBType2 = 4
    MIN_DEPOSIT = 1
    TOTAL_BASIS_POINTS = 4
    FEE_PRECISION_POINTS = 100
    OldStorages <- MCOldStorages
    ModuleConfigs <- MCDepositConfigs
    FeePairs = {}
    TopUpCaps = {9}
    TopUpLimits = {3}
    TopUpKeys = {1}
    LidoAmounts = {5}
    KeyCounts = {1}
    StakeDeltas <- MCPenalties
    Balances = {}
    AllocationSizes = {1, 3}
    MaxValidators = 2
    MaxBlocks = 2
SPECIFICATION Spec
CONSTRAINT Focus
INVARIANTS
    TypeOK
    ActiveCountDefined
    AllocationIsFair
PROPERTIES
    TopUpFits
    DepositsPerBlockKept
    StaleKeysHeld
