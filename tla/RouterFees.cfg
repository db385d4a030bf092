\* Registry, balances and fees, from a fresh router and from an upgraded one.
CONSTANTS
    A = A
    B = B
    C = C
    Addresses <- MCAddresses3
    MAX_STAKING_MODULES_COUNT = 3
    MaxEBType1 = 2
    MaxEBType2 = 4
    MIN_DEPOSIT = 1
    TOTAL_BASIS_POINTS = 4
    FEE_PRECISION_POINTS = 100
    OldStorages <- MCAnyStorage
    ModuleConfigs <- MCFeeConfigs
    FeePairs <- MCFeePairs
    TopUpCaps = {9}
    TopUpLimits = {}
    TopUpKeys = {}
    LidoAmounts = {0}
    KeyCounts = {}
    StakeDeltas = {}
    Balances = {0, 3, 4}
    AllocationSizes = {}
    MaxValidators = 2
    MaxBlocks = 1
SPECIFICATION Spec
CONSTRAINT RegistryOnly
INVARIANTS
    FeesConsistent
    BalancesAddUp
    FeeIsConfigured
