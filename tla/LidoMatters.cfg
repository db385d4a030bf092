CONSTANTS
    Alice = Alice
    Bob = Bob
    Zero = Zero
    Token = Token
    Dead = Dead
    QueueAddress = QueueAddress
    BurnerAddress = BurnerAddress
    Hub = Hub
    Wst = Wst
    Wrapper = Wst
    Accounts <- MattersAccounts
    ZeroAddress = Zero
    StETHAddress = Token
    Stone = Dead
    Queue = QueueAddress
    Burner = BurnerAddress
    VaultHub = Hub
    TOTAL_BASIS_POINTS = 4
    UintMax = 1000
    Uint128Max = 12
    Uint96Max = 20
    Uint32Max = 10
    MaxBlocks = 4
    Users = {Alice, Bob}
    Recipients = {Alice, Bob, Zero, Hub, Wst}
    InitialBalance = 2
    InitialTarget = 1
    Transients = {1}
    EtherAmounts = {1}
    ShareAmounts = {1, 2}
    DepositAmounts = {1}
    RequestAmounts = {}
    TransferAmounts = {1, 2}
    AllowanceAmounts = {1, 1000}
    ReserveTargets = {}
    Ratios = {2}
    StakingLimits = {3, 7}
    LimitIncreases = {0, 2}
    ClDeltas <- MCDeltas
    FeeShares = {1}
    VaultAmounts = {0, 1}
    Bunkers = {TRUE, FALSE}
    MaxEther = 7
    MaxFrames = 3
    MaxRequests = 1
SPECIFICATION MattersSpec
INVARIANTS
    TypeOK
    SharesAddUp
    BufferIsBacked
    DepositsCountedOnce
    ReportShowsDeposits
    WrapperBacked
PROPERTIES
    RateNeverFalls
    ExternalRatioKept
    HoldersConsent
    WithdrawalsReserveKept
    BucketSpec
    UnwrapLosesDust
CHECK_DEADLOCK FALSE
