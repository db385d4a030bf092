--------------------------- MODULE StakingRouter ---------------------------
(***************************************************************************)
(* The staking router (StakingRouter.sol, with the libraries SRLib.sol,    *)
(* SRUtils.sol and SRStorage.sol): it keeps the registered staking         *)
(* modules, splits Lido's depositable ether between them, sends deposits   *)
(* and top-ups to the beacon chain, takes the oracle's reports of exited   *)
(* validators and balances, and fixes the fees of modules and treasury.    *)
(*                                                                         *)
(* One action is one transaction, and a call that reverts is an action     *)
(* that is not enabled.  Ids are given out in order and no module is ever  *)
(* removed, so that the ids are 1..Len(config).                            *)
(*                                                                         *)
(* The staking modules, Lido's side of a deposit, the deposit security     *)
(* module and the top-up gateway are external: they may do whatever the    *)
(* router lets them.  What they are trusted with is said where it is used. *)
(***************************************************************************)
EXTENDS MinFirstAllocationStrategy, Sequences, Functions

CONSTANTS
    Addresses,              \* addresses of staking modules
    MAX_STAKING_MODULES_COUNT,
    MaxEBType1,             \* MAX_EFFECTIVE_BALANCE_WC_TYPE_01, also the size of a deposit
    MaxEBType2,             \* MAX_EFFECTIVE_BALANCE_WC_TYPE_02
    MIN_DEPOSIT,            \* the smallest amount that the deposit contract takes
    TOTAL_BASIS_POINTS,
    FEE_PRECISION_POINTS

\* The inputs that TLC tries, and bounds on what is outside.
CONSTANTS
    OldStorages,            \* lists of modules that an upgrade may find, <<>> for none
    ModuleConfigs,          \* configurations that managers use
    FeePairs,               \* fees that managers set for all modules at once
    TopUpCaps,              \* values of maxTopUpPerBlockGwei
    TopUpLimits,            \* limits that the gateway passes for a key
    TopUpKeys,              \* the numbers of keys in one top-up
    LidoAmounts,            \* depositable ether of Lido
    KeyCounts,              \* numbers of unused keys of a module
    StakeDeltas,            \* changes of a module's stake between reports
    Balances,               \* reported balances
    AllocationSizes,        \* numbers of deposits to allocate, for AllocationIsFair
    MaxValidators,          \* bound on the validators of a module
    MaxBlocks               \* bound on the block number

WC_TYPE_01 == 1
WC_TYPE_02 == 2

Statuses == {"Active", "DepositsPaused", "Stopped"}

ModuleConfig ==
    [fee: Nat, treasuryFee: Nat, stakeShareLimit: Nat, maxDepositsPerBlock: Nat,
     minDepositBlockDistance: Nat, wcType: Nat]

ASSUME RouterAssumption ==
    /\ MAX_STAKING_MODULES_COUNT \in Nat
    /\ MaxEBType1 \in Nat \ {0} /\ MaxEBType2 \in Nat \ {0}
    /\ MIN_DEPOSIT \in Nat
    /\ TOTAL_BASIS_POINTS \in Nat \ {0} /\ FEE_PRECISION_POINTS \in Nat
    /\ ModuleConfigs \subseteq ModuleConfig
    /\ FeePairs \subseteq [fee: Nat, treasuryFee: Nat]
    /\ TopUpCaps \subseteq Nat /\ TopUpLimits \subseteq Nat /\ TopUpKeys \subseteq Nat
    /\ LidoAmounts \subseteq Nat /\ LidoAmounts # {}
    /\ KeyCounts \subseteq Nat /\ StakeDeltas \subseteq Int /\ Balances \subseteq Nat
    /\ AllocationSizes \subseteq Nat
    /\ MaxValidators \in Nat /\ MaxBlocks \in Nat

\* What finalizeUpgrade_v4 finds in the storage of the version before: modules
\* at different addresses, whose fees add up to one sum as they did there.
OldModule ==
    [address: Addresses, fee: Nat, treasuryFee: Nat, stakeShareLimit: Nat,
     maxDepositsPerBlock: Nat, minDepositBlockDistance: Nat,
     status: Statuses, exitedValidatorsCount: Nat,
     exited: Nat, deposited: Nat, depositable: Nat]

ASSUME MigrationAssumption ==
    \A old \in OldStorages :
        /\ old \in Seq(OldModule)
        /\ Len(old) <= MAX_STAKING_MODULES_COUNT
        /\ \A i, j \in DOMAIN old :
            /\ old[i].address = old[j].address => i = j
            /\ old[i].fee + old[i].treasuryFee = old[j].fee + old[j].treasuryFee
        /\ \A i \in DOMAIN old :
            /\ old[i].fee + old[i].treasuryFee <= TOTAL_BASIS_POINTS
            /\ old[i].stakeShareLimit <= TOTAL_BASIS_POINTS
            /\ old[i].exitedValidatorsCount <= old[i].deposited
            /\ old[i].exited <= old[i].deposited
            /\ old[i].minDepositBlockDistance # 0

VARIABLES
    config,             \* id -> ModuleStateConfig
    deposits,           \* id -> ModuleStateDeposits
    accounting,         \* id -> ModuleStateAccounting
    totalBalance,       \* RouterStateAccounting: the validators' balance of all modules
    maxTopUpPerBlock,
    \* the contracts around
    summary,            \* address -> what getStakingModuleSummary returns
    stake,              \* address -> what getTotalModuleStake returns
    stale,              \* address -> unused keys are signed for earlier credentials
    depositableEther,   \* Lido.getDepositableEther()
    canDeposit,         \* Lido.canDeposit()
    blockNumber,
    depositedBefore     \* address -> deposited validators when the block began

routerVars == <<config, deposits, accounting, totalBalance, maxTopUpPerBlock>>
moduleVars == <<summary, stake, stale>>
lidoVars   == <<depositableEther, canDeposit>>
blockVars  == <<blockNumber, depositedBefore>>

vars == <<routerVars, moduleVars, lidoVars, blockVars>>

Ids == DOMAIN config

Lesser(a, b)  == IF a < b THEN a ELSE b
Greater(a, b) == IF a > b THEN a ELSE b

SummaryOf(id) == summary[config[id].address]
StakeOf(id)   == stake[config[id].address]

-----------------------------------------------------------------------------
(* Allocation of deposits                                                  *)

\* The modules may not know yet of exits that the oracle has reported here.
ActiveCount(id) ==
    SummaryOf(id).deposited - Greater(SummaryOf(id).exited, accounting[id].exitedValidatorsCount)

\* The subtraction is checked: where it underflows, for whatever module, every
\* allocation reverts.
CanAllocate == \A id \in Ids : ActiveCount(id) >= 0

\* Altered form of CurrentAllocation: the stake is rounded down.
CurrentAllocationDown(id) ==
    IF config[id].wcType = WC_TYPE_02 THEN StakeOf(id) \div MaxEBType1
    ELSE ActiveCount(id)

\* What a module holds now, in validators of the first type.
CurrentAllocation(id) ==
    IF config[id].wcType = WC_TYPE_02 THEN CeilDiv(StakeOf(id), MaxEBType1)
    ELSE ActiveCount(id)

Allocations == [id \in Ids |-> CurrentAllocation(id)]

TargetValidators(id, depositsToAllocate) ==
    (config[id].stakeShareLimit * (depositsToAllocate + SumFunction(Allocations)))
        \div TOTAL_BASIS_POINTS

\* A top-up fills the validators there are, a deposit adds new ones.
ValidatorsCapacity(id, isTopUp) ==
    IF isTopUp /\ config[id].wcType = WC_TYPE_02
    THEN (ActiveCount(id) * MaxEBType2) \div MaxEBType1
    ELSE CurrentAllocation(id) + SummaryOf(id).depositable

Capacities(depositsToAllocate, isTopUp) ==
    [id \in Ids |->
        IF config[id].status # "Active" THEN CurrentAllocation(id)
        ELSE Lesser(TargetValidators(id, depositsToAllocate), ValidatorsCapacity(id, isTopUp))]

\* getDepositAllocations: what each module would get of `amount`.
DepositAllocations(amount, isTopUp) ==
    LET depositsToAllocate == amount \div MaxEBType1
        new == Allocate(Allocations, Capacities(depositsToAllocate, isTopUp),
                        depositsToAllocate).buckets
    IN  [id \in Ids |-> (new[id] - Allocations[id]) * MaxEBType1]

ModuleDepositAllocation(id, isTopUp) == DepositAllocations(depositableEther, isTopUp)[id]

-----------------------------------------------------------------------------
(* Deposits and top-ups                                                    *)

\* Lido.withdrawDepositableEther, and the deposit contract that takes it all.
SpendDepositableEther(amount) ==
    /\ amount # 0 => canDeposit /\ amount <= depositableEther
    /\ depositableEther' = depositableEther - amount
    /\ UNCHANGED canDeposit

MaxDepositsCount(id) ==
    Lesser(deposits[id].maxDepositsPerBlock,
           ModuleDepositAllocation(id, FALSE) \div MaxEBType1)

\* The deposit security module calls deposit for a module only when enough
\* blocks have passed since the last one (external).
DistanceKept(id) ==
    blockNumber - deposits[id].lastDepositBlock >= deposits[id].minDepositBlockDistance

\* Altered form of UpdateModuleLastDepositState: what is saved is when the next deposit
\* may come.
SaveNextDepositState(id) ==
    deposits' = [deposits EXCEPT ![id].lastDepositBlock =
                    blockNumber + deposits[id].minDepositBlockDistance]

\* Altered form of UpdateModuleLastDepositState: nothing is saved.
SaveNoDepositState(id) == UNCHANGED deposits

UpdateModuleLastDepositState(id) ==
    deposits' = [deposits EXCEPT ![id].lastDepositBlock = blockNumber]

\* The module hands out `count` keys, which may be fewer than it was asked for.
\* The block is recorded even when there are none.
Deposit(id, count) ==
    LET a == config[id].address
    IN  /\ DistanceKept(id)
        /\ config[id].status = "Active"
        /\ CanAllocate
        /\ MaxDepositsCount(id) \in Nat \ {0}
        /\ count <= summary[a].depositable
        /\ count <= MaxDepositsCount(id)
        /\ UpdateModuleLastDepositState(id)
        /\ SpendDepositableEther(count * MaxEBType1)
        /\ summary' = [summary EXCEPT ![a].deposited = @ + count,
                                      ![a].depositable = @ - count]
        /\ stake' = [stake EXCEPT ![a] = @ + count * MaxEBType1]
        /\ UNCHANGED <<config, accounting, totalBalance, maxTopUpPerBlock, stale, blockVars>>

\* The ether a module may be topped up with, which the module spreads over the
\* keys that the gateway names.
TopUpTarget(id) == Lesser(ModuleDepositAllocation(id, TRUE), maxTopUpPerBlock)

\* The sum of the allocations is unchecked in the code; a sum that wraps pulls
\* less than is sent on, and the call fails for want of ether.
TopUp(id, topUpLimits, allocations) ==
    LET a      == config[id].address
        amount == SumFunction(allocations)
    IN  /\ config[id].status = "Active"
        /\ config[id].wcType = WC_TYPE_02
        /\ \A k \in DOMAIN allocations :
             /\ allocations[k] <= topUpLimits[k]
             /\ allocations[k] = 0 \/ allocations[k] >= MIN_DEPOSIT
        /\ CanAllocate
        /\ TopUpTarget(id) = 0 => canDeposit
        /\ amount <= TopUpTarget(id)
        /\ SpendDepositableEther(amount)
        /\ stake' = [stake EXCEPT ![a] = @ + amount]
        /\ UNCHANGED <<routerVars, summary, stale, blockVars>>

-----------------------------------------------------------------------------
(* The registry                                                            *)

FeeSum(m) == m.fee + m.treasuryFee

\* Altered form of ConsistentFeeSum: only the modules before it are compared.
ConsistentFeeSumBefore(id, feeSum) ==
    \A other \in Ids : other < id => FeeSum(config[other]) = feeSum

\* Every module charges the same in sum, so that what stakers pay does not
\* depend on where their ether went.
ConsistentFeeSum(id, feeSum) == \A other \in Ids \ {id} : FeeSum(config[other]) = feeSum

\* _updateModuleParams, whose parameters are validated for a new module and for
\* one there is alike.  (priorityExitShareThreshold, which only contracts
\* outside read, is left out.)
ValidParams(id, c) ==
    /\ c.stakeShareLimit <= TOTAL_BASIS_POINTS
    /\ FeeSum(c) <= TOTAL_BASIS_POINTS
    /\ ConsistentFeeSum(id, FeeSum(c))
    /\ c.minDepositBlockDistance # 0
    /\ c.maxDepositsPerBlock # 0

StateConfig(a, status, c) ==
    [address |-> a, fee |-> c.fee, treasuryFee |-> c.treasuryFee,
     stakeShareLimit |-> c.stakeShareLimit, status |-> status, wcType |-> c.wcType]

StateDeposits(c, lastDepositBlock) ==
    [lastDepositBlock |-> lastDepositBlock,
     maxDepositsPerBlock |-> c.maxDepositsPerBlock,
     minDepositBlockDistance |-> c.minDepositBlockDistance]

Unregistered(a) == \A id \in Ids : config[id].address # a

\* A new module counts as deposited to in the block it is added in.
AddStakingModule(a, c) ==
    /\ Len(config) < MAX_STAKING_MODULES_COUNT
    /\ c.wcType \in {WC_TYPE_01, WC_TYPE_02}
    /\ Unregistered(a)
    /\ ValidParams(Len(config) + 1, c)
    /\ config' = Append(config, StateConfig(a, "Active", c))
    /\ deposits' = Append(deposits, StateDeposits(c, blockNumber))
    /\ accounting' = Append(accounting, [validatorsBalance |-> 0, exitedValidatorsCount |-> 0])
    /\ UNCHANGED <<totalBalance, maxTopUpPerBlock, moduleVars, lidoVars, blockVars>>

UpdateStakingModule(id, c) ==
    /\ ValidParams(id, c)
    /\ config' = [config EXCEPT ![id].fee = c.fee, ![id].treasuryFee = c.treasuryFee,
                                ![id].stakeShareLimit = c.stakeShareLimit]
    /\ deposits' = [deposits EXCEPT ![id] = StateDeposits(c, @.lastDepositBlock)]
    /\ UNCHANGED <<accounting, totalBalance, maxTopUpPerBlock, moduleVars, lidoVars, blockVars>>

UpdateModuleShares(id, stakeShareLimit) ==
    /\ stakeShareLimit <= TOTAL_BASIS_POINTS
    /\ config' = [config EXCEPT ![id].stakeShareLimit = stakeShareLimit]
    /\ UNCHANGED <<deposits, accounting, totalBalance, maxTopUpPerBlock, moduleVars, lidoVars,
                   blockVars>>

\* All fees at once: the only way to change their sum when there are several
\* modules.
UpdateAllStakingModulesFees(fees) ==
    /\ DOMAIN fees = Ids
    /\ \A id \in Ids : FeeSum(fees[id]) <= TOTAL_BASIS_POINTS /\ FeeSum(fees[id]) = FeeSum(fees[1])
    /\ config' = [id \in Ids |-> [config[id] EXCEPT !.fee = fees[id].fee,
                                                    !.treasuryFee = fees[id].treasuryFee]]
    /\ UNCHANGED <<deposits, accounting, totalBalance, maxTopUpPerBlock, moduleVars, lidoVars,
                   blockVars>>

SetStakingModuleStatus(id, status) ==
    /\ config[id].status # status
    /\ config' = [config EXCEPT ![id].status = status]
    /\ UNCHANGED <<deposits, accounting, totalBalance, maxTopUpPerBlock, moduleVars, lidoVars,
                   blockVars>>

SetMaxTopUpPerBlock(cap) ==
    /\ cap # 0
    /\ maxTopUpPerBlock' = cap
    /\ UNCHANGED <<config, deposits, accounting, totalBalance, moduleVars, lidoVars, blockVars>>

\* Altered form of StatusAfterFailure: the failure is only logged.
StatusKept(status) == status

\* What becomes of an active module whose hook failed.
StatusAfterFailure(status) == IF status = "Active" THEN "DepositsPaused" ELSE status

\* setWithdrawalCredentials: every module is told to discard its unused keys.
\* The hook of a module in `failing` reverts with a reason; a revert without one
\* takes the whole call back.
SetWithdrawalCredentials(failing) ==
    LET kept == {config[id].address : id \in failing}
        told == {config[id].address : id \in Ids} \ kept
    IN  /\ config' = [id \in Ids |->
                        IF id \in failing
                        THEN [config[id] EXCEPT !.status = StatusAfterFailure(@)]
                        ELSE config[id]]
        /\ summary' = [a \in Addresses |->
                        IF a \in told THEN [summary[a] EXCEPT !.depositable = 0] ELSE summary[a]]
        /\ stale' = [a \in Addresses |->
                        IF a \in told THEN FALSE
                        ELSE stale[a] \/ (a \in kept /\ summary[a].depositable > 0)]
        /\ UNCHANGED <<deposits, accounting, totalBalance, maxTopUpPerBlock, stake, lidoVars,
                       blockVars>>

-----------------------------------------------------------------------------
(* The oracle's reports                                                    *)

\* Altered form of CanReportExited: a module's deposits are not looked at.
CanReportExitedAny(id, count) == count >= accounting[id].exitedValidatorsCount

CanReportExited(id, count) ==
    /\ count >= accounting[id].exitedValidatorsCount
    /\ count <= SummaryOf(id).deposited

\* First phase: the totals by module, for any of the modules, or none of them
\* if one is refused.
UpdateExitedValidatorsCountByStakingModule(counts) ==
    /\ \A id \in DOMAIN counts : CanReportExited(id, counts[id])
    /\ accounting' = [id \in Ids |->
                        IF id \in DOMAIN counts
                        THEN [accounting[id] EXCEPT !.exitedValidatorsCount = counts[id]]
                        ELSE accounting[id]]
    /\ UNCHANGED <<config, deposits, totalBalance, maxTopUpPerBlock, moduleVars, lidoVars,
                   blockVars>>

\* Second phase: the counts by node operator, handed on to the module, which
\* takes no more exits of an operator than the operator has deposits (external).
ReportExitedByNodeOperator(id, exited) ==
    LET a == config[id].address
    IN  /\ exited \in SummaryOf(id).exited..SummaryOf(id).deposited
        /\ summary' = [summary EXCEPT ![a].exited = exited]
        /\ UNCHANGED <<routerVars, stake, stale, lidoVars, blockVars>>

\* The correction by hand writes first and checks the result; the module's own
\* count may go down.
UnsafeSetExitedValidatorsCount(id, newModuleExited, newExited, triggerUpdateFinish) ==
    LET a == config[id].address
    IN  /\ newModuleExited <= SummaryOf(id).deposited
        /\ newExited <= SummaryOf(id).deposited
        /\ triggerUpdateFinish => newExited = newModuleExited
        /\ accounting' = [accounting EXCEPT ![id].exitedValidatorsCount = newModuleExited]
        /\ summary' = [summary EXCEPT ![a].exited = newExited]
        /\ UNCHANGED <<config, deposits, totalBalance, maxTopUpPerBlock, stake, stale, lidoVars,
                       blockVars>>

\* Altered form of TotalOf: the last module is left out.
TotalOfButLast(balances) ==
    SumFunctionOnSet(balances, {id \in DOMAIN balances : id < Len(config)})

TotalOf(balances) == SumFunction(balances)

\* The balances of all modules, in their order.
ReportValidatorBalancesByStakingModule(balances) ==
    /\ DOMAIN balances = Ids
    /\ accounting' = [id \in Ids |-> [accounting[id] EXCEPT !.validatorsBalance = balances[id]]]
    /\ totalBalance' = TotalOf(balances)
    /\ UNCHANGED <<config, deposits, maxTopUpPerBlock, moduleVars, lidoVars, blockVars>>

-----------------------------------------------------------------------------
(* Fees                                                                    *)

ModuleShare(id) == (accounting[id].validatorsBalance * FEE_PRECISION_POINTS) \div totalBalance

ModuleFee(id)   == (ModuleShare(id) * config[id].fee) \div TOTAL_BASIS_POINTS
TreasuryFee(id) == (ModuleShare(id) * config[id].treasuryFee) \div TOTAL_BASIS_POINTS

\* Modules with a balance take part.
Rewarded == IF totalBalance = 0 THEN {} ELSE {id \in Ids : accounting[id].validatorsBalance # 0}

\* Altered form of TotalFee: the fee of a stopped module goes to nobody.
TotalFeePaid ==
    SumFunctionOnSet([id \in Ids |-> IF id \in Rewarded /\ config[id].status # "Stopped"
                                     THEN ModuleFee(id) + TreasuryFee(id) ELSE 0], Ids)

\* getStakingRewardsDistribution: the fee of a stopped module goes to the
\* treasury, which gets what the modules do not.
TotalFee ==
    SumFunctionOnSet([id \in Ids |-> IF id \in Rewarded THEN ModuleFee(id) + TreasuryFee(id)
                                     ELSE 0], Ids)

-----------------------------------------------------------------------------
(* The contracts around                                                    *)

\* Operators add, remove, vet or unvet keys.  Stale keys can only be taken away
\* before others are added.
ModuleChangesKeys(id, count) ==
    LET a == config[id].address
    IN  /\ summary[a].deposited + count <= MaxValidators
        /\ stale[a] => count = 0
        /\ summary' = [summary EXCEPT ![a].depositable = count]
        /\ stale' = [stale EXCEPT ![a] = FALSE]
        /\ UNCHANGED <<routerVars, stake, lidoVars, blockVars>>

\* Rewards, penalties and withdrawals.
ModuleChangesStake(id, delta) ==
    LET a == config[id].address
    IN  /\ stake[a] + delta \in 0..(MaxValidators * MaxEBType2)
        /\ stake' = [stake EXCEPT ![a] = @ + delta]
        /\ UNCHANGED <<routerVars, summary, stale, lidoVars, blockVars>>

\* Stakes, withdrawals, reports and pauses of Lido.
LidoChanges(amount, open) ==
    /\ depositableEther' = amount
    /\ canDeposit' = open
    /\ UNCHANGED <<routerVars, moduleVars, blockVars>>

NextBlock ==
    /\ blockNumber < MaxBlocks
    /\ blockNumber' = blockNumber + 1
    /\ depositedBefore' = [a \in Addresses |-> summary[a].deposited]
    /\ UNCHANGED <<routerVars, moduleVars, lidoVars>>

-----------------------------------------------------------------------------
(* The component                                                           *)

\* After initialize (no modules), or after finalizeUpgrade_v4 with the modules of
\* `old`, each of which is taken to hold the smallest balance for every active
\* validator.
MigratedBalance(m) ==
    (m.deposited - Greater(m.exitedValidatorsCount, m.exited)) * MaxEBType1

MigratedModules(old) ==
    /\ config = [i \in DOMAIN old |->
                    StateConfig(old[i].address, old[i].status,
                                [fee |-> old[i].fee, treasuryFee |-> old[i].treasuryFee,
                                 stakeShareLimit |-> old[i].stakeShareLimit,
                                 wcType |-> WC_TYPE_01])]
    /\ deposits = [i \in DOMAIN old |-> StateDeposits(old[i], 0)]
    /\ accounting = [i \in DOMAIN old |->
                        [validatorsBalance     |-> MigratedBalance(old[i]),
                         exitedValidatorsCount |-> old[i].exitedValidatorsCount]]
    /\ totalBalance = SumFunction([i \in DOMAIN old |-> MigratedBalance(old[i])])
    /\ summary = [a \in Addresses |->
                    IF \E i \in DOMAIN old : old[i].address = a
                    THEN LET m == old[CHOOSE i \in DOMAIN old : old[i].address = a]
                         IN  [exited |-> m.exited, deposited |-> m.deposited,
                              depositable |-> m.depositable]
                    ELSE [exited |-> 0, deposited |-> 0, depositable |-> 0]]

Init ==
    /\ \E old \in OldStorages : MigratedModules(old)
    /\ maxTopUpPerBlock \in TopUpCaps \ {0}
    /\ stake = [a \in Addresses |-> (summary[a].deposited - summary[a].exited) * MaxEBType1]
    /\ stale = [a \in Addresses |-> FALSE]
    /\ depositableEther \in LidoAmounts
    /\ canDeposit = TRUE
    /\ blockNumber = 1
    /\ depositedBefore = [a \in Addresses |-> summary[a].deposited]

DepositStep ==
    \E id \in Ids :
        \/ \E count \in 0..MaxValidators : Deposit(id, count)
        \/ \E n \in TopUpKeys : \E topUpLimits \in [1..n -> TopUpLimits] :
             \E allocations \in [1..n -> 0..depositableEther] :
                 TopUp(id, topUpLimits, allocations)

ManagerStep ==
    \/ \E a \in Addresses, c \in ModuleConfigs : AddStakingModule(a, c)
    \/ \E fees \in [Ids -> FeePairs] : UpdateAllStakingModulesFees(fees)
    \/ \E cap \in TopUpCaps : SetMaxTopUpPerBlock(cap)
    \/ \E failing \in SUBSET Ids : SetWithdrawalCredentials(failing)
    \/ \E id \in Ids :
        \/ \E c \in ModuleConfigs :
             \/ UpdateStakingModule(id, c)
             \/ UpdateModuleShares(id, c.stakeShareLimit)
        \/ \E status \in Statuses : SetStakingModuleStatus(id, status)
        \/ \E newModuleExited, newExited \in 0..MaxValidators, finish \in BOOLEAN :
             UnsafeSetExitedValidatorsCount(id, newModuleExited, newExited, finish)

ReportStep ==
    \/ \E S \in SUBSET Ids : \E counts \in [S -> 0..MaxValidators] :
           UpdateExitedValidatorsCountByStakingModule(counts)
    \/ \E id \in Ids, exited \in 0..MaxValidators : ReportExitedByNodeOperator(id, exited)
    \/ \E balances \in [Ids -> Balances] : ReportValidatorBalancesByStakingModule(balances)

OutsideStep ==
    \/ \E id \in Ids :
        \/ \E count \in KeyCounts : ModuleChangesKeys(id, count)
        \/ \E delta \in StakeDeltas : ModuleChangesStake(id, delta)
    \/ \E amount \in LidoAmounts, open \in BOOLEAN : LidoChanges(amount, open)
    \/ NextBlock

Next == DepositStep \/ ManagerStep \/ ReportStep \/ OutsideStep

Spec == Init /\ [][Next]_vars

-----------------------------------------------------------------------------
(* Properties                                                              *)

\* Every slot holds a value of its type, and the lists have one entry for each
\* module.
TypeOK ==
    /\ config \in Seq([address: Addresses, fee: 0..TOTAL_BASIS_POINTS,
                       treasuryFee: 0..TOTAL_BASIS_POINTS,
                       stakeShareLimit: 0..TOTAL_BASIS_POINTS, status: Statuses,
                       wcType: {WC_TYPE_01, WC_TYPE_02}])
    /\ deposits \in [Ids -> [lastDepositBlock: 0..blockNumber, maxDepositsPerBlock: Nat,
                             minDepositBlockDistance: Nat \ {0}]]
    /\ accounting \in [Ids -> [validatorsBalance: Nat, exitedValidatorsCount: Nat]]
    /\ totalBalance \in Nat
    /\ maxTopUpPerBlock \in Nat \ {0}
    /\ summary \in [Addresses -> [exited: Nat, deposited: Nat, depositable: Nat]]
    /\ stake \in [Addresses -> Nat]
    /\ stale \in [Addresses -> BOOLEAN]
    /\ depositableEther \in Nat
    /\ canDeposit \in BOOLEAN
    /\ blockNumber \in Nat
    /\ depositedBefore \in [Addresses -> Nat]

\* An allocation reads the active validators of all modules and reverts where
\* one has more exits than deposits: whatever the oracle reports in whatever
\* order, and whatever is corrected by hand, no module blocks the others.
ActiveCountDefined == CanAllocate

\* No address is registered twice, so that no key is counted in two modules.
AddressesDiffer == \A i, j \in Ids : config[i].address = config[j].address => i = j

\* MinFirst gives each module what it would get if the ether were given away
\* one deposit at a time to the least filled module with capacity left; the
\* rounds of several units that save gas change nothing.
AllocationIsFair ==
    \A n \in AllocationSizes :
        \A capacities \in {Capacities(n, isTopUp) : isTopUp \in BOOLEAN}, levels \in {Allocations} :
            Allocate(levels, capacities, n) = UnitByUnit(levels, capacities, n)

\* A top-up never takes the stake of a module beyond what its active validators
\* can hold, although capacities and levels are counted in whole deposits.
TopUpFits ==
    [][\A id \in Ids :
          StakeOf(id)' > StakeOf(id) /\ SummaryOf(id)' = SummaryOf(id)
            /\ depositableEther' < depositableEther
          => StakeOf(id)' <= ActiveCount(id) * MaxEBType2]_vars

\* A module gets no more than maxDepositsPerBlock deposits in one block, however
\* many calls there are, fruitless ones and calls after its addition included.
DepositsPerBlockKept ==
    [][\A id \in Ids :
          SummaryOf(id).deposited' > SummaryOf(id).deposited
          => /\ SummaryOf(id).deposited' - depositedBefore[config[id].address]
                  <= deposits[id].maxDepositsPerBlock
             /\ deposits[id].lastDepositBlock # blockNumber]_vars

\* Keys signed for earlier credentials: only an activation by a manager exposes
\* them, the change of the credentials itself never leaves them in an active
\* module, even if the module fails to discard them.
Exposed(id) == config[id].status = "Active" /\ stale[config[id].address]

StaleKeysHeld ==
    [][\A id \in Ids : Exposed(id)' /\ ~Exposed(id) => config[id].status # "Active"]_vars

\* All modules charge the same sum, at most all of the reward.
FeesConsistent ==
    \A i, j \in Ids :
        /\ FeeSum(config[i]) = FeeSum(config[j])
        /\ FeeSum(config[i]) <= TOTAL_BASIS_POINTS

\* The total kept by the router is the sum of the balances of its modules,
\* across reports, additions and the upgrade.
BalancesAddUp ==
    totalBalance = SumFunctionOnSet([id \in Ids |-> accounting[id].validatorsBalance], Ids)

\* Whatever the balances, the fees add up to the sum that all modules charge,
\* less at most three units of the precision for each module; they are never
\* more, as getStakingRewardsDistribution asserts of 100%.
FeeIsConfigured ==
    Rewarded # {} =>
        LET configured == (FeeSum(config[1]) * FEE_PRECISION_POINTS) \div TOTAL_BASIS_POINTS
        IN  /\ TotalFee <= configured
            /\ TotalFee >= configured - 3 * Cardinality(Rewarded)

\* Comments: stakeShareLimit is the "maximum stake share that can be allocated
\* to a module", and its target is taken of the "new total validators count after
\* allocation".  So no deposit takes a module that was within its share beyond it.
WithinShare(id) ==
    CurrentAllocation(id) * TOTAL_BASIS_POINTS
        <= config[id].stakeShareLimit * SumFunction(Allocations)

ShareLimitKept ==
    [][\A id \in Ids :
          SummaryOf(id).deposited' > SummaryOf(id).deposited /\ WithinShare(id)
          => WithinShare(id)']_vars
=============================================================================
