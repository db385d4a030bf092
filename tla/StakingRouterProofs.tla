----------------------- MODULE StakingRouterProofs -----------------------
(***************************************************************************)
(* Proofs about the staking router, for any number of modules, any         *)
(* configurations and any reports.  The inductive invariant RouterInv      *)
(* knows nothing of the amounts that the allocation and the sums over      *)
(* modules return: which module is where, what it charges, how many exits  *)
(* it may have and when it was last deposited to follow from the guards.   *)
(* The amounts follow in a second step, from RouterInv, the lemmas about   *)
(* sums and those about MinFirst.                                          *)
(***************************************************************************)
EXTENDS StakingRouter, SequenceTheorems, MinFirstProofs

\* The types of what the router and the modules' summaries hold, without the
\* values that are sums over modules.
RegistryType ==
    /\ config \in Seq([address: Addresses, fee: 0..TOTAL_BASIS_POINTS,
                       treasuryFee: 0..TOTAL_BASIS_POINTS,
                       stakeShareLimit: 0..TOTAL_BASIS_POINTS, status: Statuses,
                       wcType: {WC_TYPE_01, WC_TYPE_02}])
    /\ deposits \in [Ids -> [lastDepositBlock: 0..blockNumber, maxDepositsPerBlock: Nat,
                             minDepositBlockDistance: Nat \ {0}]]
    /\ accounting \in [Ids -> [validatorsBalance: Nat, exitedValidatorsCount: Nat]]
    /\ maxTopUpPerBlock \in Nat \ {0}
    /\ summary \in [Addresses -> [exited: Nat, deposited: Nat, depositable: Nat]]
    /\ stale \in [Addresses -> BOOLEAN]
    /\ canDeposit \in BOOLEAN
    /\ blockNumber \in Nat
    /\ depositedBefore \in [Addresses -> Nat]

\* Neither count of exits is more than the module's deposits, for the modules'
\* own count whether they are registered or not.
ExitsBounded ==
    /\ \A a \in Addresses : summary[a].exited <= summary[a].deposited
    /\ \A id \in Ids : accounting[id].exitedValidatorsCount <= SummaryOf(id).deposited

\* A module that was not deposited to in this block has the deposits it began
\* the block with.
BlockBegun ==
    \A id \in Ids : deposits[id].lastDepositBlock # blockNumber
                    => SummaryOf(id).deposited = depositedBefore[config[id].address]

RouterInv ==
    RegistryType /\ AddressesDiffer /\ FeesConsistent /\ ExitsBounded /\ BlockBegun

ModuleRecord ==
    [address: Addresses, fee: 0..TOTAL_BASIS_POINTS, treasuryFee: 0..TOTAL_BASIS_POINTS,
     stakeShareLimit: 0..TOTAL_BASIS_POINTS, status: Statuses,
     wcType: {WC_TYPE_01, WC_TYPE_02}]

-----------------------------------------------------------------------------
(* What most steps leave alone                                             *)

\* The registry as a function of the ids.
LEMMA IdsAre ==
    ASSUME RouterInv
    PROVE  /\ Len(config) \in Nat /\ Ids = 1..Len(config)
           /\ \A id \in Ids : config[id] \in ModuleRecord
           /\ \A id \in Ids : config[id].address \in Addresses
  <1>1. config \in Seq(ModuleRecord)
    BY DEF RouterInv, RegistryType, ModuleRecord
  <1>2. Len(config) \in Nat /\ Ids = 1..Len(config) /\ \A id \in Ids : config[id] \in ModuleRecord
    BY <1>1 DEF Ids
  <1> QED
    BY <1>2 DEF ModuleRecord

\* A step that touches neither the registry nor counts of validators.
Quiet == UNCHANGED <<config, deposits, accounting, summary, blockVars>>

\* Calls that leave the modules and the block alone keep the invariant.
LEMMA QuietKeeps ==
    ASSUME RouterInv, Quiet, maxTopUpPerBlock' \in Nat \ {0},
           stale' \in [Addresses -> BOOLEAN], canDeposit' \in BOOLEAN
    PROVE  RouterInv'
  <1>1. RegistryType'
    BY DEF RouterInv, RegistryType, Quiet, blockVars, Ids
  <1>2. AddressesDiffer' /\ FeesConsistent'
    BY DEF RouterInv, AddressesDiffer, FeesConsistent, FeeSum, Quiet, Ids
  <1>3. ExitsBounded' /\ BlockBegun'
    BY DEF RouterInv, ExitsBounded, BlockBegun, SummaryOf, Quiet, blockVars, Ids
  <1> QED
    BY <1>1, <1>2, <1>3 DEF RouterInv

\* A step after which every module is where it was.
SamePlaces == Ids' = Ids /\ \A id \in Ids : config'[id].address = config[id].address

\* A step of the counts of validators that no deposit is part of.
LEMMA CountsKeep ==
    ASSUME RouterInv, SamePlaces, config' \in Seq(ModuleRecord), FeesConsistent',
           deposits' \in [Ids -> [lastDepositBlock: 0..blockNumber, maxDepositsPerBlock: Nat,
                                  minDepositBlockDistance: Nat \ {0}]],
           \A id \in Ids : deposits'[id].lastDepositBlock = deposits[id].lastDepositBlock,
           accounting' \in [Ids -> [validatorsBalance: Nat, exitedValidatorsCount: Nat]],
           summary' \in [Addresses -> [exited: Nat, deposited: Nat, depositable: Nat]],
           stale' \in [Addresses -> BOOLEAN],
           \A a \in Addresses : /\ summary'[a].deposited = summary[a].deposited
                                /\ summary'[a].exited <= summary[a].deposited,
           \A id \in Ids : accounting'[id].exitedValidatorsCount <= SummaryOf(id).deposited,
           UNCHANGED <<maxTopUpPerBlock, canDeposit, blockVars>>
    PROVE  RouterInv'
  <1>1. RegistryType'
    BY DEF RouterInv, RegistryType, ModuleRecord, blockVars, SamePlaces
  <1>2. \A id \in Ids : config[id].address \in Addresses
    BY IdsAre
  <1>3. AddressesDiffer'
    BY DEF RouterInv, AddressesDiffer, SamePlaces
  <1>4. ExitsBounded'
    BY <1>2 DEF ExitsBounded, SummaryOf, SamePlaces
  <1>5. BlockBegun'
    BY <1>2 DEF RouterInv, BlockBegun, SummaryOf, SamePlaces, blockVars
  <1> QED
    BY <1>1, <1>3, <1>4, <1>5 DEF RouterInv

-----------------------------------------------------------------------------
(* Deposits                                                                *)

\* What the guards of a deposit say: it is the first of its module in this
\* block, and no larger than the limit of the module.
LEMMA DepositGuards ==
    ASSUME RouterInv, NEW id \in Ids, NEW count \in Nat, Deposit(id, count)
    PROVE  /\ deposits[id].lastDepositBlock # blockNumber
           /\ count <= deposits[id].maxDepositsPerBlock
  <1>1. deposits[id] \in [lastDepositBlock: 0..blockNumber, maxDepositsPerBlock: Nat,
                          minDepositBlockDistance: Nat \ {0}]
    BY DEF RouterInv, RegistryType
  <1>2. deposits[id].lastDepositBlock # blockNumber
    <2>1. blockNumber - deposits[id].lastDepositBlock >= deposits[id].minDepositBlockDistance
      BY DEF Deposit, DistanceKept
    <2> QED
      BY <1>1, <2>1 DEF RouterInv, RegistryType
  <1>3. count <= deposits[id].maxDepositsPerBlock
    <2> DEFINE byEther == ModuleDepositAllocation(id, FALSE) \div MaxEBType1
    <2>1. /\ MaxDepositsCount(id) = Lesser(deposits[id].maxDepositsPerBlock, byEther)
          /\ MaxDepositsCount(id) \in Nat /\ count <= MaxDepositsCount(id)
      BY DEF Deposit, MaxDepositsCount
    <2> HIDE DEF byEther
    <2>2. CASE MaxDepositsCount(id) = deposits[id].maxDepositsPerBlock
      BY <2>1, <2>2
    <2>3. CASE MaxDepositsCount(id) # deposits[id].maxDepositsPerBlock
      <3>1. byEther \in Nat /\ ~(deposits[id].maxDepositsPerBlock < byEther)
            /\ count <= byEther
        BY <2>1, <2>3 DEF Lesser
      <3> QED
        BY <1>1, <3>1
    <2> QED
      BY <2>2, <2>3
  <1> QED
    BY <1>2, <1>3

\* A deposit counts for its module alone, which had none in this block.
LEMMA DepositKeeps ==
    ASSUME RouterInv, NEW id \in Ids, NEW count \in Nat, Deposit(id, count)
    PROVE  RouterInv'
  <1> DEFINE a == config[id].address
  <1>1. /\ UNCHANGED <<config, accounting, maxTopUpPerBlock, stale, blockVars, canDeposit>>
        /\ deposits' = [deposits EXCEPT ![id].lastDepositBlock = blockNumber]
        /\ summary' = [summary EXCEPT ![a].deposited = @ + count, ![a].depositable = @ - count]
        /\ count <= summary[a].depositable
    BY DEF Deposit, UpdateModuleLastDepositState, SpendDepositableEther
  <1>2. a \in Addresses /\ \A i \in Ids : config[i].address \in Addresses
    BY IdsAre
  <1>3. /\ summary[a] \in [exited: Nat, deposited: Nat, depositable: Nat]
        /\ blockNumber \in Nat
        /\ summary \in [Addresses -> [exited: Nat, deposited: Nat, depositable: Nat]]
    BY <1>2 DEF RouterInv, RegistryType
  <1>4. /\ summary'[a] = [summary[a] EXCEPT !.deposited = @ + count, !.depositable = @ - count]
        /\ \A b \in Addresses : b # a => summary'[b] = summary[b]
    BY <1>1, <1>2, <1>3
  <1>5. summary' \in [Addresses -> [exited: Nat, deposited: Nat, depositable: Nat]]
    <2>1. /\ summary[a].deposited + count \in Nat
          /\ summary[a].depositable - count \in Nat
      <3>1. summary[a].deposited \in Nat /\ summary[a].depositable \in Nat
        BY <1>3
      <3> QED
        BY <3>1, <1>1
    <2>2. summary'[a] \in [exited: Nat, deposited: Nat, depositable: Nat]
      BY <1>3, <1>4, <2>1
    <2>3. /\ DOMAIN summary' = Addresses
          /\ summary' = [b \in Addresses |-> summary'[b]]
      BY <1>1, <1>3
    <2>4. \A b \in Addresses :
              summary'[b] \in [exited: Nat, deposited: Nat, depositable: Nat]
      BY <2>2, <1>3, <1>4
    <2> HIDE <1>1
    <2> QED
      BY <2>3, <2>4
  <1>6. RegistryType'
    <2>1. deposits' \in [Ids -> [lastDepositBlock: 0..blockNumber, maxDepositsPerBlock: Nat,
                                 minDepositBlockDistance: Nat \ {0}]]
      <3>1. blockNumber \in 0..blockNumber
        BY <1>3
      <3>2. deposits \in [Ids -> [lastDepositBlock: 0..blockNumber, maxDepositsPerBlock: Nat,
                                  minDepositBlockDistance: Nat \ {0}]]
        BY DEF RouterInv, RegistryType
      <3> QED
        BY <3>1, <3>2, <1>1
    <2> QED
      BY <2>1, <1>1, <1>5 DEF RouterInv, RegistryType, Ids, blockVars
  <1>7. AddressesDiffer' /\ FeesConsistent'
    BY <1>1 DEF RouterInv, AddressesDiffer, FeesConsistent, FeeSum, Ids
  <1>8. ExitsBounded'
    <2>1. \A b \in Addresses : /\ summary'[b].exited = summary[b].exited
                               /\ summary'[b].deposited >= summary[b].deposited
                               /\ summary'[b].deposited \in Nat
      <3>1. /\ summary'[a].exited = summary[a].exited
            /\ summary'[a].deposited = summary[a].deposited + count
            /\ summary[a].deposited \in Nat
        BY <1>3, <1>4
      <3>2. \A b \in Addresses : summary[b].deposited \in Nat
        BY <1>3
      <3>3. summary'[a].deposited \in Nat /\ summary'[a].deposited >= summary[a].deposited
        BY <3>1
      <3>4. \A b \in Addresses : b # a => /\ summary'[b].deposited >= summary[b].deposited
                                          /\ summary'[b].deposited \in Nat
        BY <3>2, <1>4
      <3> QED
        BY <3>1, <3>3, <3>4, <1>4
    <2>2. \A b \in Addresses : summary'[b].exited <= summary'[b].deposited
      BY <2>1, <1>3 DEF RouterInv, ExitsBounded
    <2>3. \A i \in Ids : accounting[i].exitedValidatorsCount <= summary'[config[i].address].deposited
      <3>1. \A i \in Ids : /\ accounting[i].exitedValidatorsCount \in Nat
                            /\ accounting[i].exitedValidatorsCount
                                   <= summary[config[i].address].deposited
        BY DEF RouterInv, RegistryType, ExitsBounded, SummaryOf
      <3>2. \A i \in Ids : summary[config[i].address].deposited \in Nat
        BY <1>2, <1>3
      <3>3. \A i \in Ids : summary'[config[i].address].deposited
                               >= summary[config[i].address].deposited
                            /\ summary'[config[i].address].deposited \in Nat
        BY <2>1, <1>2
      <3> QED
        BY <3>1, <3>2, <3>3
    <2> QED
      BY <2>2, <2>3, <1>1 DEF ExitsBounded, SummaryOf, Ids
  <1>9. BlockBegun'
    <2> SUFFICES ASSUME NEW i \in Ids, deposits'[i].lastDepositBlock # blockNumber
                 PROVE  summary'[config[i].address].deposited = depositedBefore[config[i].address]
      BY <1>1 DEF BlockBegun, SummaryOf, Ids, blockVars
    <2>1. i # id
      BY <1>1 DEF RouterInv, RegistryType
    <2>2. config[i].address # a /\ deposits'[i] = deposits[i]
      BY <2>1, <1>1 DEF RouterInv, AddressesDiffer, RegistryType
    <2> QED
      BY <2>2, <1>2, <1>4 DEF RouterInv, BlockBegun, SummaryOf
  <1> QED
    BY <1>6, <1>7, <1>8, <1>9 DEF RouterInv

-----------------------------------------------------------------------------
(* The registry                                                            *)

\* What the validation of parameters guarantees.
LEMMA ParamsType ==
    ASSUME RouterInv, NEW c \in ModuleConfig, NEW id, ValidParams(id, c)
    PROVE  /\ c.fee \in 0..TOTAL_BASIS_POINTS /\ c.treasuryFee \in 0..TOTAL_BASIS_POINTS
           /\ c.stakeShareLimit \in 0..TOTAL_BASIS_POINTS
           /\ c.maxDepositsPerBlock \in Nat /\ c.minDepositBlockDistance \in Nat \ {0}
           /\ FeeSum(c) <= TOTAL_BASIS_POINTS
           /\ \A other \in Ids \ {id} : FeeSum(config[other]) = FeeSum(c)
  <1>1. /\ c.fee \in Nat /\ c.treasuryFee \in Nat /\ c.stakeShareLimit \in Nat
        /\ c.maxDepositsPerBlock \in Nat /\ c.minDepositBlockDistance \in Nat
    BY DEF ModuleConfig
  <1>2. /\ c.stakeShareLimit <= TOTAL_BASIS_POINTS
        /\ c.fee + c.treasuryFee <= TOTAL_BASIS_POINTS
        /\ c.minDepositBlockDistance # 0
    BY DEF ValidParams, FeeSum
  <1> QED
    BY <1>1, <1>2, RouterAssumption DEF ValidParams, ConsistentFeeSum, FeeSum

\* Appending to a function of 1..n that is not called a sequence.
LEMMA Appended ==
    ASSUME NEW S, NEW n \in Nat, NEW f \in [1..n -> S], NEW e \in S
    PROVE  Append(f, e) = [i \in 1..(n + 1) |-> IF i = n + 1 THEN e ELSE f[i]]
  <1>1. f \in Seq(S) /\ Len(f) = n
    OBVIOUS
  <1>2. Append(f, e) \in Seq(S) /\ Len(Append(f, e)) = n + 1
    BY <1>1
  <1>3. \A i \in 1..(n + 1) : Append(f, e)[i] = IF i = n + 1 THEN e ELSE f[i]
    BY <1>1
  <1>4. Append(f, e) = [i \in 1..(n + 1) |-> Append(f, e)[i]]
    BY <1>2, LenProperties
  <1> QED
    BY <1>3, <1>4

\* A module is added at an address of its own, with the fees that the others charge.
LEMMA AddKeeps ==
    ASSUME RouterInv, NEW a \in Addresses, NEW c \in ModuleConfig, AddStakingModule(a, c)
    PROVE  RouterInv'
  <1> DEFINE n == Len(config)
             new == StateConfig(a, "Active", c)
             newDeposits == StateDeposits(c, blockNumber)
             newAccounting == [validatorsBalance |-> 0, exitedValidatorsCount |-> 0]
  <1>1. /\ config' = Append(config, new)
        /\ deposits' = Append(deposits, newDeposits)
        /\ accounting' = Append(accounting, newAccounting)
        /\ UNCHANGED <<maxTopUpPerBlock, summary, stale, canDeposit, blockVars>>
        /\ \A id \in Ids : config[id].address # a
        /\ ValidParams(n + 1, c) /\ c.wcType \in {WC_TYPE_01, WC_TYPE_02}
    BY DEF AddStakingModule, moduleVars, lidoVars, Unregistered
  <1>2. /\ n \in Nat /\ Ids = 1..n /\ config \in Seq(ModuleRecord)
        /\ \A id \in Ids : config[id] \in ModuleRecord /\ config[id].address \in Addresses
    BY IdsAre DEF RouterInv, RegistryType, ModuleRecord
  <1>3. /\ c.fee \in 0..TOTAL_BASIS_POINTS /\ c.treasuryFee \in 0..TOTAL_BASIS_POINTS
        /\ c.stakeShareLimit \in 0..TOTAL_BASIS_POINTS
        /\ c.maxDepositsPerBlock \in Nat /\ c.minDepositBlockDistance \in Nat \ {0}
        /\ FeeSum(c) <= TOTAL_BASIS_POINTS
        /\ \A other \in Ids : FeeSum(config[other]) = FeeSum(c)
    BY <1>1, <1>2, ParamsType
  <1>4. new \in ModuleRecord /\ new.address = a /\ FeeSum(new) = FeeSum(c)
    BY <1>1, <1>3 DEF StateConfig, ModuleRecord, Statuses, FeeSum
  <1>5. /\ config' \in Seq(ModuleRecord) /\ Len(config') = n + 1 /\ Ids' = 1..(n + 1)
        /\ config'[n + 1] = new
        /\ \A id \in Ids : config'[id] = config[id]
    <2> HIDE DEF new
    <2>1. /\ config' \in Seq(ModuleRecord) /\ Len(config') = n + 1
          /\ config'[n + 1] = new /\ \A id \in 1..n : config'[id] = config[id]
      BY <1>1, <1>2, <1>4
    <2> QED
      BY <2>1, <1>2 DEF Ids
  <1>6. newDeposits \in [lastDepositBlock: 0..blockNumber, maxDepositsPerBlock: Nat,
                         minDepositBlockDistance: Nat \ {0}]
        /\ newDeposits.lastDepositBlock = blockNumber
    BY <1>3 DEF StateDeposits, RouterInv, RegistryType
  <1>7. /\ deposits' = [id \in 1..(n + 1) |-> IF id = n + 1 THEN newDeposits ELSE deposits[id]]
        /\ accounting' = [id \in 1..(n + 1) |->
                             IF id = n + 1 THEN newAccounting ELSE accounting[id]]
    <2> DEFINE D == [lastDepositBlock: 0..blockNumber, maxDepositsPerBlock: Nat,
                     minDepositBlockDistance: Nat \ {0}]
               E == [validatorsBalance: Nat, exitedValidatorsCount: Nat]
    <2>1. deposits \in [1..n -> D] /\ newDeposits \in D
      BY <1>2, <1>6 DEF RouterInv, RegistryType
    <2>2. accounting \in [1..n -> E] /\ newAccounting \in E
      BY <1>2 DEF RouterInv, RegistryType
    <2>3. n \in Nat
      BY <1>2
    <2> HIDE DEF newDeposits, newAccounting, n, D, E
    <2>4. Append(deposits, newDeposits) =
              [id \in 1..(n + 1) |-> IF id = n + 1 THEN newDeposits ELSE deposits[id]]
      BY <2>1, <2>3, Appended
    <2>5. Append(accounting, newAccounting) =
              [id \in 1..(n + 1) |-> IF id = n + 1 THEN newAccounting ELSE accounting[id]]
      BY <2>2, <2>3, Appended
    <2> QED
      BY <2>4, <2>5, <1>1
  <1> HIDE DEF new, newDeposits
  <1>8. /\ deposits'[n + 1] = newDeposits /\ \A id \in Ids : deposits'[id] = deposits[id]
        /\ accounting'[n + 1] = newAccounting /\ \A id \in Ids : accounting'[id] = accounting[id]
    BY <1>2, <1>7
  <1>9. \A id \in Ids' : id = n + 1 \/ id \in Ids
    BY <1>2, <1>5
  <1>10. RegistryType'
    <2>1. deposits' \in [Ids' -> [lastDepositBlock: 0..blockNumber, maxDepositsPerBlock: Nat,
                                  minDepositBlockDistance: Nat \ {0}]]
      BY <1>5, <1>6, <1>7, <1>9 DEF RouterInv, RegistryType
    <2>2. accounting' \in [Ids' -> [validatorsBalance: Nat, exitedValidatorsCount: Nat]]
      BY <1>5, <1>7, <1>9 DEF RouterInv, RegistryType
    <2> QED
      BY <2>1, <2>2, <1>1, <1>5 DEF RouterInv, RegistryType, ModuleRecord, blockVars
  <1>11. AddressesDiffer'
    <2> SUFFICES ASSUME NEW i \in Ids', NEW j \in Ids', config'[i].address = config'[j].address
                 PROVE  i = j
      BY DEF AddressesDiffer
    <2>1. CASE i \in Ids /\ j \in Ids
      BY <2>1, <1>5 DEF RouterInv, AddressesDiffer
    <2>2. CASE i = n + 1 /\ j \in Ids
      BY <2>2, <1>1, <1>4, <1>5
    <2>3. CASE i \in Ids /\ j = n + 1
      BY <2>3, <1>1, <1>4, <1>5
    <2> QED
      BY <2>1, <2>2, <2>3, <1>9
  <1>12. FeesConsistent'
    <2>1. \A id \in Ids' : FeeSum(config'[id]) = FeeSum(c)
      BY <1>3, <1>4, <1>5, <1>9
    <2> QED
      BY <2>1, <1>3 DEF FeesConsistent
  <1>13. ExitsBounded'
    <2>1. \A b \in Addresses : summary'[b].exited <= summary'[b].deposited
      BY <1>1 DEF RouterInv, ExitsBounded
    <2>2. ASSUME NEW id \in Ids'
          PROVE  accounting'[id].exitedValidatorsCount <= summary'[config'[id].address].deposited
      <3>1. CASE id \in Ids
        BY <3>1, <1>1, <1>5, <1>8 DEF RouterInv, ExitsBounded, SummaryOf
      <3>2. CASE id = n + 1
        <4>1. summary[a].deposited \in Nat /\ accounting'[id].exitedValidatorsCount = 0
          BY <3>2, <1>8 DEF RouterInv, RegistryType
        <4> QED
          BY <3>2, <4>1, <1>1, <1>4, <1>5
      <3> QED
        BY <3>1, <3>2, <1>9
    <2> QED
      BY <2>1, <2>2 DEF ExitsBounded, SummaryOf
  <1>14. BlockBegun'
    <2> SUFFICES ASSUME NEW id \in Ids', deposits'[id].lastDepositBlock # blockNumber
                 PROVE  summary'[config'[id].address].deposited
                            = depositedBefore'[config'[id].address]
      BY <1>1 DEF BlockBegun, SummaryOf, blockVars
    <2>1. id \in Ids
      BY <1>6, <1>8, <1>9
    <2> QED
      BY <2>1, <1>1, <1>5, <1>8 DEF RouterInv, BlockBegun, SummaryOf, blockVars
  <1> QED
    BY <1>10, <1>11, <1>12, <1>13, <1>14 DEF RouterInv

\* The counts of a step that edits the registry alone.
LEMMA EditKeeps ==
    ASSUME RouterInv, config' \in [Ids -> ModuleRecord], SamePlaces, FeesConsistent',
           deposits' \in [Ids -> [lastDepositBlock: 0..blockNumber, maxDepositsPerBlock: Nat,
                                  minDepositBlockDistance: Nat \ {0}]],
           \A id \in Ids : deposits'[id].lastDepositBlock = deposits[id].lastDepositBlock,
           summary' \in [Addresses -> [exited: Nat, deposited: Nat, depositable: Nat]],
           stale' \in [Addresses -> BOOLEAN],
           \A a \in Addresses : /\ summary'[a].deposited = summary[a].deposited
                                /\ summary'[a].exited = summary[a].exited,
           UNCHANGED <<accounting, maxTopUpPerBlock, canDeposit, blockVars>>
    PROVE  RouterInv'
  <1>1. config' \in Seq(ModuleRecord)
    BY IdsAre
  <1>2. \A a \in Addresses : summary'[a].exited <= summary[a].deposited
    BY DEF RouterInv, ExitsBounded
  <1>3. \A id \in Ids : accounting'[id].exitedValidatorsCount <= SummaryOf(id).deposited
    BY DEF RouterInv, ExitsBounded
  <1>4. accounting' \in [Ids -> [validatorsBalance: Nat, exitedValidatorsCount: Nat]]
    BY DEF RouterInv, RegistryType
  <1> QED
    BY <1>1, <1>2, <1>3, <1>4, CountsKeep

\* An update keeps the sum of the fees.
LEMMA UpdateKeeps ==
    ASSUME RouterInv, NEW id \in Ids, NEW c \in ModuleConfig, UpdateStakingModule(id, c)
    PROVE  RouterInv'
  <1>1. /\ config' = [config EXCEPT ![id].fee = c.fee, ![id].treasuryFee = c.treasuryFee,
                                    ![id].stakeShareLimit = c.stakeShareLimit]
        /\ deposits' = [deposits EXCEPT ![id] = StateDeposits(c, @.lastDepositBlock)]
        /\ UNCHANGED <<accounting, maxTopUpPerBlock, summary, stale, canDeposit, blockVars>>
        /\ ValidParams(id, c)
    BY DEF UpdateStakingModule, moduleVars, lidoVars
  <1>2. /\ c.fee \in 0..TOTAL_BASIS_POINTS /\ c.treasuryFee \in 0..TOTAL_BASIS_POINTS
        /\ c.stakeShareLimit \in 0..TOTAL_BASIS_POINTS
        /\ c.maxDepositsPerBlock \in Nat /\ c.minDepositBlockDistance \in Nat \ {0}
        /\ FeeSum(c) <= TOTAL_BASIS_POINTS
        /\ \A other \in Ids \ {id} : FeeSum(config[other]) = FeeSum(c)
    BY <1>1, ParamsType
  <1>3. /\ Ids = DOMAIN config /\ config[id] \in ModuleRecord
        /\ \A i \in Ids : config[i] \in ModuleRecord
    BY IdsAre DEF Ids
  <1>4. /\ Ids' = Ids /\ DOMAIN config' = Ids
        /\ config'[id] = [config[id] EXCEPT !.fee = c.fee, !.treasuryFee = c.treasuryFee,
                                            !.stakeShareLimit = c.stakeShareLimit]
        /\ \A i \in Ids : i # id => config'[i] = config[i]
    BY <1>1, <1>3 DEF Ids
  <1>5. /\ config'[id] \in ModuleRecord /\ config'[id].address = config[id].address
        /\ FeeSum(config'[id]) = FeeSum(c)
    BY <1>2, <1>3, <1>4 DEF ModuleRecord, FeeSum
  <1>6. config' \in [Ids -> ModuleRecord] /\ SamePlaces
    <2>1. config' = [i \in Ids |-> config'[i]]
      BY <1>1, <1>3
    <2>2. \A i \in Ids : config'[i] \in ModuleRecord
      BY <1>3, <1>4, <1>5
    <2>3. SamePlaces
      BY <1>4, <1>5 DEF SamePlaces
    <2> QED
      BY <2>1, <2>2, <2>3
  <1>7. FeesConsistent'
    <2>1. \A i \in Ids : FeeSum(config'[i]) = FeeSum(c)
      BY <1>2, <1>4, <1>5
    <2> QED
      BY <2>1, <1>2, <1>4 DEF FeesConsistent
  <1>8. /\ deposits' \in [Ids -> [lastDepositBlock: 0..blockNumber, maxDepositsPerBlock: Nat,
                                  minDepositBlockDistance: Nat \ {0}]]
        /\ \A i \in Ids : deposits'[i].lastDepositBlock = deposits[i].lastDepositBlock
    BY <1>1, <1>2 DEF RouterInv, RegistryType, StateDeposits
  <1>9. /\ summary' \in [Addresses -> [exited: Nat, deposited: Nat, depositable: Nat]]
        /\ stale' \in [Addresses -> BOOLEAN]
    BY <1>1 DEF RouterInv, RegistryType
  <1> QED
    BY <1>1, <1>6, <1>7, <1>8, <1>9, EditKeeps

\* A step that edits one field of the configuration, or the status, of modules
\* whose fees it leaves alone.
LEMMA NoFeeEditKeeps ==
    ASSUME RouterInv, config' \in [Ids -> ModuleRecord], Ids' = Ids,
           \A id \in Ids : /\ config'[id].address = config[id].address
                           /\ config'[id].fee = config[id].fee
                           /\ config'[id].treasuryFee = config[id].treasuryFee,
           summary' \in [Addresses -> [exited: Nat, deposited: Nat, depositable: Nat]],
           stale' \in [Addresses -> BOOLEAN],
           \A a \in Addresses : /\ summary'[a].deposited = summary[a].deposited
                                /\ summary'[a].exited = summary[a].exited,
           UNCHANGED <<deposits, accounting, maxTopUpPerBlock, canDeposit, blockVars>>
    PROVE  RouterInv'
  <1>1. SamePlaces
    BY DEF SamePlaces
  <1>2. FeesConsistent'
    BY DEF RouterInv, FeesConsistent, FeeSum
  <1>3. /\ deposits' \in [Ids -> [lastDepositBlock: 0..blockNumber, maxDepositsPerBlock: Nat,
                                  minDepositBlockDistance: Nat \ {0}]]
        /\ \A id \in Ids : deposits'[id].lastDepositBlock = deposits[id].lastDepositBlock
    BY DEF RouterInv, RegistryType
  <1> QED
    BY <1>1, <1>2, <1>3, EditKeeps

\* New share limits touch neither fees nor counts.
LEMMA SharesKeep ==
    ASSUME RouterInv, NEW id \in Ids, NEW limit \in Nat, UpdateModuleShares(id, limit)
    PROVE  RouterInv'
  <1>1. /\ config' = [config EXCEPT ![id].stakeShareLimit = limit]
        /\ limit \in 0..TOTAL_BASIS_POINTS
        /\ UNCHANGED <<deposits, accounting, maxTopUpPerBlock, summary, stale, canDeposit,
                       blockVars>>
    BY RouterAssumption DEF UpdateModuleShares, moduleVars, lidoVars
  <1>2. Ids = DOMAIN config /\ \A i \in Ids : config[i] \in ModuleRecord
    BY IdsAre DEF Ids
  <1>3. config' \in [Ids -> ModuleRecord]
    BY <1>1, <1>2 DEF ModuleRecord
  <1>4. /\ Ids' = Ids
        /\ \A i \in Ids : /\ config'[i].address = config[i].address
                          /\ config'[i].fee = config[i].fee
                          /\ config'[i].treasuryFee = config[i].treasuryFee
    BY <1>1, <1>2 DEF Ids, ModuleRecord
  <1>5. /\ summary \in [Addresses -> [exited: Nat, deposited: Nat, depositable: Nat]]
        /\ stale \in [Addresses -> BOOLEAN]
    BY DEF RouterInv, RegistryType
  <1> QED
    BY <1>1, <1>3, <1>4, <1>5, NoFeeEditKeeps

\* A new status touches neither fees nor counts.
LEMMA StatusKeeps ==
    ASSUME RouterInv, NEW id \in Ids, NEW status \in Statuses,
           SetStakingModuleStatus(id, status)
    PROVE  RouterInv'
  <1>1. /\ config' = [config EXCEPT ![id].status = status]
        /\ UNCHANGED <<deposits, accounting, maxTopUpPerBlock, summary, stale, canDeposit,
                       blockVars>>
    BY DEF SetStakingModuleStatus, moduleVars, lidoVars
  <1>2. Ids = DOMAIN config /\ \A i \in Ids : config[i] \in ModuleRecord
    BY IdsAre DEF Ids
  <1>3. config' \in [Ids -> ModuleRecord]
    BY <1>1, <1>2 DEF ModuleRecord
  <1>4. /\ Ids' = Ids
        /\ \A i \in Ids : /\ config'[i].address = config[i].address
                          /\ config'[i].fee = config[i].fee
                          /\ config'[i].treasuryFee = config[i].treasuryFee
    BY <1>1, <1>2 DEF Ids, ModuleRecord
  <1>5. /\ summary \in [Addresses -> [exited: Nat, deposited: Nat, depositable: Nat]]
        /\ stale \in [Addresses -> BOOLEAN]
    BY DEF RouterInv, RegistryType
  <1> QED
    BY <1>1, <1>3, <1>4, <1>5, NoFeeEditKeeps

\* New credentials leave counts and fees alone, whichever hooks fail.
LEMMA CredentialsKeep ==
    ASSUME RouterInv, NEW failing \in SUBSET Ids, SetWithdrawalCredentials(failing)
    PROVE  RouterInv'
  <1> DEFINE kept == {config[id].address : id \in failing}
             told == {config[id].address : id \in Ids} \ kept
  <1>1. /\ config' = [id \in Ids |->
                        IF id \in failing
                        THEN [config[id] EXCEPT !.status = StatusAfterFailure(@)]
                        ELSE config[id]]
        /\ summary' = [a \in Addresses |->
                        IF a \in told THEN [summary[a] EXCEPT !.depositable = 0] ELSE summary[a]]
        /\ stale' = [a \in Addresses |->
                        IF a \in told THEN FALSE
                        ELSE stale[a] \/ (a \in kept /\ summary[a].depositable > 0)]
        /\ UNCHANGED <<deposits, accounting, maxTopUpPerBlock, canDeposit, blockVars>>
    BY DEF SetWithdrawalCredentials, lidoVars
  <1> HIDE DEF told, kept
  <1>2. \A i \in Ids : config[i] \in ModuleRecord
    BY IdsAre
  <1>3. config' \in [Ids -> ModuleRecord]
    BY <1>1, <1>2 DEF ModuleRecord, StatusAfterFailure, Statuses
  <1>4. /\ Ids' = Ids
        /\ \A i \in Ids : /\ config'[i].address = config[i].address
                          /\ config'[i].fee = config[i].fee
                          /\ config'[i].treasuryFee = config[i].treasuryFee
    BY <1>1, <1>2 DEF Ids, ModuleRecord
  <1>5. /\ summary' \in [Addresses -> [exited: Nat, deposited: Nat, depositable: Nat]]
        /\ \A a \in Addresses : /\ summary'[a].deposited = summary[a].deposited
                                /\ summary'[a].exited = summary[a].exited
    <2>1. \A a \in Addresses : summary[a] \in [exited: Nat, deposited: Nat, depositable: Nat]
      BY DEF RouterInv, RegistryType
    <2> QED
      BY <1>1, <2>1
  <1>6. stale' \in [Addresses -> BOOLEAN]
    BY <1>1, Zenon DEF RouterInv, RegistryType
  <1> QED
    BY <1>1, <1>3, <1>4, <1>5, <1>6, NoFeeEditKeeps

\* An update of all fees leaves one sum.
LEMMA FeesKeep ==
    ASSUME RouterInv, NEW fees \in [Ids -> [fee: Nat, treasuryFee: Nat]],
           UpdateAllStakingModulesFees(fees)
    PROVE  RouterInv'
  <1>1. /\ config' = [id \in Ids |-> [config[id] EXCEPT !.fee = fees[id].fee,
                                                        !.treasuryFee = fees[id].treasuryFee]]
        /\ \A id \in Ids : FeeSum(fees[id]) <= TOTAL_BASIS_POINTS
                           /\ FeeSum(fees[id]) = FeeSum(fees[1])
        /\ UNCHANGED <<deposits, accounting, maxTopUpPerBlock, summary, stale, canDeposit,
                       blockVars>>
    BY DEF UpdateAllStakingModulesFees, moduleVars, lidoVars
  <1>2. \A i \in Ids : config[i] \in ModuleRecord
    BY IdsAre
  <1>3. \A i \in Ids : /\ fees[i].fee \in 0..TOTAL_BASIS_POINTS
                       /\ fees[i].treasuryFee \in 0..TOTAL_BASIS_POINTS
    <2> TAKE i \in Ids
    <2>1. fees[i].fee \in Nat /\ fees[i].treasuryFee \in Nat
      OBVIOUS
    <2>2. fees[i].fee + fees[i].treasuryFee <= TOTAL_BASIS_POINTS
      BY <1>1 DEF FeeSum
    <2> QED
      BY <2>1, <2>2, RouterAssumption
  <1>4. config' \in [Ids -> ModuleRecord]
    BY <1>1, <1>2, <1>3 DEF ModuleRecord
  <1>5. SamePlaces
    BY <1>1, <1>2 DEF SamePlaces, Ids, ModuleRecord
  <1>6. FeesConsistent'
    <2>1. \A i \in Ids : FeeSum(config'[i]) = FeeSum(fees[i])
      BY <1>1, <1>2 DEF ModuleRecord, FeeSum
    <2>2. Ids' = Ids
      BY <1>5 DEF SamePlaces
    <2> QED
      BY <2>1, <2>2, <1>1 DEF FeesConsistent
  <1>7. /\ summary \in [Addresses -> [exited: Nat, deposited: Nat, depositable: Nat]]
        /\ stale \in [Addresses -> BOOLEAN]
        /\ deposits \in [Ids -> [lastDepositBlock: 0..blockNumber, maxDepositsPerBlock: Nat,
                                 minDepositBlockDistance: Nat \ {0}]]
    BY DEF RouterInv, RegistryType
  <1> QED
    BY <1>1, <1>4, <1>5, <1>6, <1>7, EditKeeps

-----------------------------------------------------------------------------
(* Reports and the contracts around                                        *)

\* The counts of a step that leaves the registry alone.
LEMMA ReportKeeps ==
    ASSUME RouterInv,
           accounting' \in [Ids -> [validatorsBalance: Nat, exitedValidatorsCount: Nat]],
           summary' \in [Addresses -> [exited: Nat, deposited: Nat, depositable: Nat]],
           stale' \in [Addresses -> BOOLEAN],
           \A a \in Addresses : /\ summary'[a].deposited = summary[a].deposited
                                /\ summary'[a].exited <= summary[a].deposited,
           \A id \in Ids : accounting'[id].exitedValidatorsCount <= SummaryOf(id).deposited,
           UNCHANGED <<config, deposits, maxTopUpPerBlock, canDeposit, blockVars>>
    PROVE  RouterInv'
  <1>1. config' \in Seq(ModuleRecord) /\ SamePlaces
    BY DEF RouterInv, RegistryType, ModuleRecord, SamePlaces, Ids
  <1>2. FeesConsistent'
    BY DEF RouterInv, FeesConsistent, FeeSum, Ids
  <1>3. deposits' \in [Ids -> [lastDepositBlock: 0..blockNumber, maxDepositsPerBlock: Nat,
                               minDepositBlockDistance: Nat \ {0}]]
    BY DEF RouterInv, RegistryType
  <1> QED
    BY <1>1, <1>2, <1>3, CountsKeep

\* Reported exits do not exceed the deposits, in both counts.
LEMMA ExitedReportKeeps ==
    ASSUME RouterInv, NEW S \in SUBSET Ids, NEW counts \in [S -> 0..MaxValidators],
           UpdateExitedValidatorsCountByStakingModule(counts)
    PROVE  RouterInv'
  <1>1. /\ accounting' = [id \in Ids |->
                            IF id \in S
                            THEN [accounting[id] EXCEPT !.exitedValidatorsCount = counts[id]]
                            ELSE accounting[id]]
        /\ \A id \in S : counts[id] <= SummaryOf(id).deposited /\ counts[id] \in Nat
        /\ UNCHANGED <<config, deposits, maxTopUpPerBlock, summary, stale, canDeposit, blockVars>>
    BY RouterAssumption
    DEF UpdateExitedValidatorsCountByStakingModule, CanReportExited, moduleVars, lidoVars
  <1>2. \A id \in Ids : /\ accounting[id] \in [validatorsBalance: Nat, exitedValidatorsCount: Nat]
                        /\ accounting[id].exitedValidatorsCount <= SummaryOf(id).deposited
    BY DEF RouterInv, RegistryType, ExitsBounded
  <1>3. /\ accounting' \in [Ids -> [validatorsBalance: Nat, exitedValidatorsCount: Nat]]
        /\ \A id \in Ids : accounting'[id].exitedValidatorsCount <= SummaryOf(id).deposited
    BY <1>1, <1>2
  <1>4. /\ summary \in [Addresses -> [exited: Nat, deposited: Nat, depositable: Nat]]
        /\ stale \in [Addresses -> BOOLEAN]
        /\ \A a \in Addresses : summary[a].exited <= summary[a].deposited
    BY DEF RouterInv, RegistryType, ExitsBounded
  <1> QED
    BY <1>1, <1>3, <1>4, ReportKeeps

\* Steps that set one module's count of exits, its own or the router's.
LEMMA ExitsSetKeep ==
    ASSUME RouterInv, NEW id \in Ids, NEW count \in Nat, NEW exited \in Nat,
           count <= SummaryOf(id).deposited, exited <= SummaryOf(id).deposited,
           accounting' = [accounting EXCEPT ![id].exitedValidatorsCount = count],
           summary' = [summary EXCEPT ![config[id].address].exited = exited],
           UNCHANGED <<config, deposits, maxTopUpPerBlock, stale, canDeposit, blockVars>>
    PROVE  RouterInv'
  <1> DEFINE a == config[id].address
  <1>1. a \in Addresses /\ SummaryOf(id) = summary[a]
    BY IdsAre DEF SummaryOf
  <1>2. /\ summary \in [Addresses -> [exited: Nat, deposited: Nat, depositable: Nat]]
        /\ stale \in [Addresses -> BOOLEAN]
        /\ accounting \in [Ids -> [validatorsBalance: Nat, exitedValidatorsCount: Nat]]
    BY DEF RouterInv, RegistryType
  <1>3. /\ \A b \in Addresses : summary[b].exited <= summary[b].deposited
        /\ \A i \in Ids : accounting[i].exitedValidatorsCount <= SummaryOf(i).deposited
    BY DEF RouterInv, ExitsBounded
  <1> HIDE DEF a
  <1>4. /\ summary' \in [Addresses -> [exited: Nat, deposited: Nat, depositable: Nat]]
        /\ \A b \in Addresses : /\ summary'[b].deposited = summary[b].deposited
                                /\ summary'[b].exited <= summary[b].deposited
    BY <1>1, <1>2, <1>3 DEF a
  <1>5. /\ accounting' \in [Ids -> [validatorsBalance: Nat, exitedValidatorsCount: Nat]]
        /\ \A i \in Ids : accounting'[i].exitedValidatorsCount <= SummaryOf(i).deposited
    BY <1>2, <1>3
  <1> QED
    BY <1>2, <1>4, <1>5, ReportKeeps

\* Exits that a module counts do not exceed its deposits.
LEMMA OperatorReportKeeps ==
    ASSUME RouterInv, NEW id \in Ids, NEW exited \in Nat, ReportExitedByNodeOperator(id, exited)
    PROVE  RouterInv'
  <1> DEFINE count == accounting[id].exitedValidatorsCount
  <1>1. /\ summary' = [summary EXCEPT ![config[id].address].exited = exited]
        /\ exited \in SummaryOf(id).exited..SummaryOf(id).deposited
        /\ UNCHANGED <<config, deposits, accounting, maxTopUpPerBlock, stale, canDeposit,
                       blockVars>>
    BY DEF ReportExitedByNodeOperator, routerVars, lidoVars
  <1>2. SummaryOf(id) \in [exited: Nat, deposited: Nat, depositable: Nat]
    BY IdsAre DEF SummaryOf, RouterInv, RegistryType
  <1>3. exited <= SummaryOf(id).deposited
    BY <1>1, <1>2
  <1>4. count \in Nat /\ count <= SummaryOf(id).deposited
    BY DEF RouterInv, RegistryType, ExitsBounded
  <1>5. accounting' = [accounting EXCEPT ![id].exitedValidatorsCount = count]
    BY <1>1 DEF RouterInv, RegistryType
  <1> HIDE DEF count
  <1> QED
    BY <1>1, <1>3, <1>4, <1>5, ExitsSetKeep

\* Corrections of exits by hand, finished or not, do not exceed the deposits.
LEMMA CorrectionKeeps ==
    ASSUME RouterInv, NEW id \in Ids, NEW count \in Nat, NEW exited \in Nat, NEW finish,
           UnsafeSetExitedValidatorsCount(id, count, exited, finish)
    PROVE  RouterInv'
  BY ExitsSetKeep DEF UnsafeSetExitedValidatorsCount, lidoVars

\* A report of balances leaves the rest of the registry alone.
LEMMA BalancesKeep ==
    ASSUME RouterInv, NEW balances \in [Ids -> Nat],
           ReportValidatorBalancesByStakingModule(balances)
    PROVE  RouterInv'
  <1>1. /\ accounting' = [id \in Ids |->
                            [accounting[id] EXCEPT !.validatorsBalance = balances[id]]]
        /\ UNCHANGED <<config, deposits, maxTopUpPerBlock, summary, stale, canDeposit, blockVars>>
    BY DEF ReportValidatorBalancesByStakingModule, moduleVars, lidoVars
  <1>2. \A id \in Ids : /\ accounting[id] \in [validatorsBalance: Nat, exitedValidatorsCount: Nat]
                        /\ accounting[id].exitedValidatorsCount <= SummaryOf(id).deposited
    BY DEF RouterInv, RegistryType, ExitsBounded
  <1>3. /\ accounting' \in [Ids -> [validatorsBalance: Nat, exitedValidatorsCount: Nat]]
        /\ \A id \in Ids : accounting'[id].exitedValidatorsCount <= SummaryOf(id).deposited
    BY <1>1, <1>2
  <1>4. /\ summary \in [Addresses -> [exited: Nat, deposited: Nat, depositable: Nat]]
        /\ stale \in [Addresses -> BOOLEAN]
        /\ \A a \in Addresses : summary[a].exited <= summary[a].deposited
    BY DEF RouterInv, RegistryType, ExitsBounded
  <1> QED
    BY <1>1, <1>3, <1>4, ReportKeeps

\* What a module answers of its keys leaves the registry alone.
LEMMA KeysKeep ==
    ASSUME RouterInv, NEW id \in Ids, NEW count \in Nat, ModuleChangesKeys(id, count)
    PROVE  RouterInv'
  <1> DEFINE a == config[id].address
  <1>1. /\ summary' = [summary EXCEPT ![a].depositable = count]
        /\ stale' = [stale EXCEPT ![a] = FALSE]
        /\ UNCHANGED <<config, deposits, accounting, maxTopUpPerBlock, canDeposit, blockVars>>
    BY DEF ModuleChangesKeys, routerVars, lidoVars
  <1>2. a \in Addresses
    BY IdsAre
  <1>3. /\ summary \in [Addresses -> [exited: Nat, deposited: Nat, depositable: Nat]]
        /\ accounting \in [Ids -> [validatorsBalance: Nat, exitedValidatorsCount: Nat]]
        /\ \A b \in Addresses : summary[b].exited <= summary[b].deposited
        /\ \A i \in Ids : accounting[i].exitedValidatorsCount <= SummaryOf(i).deposited
    BY DEF RouterInv, RegistryType, ExitsBounded
  <1> HIDE DEF a
  <1>4. /\ summary' \in [Addresses -> [exited: Nat, deposited: Nat, depositable: Nat]]
        /\ \A b \in Addresses : /\ summary'[b].deposited = summary[b].deposited
                                /\ summary'[b].exited <= summary[b].deposited
    BY <1>1, <1>2, <1>3
  <1>5. stale' \in [Addresses -> BOOLEAN]
    BY <1>1 DEF RouterInv, RegistryType
  <1> QED
    BY <1>1, <1>3, <1>4, <1>5, ReportKeeps

\* A new block begins with the deposits there are.
LEMMA BlockKeeps ==
    ASSUME RouterInv, NextBlock
    PROVE  RouterInv'
  <1>1. /\ blockNumber' = blockNumber + 1 /\ blockNumber \in Nat
        /\ depositedBefore' = [a \in Addresses |-> summary[a].deposited]
        /\ UNCHANGED <<config, deposits, accounting, maxTopUpPerBlock, summary, stale, canDeposit>>
    BY DEF NextBlock, routerVars, moduleVars, lidoVars, RouterInv, RegistryType
  <1>2. Ids' = Ids /\ \A id \in Ids : config[id].address \in Addresses
    BY <1>1, IdsAre DEF Ids
  <1>3. RegistryType'
    <2>1. depositedBefore' \in [Addresses -> Nat]
      BY <1>1 DEF RouterInv, RegistryType
    <2>2. deposits' \in [Ids -> [lastDepositBlock: 0..blockNumber', maxDepositsPerBlock: Nat,
                                 minDepositBlockDistance: Nat \ {0}]]
      <3>1. 0..blockNumber \subseteq 0..blockNumber'
        BY <1>1
      <3> QED
        BY <3>1, <1>1 DEF RouterInv, RegistryType
    <2> QED
      BY <2>1, <2>2, <1>1, <1>2 DEF RouterInv, RegistryType
  <1>4. AddressesDiffer' /\ FeesConsistent' /\ ExitsBounded'
    BY <1>1, <1>2 DEF RouterInv, AddressesDiffer, FeesConsistent, FeeSum, ExitsBounded, SummaryOf
  <1>5. BlockBegun'
    BY <1>1, <1>2 DEF BlockBegun, SummaryOf
  <1> QED
    BY <1>3, <1>4, <1>5 DEF RouterInv

-----------------------------------------------------------------------------
(* The invariant                                                           *)

\* What an upgrade finds.
LEMMA OldType ==
    ASSUME NEW old \in OldStorages
    PROVE  /\ old \in Seq(OldModule) /\ Len(old) \in Nat /\ DOMAIN old = 1..Len(old)
           /\ \A i \in DOMAIN old : old[i] \in OldModule
           /\ \A i, j \in DOMAIN old :
                /\ old[i].address = old[j].address => i = j
                /\ old[i].fee + old[i].treasuryFee = old[j].fee + old[j].treasuryFee
           /\ \A i \in DOMAIN old :
                /\ old[i].fee + old[i].treasuryFee <= TOTAL_BASIS_POINTS
                /\ old[i].stakeShareLimit <= TOTAL_BASIS_POINTS
                /\ old[i].exitedValidatorsCount <= old[i].deposited
                /\ old[i].exited <= old[i].deposited
                /\ old[i].minDepositBlockDistance # 0
  <1>1. old \in Seq(OldModule)
    BY MigrationAssumption
  <1>2. Len(old) \in Nat /\ DOMAIN old = 1..Len(old) /\ \A i \in DOMAIN old : old[i] \in OldModule
    BY <1>1
  <1> QED
    BY <1>1, <1>2, MigrationAssumption

\* A balance that the upgrade computes from old counts is a natural number.
LEMMA MigratedNat ==
    ASSUME NEW old \in OldStorages, NEW i \in DOMAIN old
    PROVE  MigratedBalance(old[i]) \in Nat
  <1> DEFINE exits == Greater(old[i].exitedValidatorsCount, old[i].exited)
  <1>1. /\ old[i].exitedValidatorsCount \in Nat /\ old[i].exited \in Nat
        /\ old[i].deposited \in Nat
    BY OldType DEF OldModule
  <1>2. old[i].deposited - exits \in Nat
    BY <1>1, OldType DEF Greater
  <1> HIDE DEF exits
  <1>3. \A x \in Nat : x * MaxEBType1 \in Nat
    BY RouterAssumption
  <1> QED
    BY <1>2, <1>3 DEF MigratedBalance, exits

\* The invariant holds of a fresh router and of an upgraded one.
LEMMA InitInv == Init => RouterInv
  <1> SUFFICES ASSUME Init PROVE RouterInv
    OBVIOUS
  <1>1. PICK old \in OldStorages : MigratedModules(old)
    BY DEF Init
  <1>2. /\ old \in Seq(OldModule) /\ Len(old) \in Nat /\ DOMAIN old = 1..Len(old)
        /\ \A i \in DOMAIN old : old[i] \in OldModule
        /\ \A i, j \in DOMAIN old :
             /\ old[i].address = old[j].address => i = j
             /\ old[i].fee + old[i].treasuryFee = old[j].fee + old[j].treasuryFee
        /\ \A i \in DOMAIN old :
             /\ old[i].fee + old[i].treasuryFee <= TOTAL_BASIS_POINTS
             /\ old[i].stakeShareLimit <= TOTAL_BASIS_POINTS
             /\ old[i].exitedValidatorsCount <= old[i].deposited
             /\ old[i].exited <= old[i].deposited
             /\ old[i].minDepositBlockDistance # 0
    BY OldType
  <1>3. /\ config = [i \in DOMAIN old |->
                       [address |-> old[i].address, fee |-> old[i].fee,
                        treasuryFee |-> old[i].treasuryFee,
                        stakeShareLimit |-> old[i].stakeShareLimit,
                        status |-> old[i].status, wcType |-> WC_TYPE_01]]
        /\ deposits = [i \in DOMAIN old |->
                         [lastDepositBlock |-> 0,
                          maxDepositsPerBlock |-> old[i].maxDepositsPerBlock,
                          minDepositBlockDistance |-> old[i].minDepositBlockDistance]]
        /\ accounting = [i \in DOMAIN old |->
                           [validatorsBalance     |-> MigratedBalance(old[i]),
                            exitedValidatorsCount |-> old[i].exitedValidatorsCount]]
        /\ Ids = DOMAIN old
    BY <1>1 DEF MigratedModules, StateConfig, StateDeposits, Ids
  <1>4. /\ summary \in [Addresses -> [exited: Nat, deposited: Nat, depositable: Nat]]
        /\ \A a \in Addresses : summary[a].exited <= summary[a].deposited
        /\ \A i \in DOMAIN old : summary[old[i].address].deposited = old[i].deposited
    <2> DEFINE Of(a) == CHOOSE i \in DOMAIN old : old[i].address = a
               S(a) == IF \E i \in DOMAIN old : old[i].address = a
                       THEN [exited |-> old[Of(a)].exited, deposited |-> old[Of(a)].deposited,
                             depositable |-> old[Of(a)].depositable]
                       ELSE [exited |-> 0, deposited |-> 0, depositable |-> 0]
    <2>1. summary = [a \in Addresses |-> S(a)]
      BY <1>1 DEF MigratedModules
    <2>2. ASSUME NEW i \in DOMAIN old
          PROVE  Of(old[i].address) = i
      BY <1>2
    <2>3. ASSUME NEW a \in Addresses
          PROVE  /\ S(a) \in [exited: Nat, deposited: Nat, depositable: Nat]
                 /\ S(a).exited <= S(a).deposited
      <3>1. CASE \E i \in DOMAIN old : old[i].address = a
        <4>1. PICK i \in DOMAIN old : old[i].address = a
          BY <3>1
        <4>2. S(a) = [exited |-> old[i].exited, deposited |-> old[i].deposited,
                      depositable |-> old[i].depositable]
          <5>1. Of(a) = i
            BY <4>1, <2>2
          <5> HIDE DEF Of
          <5> QED
            BY <4>1, <5>1
        <4>3. old[i].exited \in Nat /\ old[i].deposited \in Nat /\ old[i].depositable \in Nat
              /\ old[i].exited <= old[i].deposited
          BY <1>2 DEF OldModule
        <4> QED
          BY <4>2, <4>3
      <3>2. CASE ~\E i \in DOMAIN old : old[i].address = a
        BY <3>2
      <3> QED
        BY <3>1, <3>2
    <2>4. ASSUME NEW i \in DOMAIN old
          PROVE  old[i].address \in Addresses /\ S(old[i].address).deposited = old[i].deposited
      <3>1. old[i].address \in Addresses
        BY <1>2 DEF OldModule
      <3> QED
        BY <3>1, <2>2
    <2> HIDE DEF S
    <2> QED
      BY <2>1, <2>3, <2>4
  <1>5. \A i \in DOMAIN old : MigratedBalance(old[i]) \in Nat
    BY MigratedNat
  <1>6. RegistryType
    <2>1. \A i \in DOMAIN old :
             /\ old[i].fee \in 0..TOTAL_BASIS_POINTS
             /\ old[i].treasuryFee \in 0..TOTAL_BASIS_POINTS
             /\ old[i].stakeShareLimit \in 0..TOTAL_BASIS_POINTS
             /\ old[i].minDepositBlockDistance \in Nat \ {0}
      <3> TAKE i \in DOMAIN old
      <3>1. /\ old[i].fee \in Nat /\ old[i].treasuryFee \in Nat
            /\ old[i].stakeShareLimit \in Nat /\ old[i].minDepositBlockDistance \in Nat
        BY <1>2 DEF OldModule
      <3>2. /\ old[i].fee + old[i].treasuryFee <= TOTAL_BASIS_POINTS
            /\ old[i].stakeShareLimit <= TOTAL_BASIS_POINTS
            /\ old[i].minDepositBlockDistance # 0
        BY <1>2
      <3> QED
        BY <3>1, <3>2, RouterAssumption
    <2>2. config \in Seq(ModuleRecord)
      BY <1>2, <1>3, <2>1 DEF OldModule, ModuleRecord
    <2>3. blockNumber = 1 /\ maxTopUpPerBlock \in Nat \ {0} /\ canDeposit \in BOOLEAN
          /\ stale \in [Addresses -> BOOLEAN]
      BY RouterAssumption DEF Init
    <2>4. deposits \in [Ids -> [lastDepositBlock: 0..blockNumber, maxDepositsPerBlock: Nat,
                                minDepositBlockDistance: Nat \ {0}]]
      BY <1>2, <1>3, <2>1, <2>3 DEF OldModule
    <2>5. accounting \in [Ids -> [validatorsBalance: Nat, exitedValidatorsCount: Nat]]
      BY <1>2, <1>3, <1>5 DEF OldModule
    <2>6. depositedBefore \in [Addresses -> Nat]
      BY <1>4 DEF Init
    <2> QED
      BY <2>2, <2>3, <2>4, <2>5, <2>6, <1>4 DEF RegistryType, ModuleRecord
  <1>7. AddressesDiffer /\ FeesConsistent
    BY <1>2, <1>3 DEF AddressesDiffer, FeesConsistent, FeeSum
  <1>8. ExitsBounded
    BY <1>2, <1>3, <1>4 DEF ExitsBounded, SummaryOf
  <1>9. BlockBegun
    <2>1. \A id \in Ids : config[id].address \in Addresses
      BY <1>2, <1>3 DEF OldModule
    <2> QED
      BY <2>1 DEF Init, BlockBegun, SummaryOf
  <1> QED
    BY <1>6, <1>7, <1>8, <1>9 DEF RouterInv

\* Every step keeps the invariant.
LEMMA NextKeeps == RouterInv /\ [Next]_vars => RouterInv'
  <1> SUFFICES ASSUME RouterInv, [Next]_vars PROVE RouterInv'
    OBVIOUS
  <1>0. /\ maxTopUpPerBlock \in Nat \ {0} /\ stale \in [Addresses -> BOOLEAN]
        /\ canDeposit \in BOOLEAN
    BY DEF RouterInv, RegistryType
  <1>1. CASE DepositStep
    <2>1. PICK id \in Ids :
            \/ \E count \in 0..MaxValidators : Deposit(id, count)
            \/ \E limits, allocations : TopUp(id, limits, allocations)
      BY <1>1 DEF DepositStep
    <2>2. CASE \E count \in 0..MaxValidators : Deposit(id, count)
      BY <2>2, DepositKeeps
    <2>3. CASE \E limits, allocations : TopUp(id, limits, allocations)
      BY <2>3, <1>0, QuietKeeps DEF TopUp, SpendDepositableEther, routerVars, Quiet
    <2> QED
      BY <2>1, <2>2, <2>3
  <1>2. CASE ManagerStep
    <2>1. CASE \E a \in Addresses, c \in ModuleConfigs : AddStakingModule(a, c)
      BY <2>1, RouterAssumption, AddKeeps
    <2>2. CASE \E fees \in [Ids -> FeePairs] : UpdateAllStakingModulesFees(fees)
      <3>1. PICK fees \in [Ids -> FeePairs] : UpdateAllStakingModulesFees(fees)
        BY <2>2
      <3>2. fees \in [Ids -> [fee: Nat, treasuryFee: Nat]]
        BY RouterAssumption
      <3> QED
        BY <3>1, <3>2, FeesKeep
    <2>3. CASE \E cap \in TopUpCaps : SetMaxTopUpPerBlock(cap)
      <3>1. PICK cap \in TopUpCaps : SetMaxTopUpPerBlock(cap)
        BY <2>3
      <3>2. maxTopUpPerBlock' \in Nat \ {0}
        BY <3>1, RouterAssumption DEF SetMaxTopUpPerBlock
      <3> QED
        BY <3>1, <3>2, <1>0, QuietKeeps DEF SetMaxTopUpPerBlock, moduleVars, lidoVars, Quiet
    <2>4. CASE \E failing \in SUBSET Ids : SetWithdrawalCredentials(failing)
      BY <2>4, CredentialsKeep
    <2>5. CASE \E id \in Ids, c \in ModuleConfigs :
                  UpdateStakingModule(id, c) \/ UpdateModuleShares(id, c.stakeShareLimit)
      <3>1. PICK id \in Ids, c \in ModuleConfigs :
                  UpdateStakingModule(id, c) \/ UpdateModuleShares(id, c.stakeShareLimit)
        BY <2>5
      <3>2. c \in ModuleConfig /\ c.stakeShareLimit \in Nat
        BY RouterAssumption DEF ModuleConfig
      <3> QED
        BY <3>1, <3>2, UpdateKeeps, SharesKeep
    <2>6. CASE \E id \in Ids, status \in Statuses : SetStakingModuleStatus(id, status)
      BY <2>6, StatusKeeps
    <2>7. CASE \E id \in Ids, count, exited \in 0..MaxValidators, finish \in BOOLEAN :
                  UnsafeSetExitedValidatorsCount(id, count, exited, finish)
      <3>1. PICK id \in Ids, count \in 0..MaxValidators, exited \in 0..MaxValidators,
                 finish \in BOOLEAN : UnsafeSetExitedValidatorsCount(id, count, exited, finish)
        BY <2>7
      <3>2. count \in Nat /\ exited \in Nat
        BY RouterAssumption
      <3> QED
        BY <3>1, <3>2, CorrectionKeeps
    <2> QED
      BY <1>2, <2>1, <2>2, <2>3, <2>4, <2>5, <2>6, <2>7 DEF ManagerStep
  <1>3. CASE ReportStep
    <2>1. CASE \E S \in SUBSET Ids : \E counts \in [S -> 0..MaxValidators] :
                  UpdateExitedValidatorsCountByStakingModule(counts)
      BY <2>1, ExitedReportKeeps
    <2>2. CASE \E id \in Ids, exited \in 0..MaxValidators : ReportExitedByNodeOperator(id, exited)
      BY <2>2, RouterAssumption, OperatorReportKeeps
    <2>3. CASE \E balances \in [Ids -> Balances] : ReportValidatorBalancesByStakingModule(balances)
      <3>1. PICK balances \in [Ids -> Balances] : ReportValidatorBalancesByStakingModule(balances)
        BY <2>3
      <3>2. balances \in [Ids -> Nat]
        BY RouterAssumption
      <3> QED
        BY <3>1, <3>2, BalancesKeep
    <2> QED
      BY <1>3, <2>1, <2>2, <2>3 DEF ReportStep
  <1>4. CASE OutsideStep
    <2>1. CASE \E id \in Ids : \E count \in KeyCounts : ModuleChangesKeys(id, count)
      BY <2>1, RouterAssumption, KeysKeep
    <2>2. CASE \E id \in Ids : \E delta \in StakeDeltas : ModuleChangesStake(id, delta)
      BY <2>2, <1>0, QuietKeeps DEF ModuleChangesStake, routerVars, lidoVars, Quiet
    <2>3. CASE \E amount \in LidoAmounts, open \in BOOLEAN : LidoChanges(amount, open)
      <3>1. Quiet /\ canDeposit' \in BOOLEAN /\ UNCHANGED <<maxTopUpPerBlock, stale>>
        BY <2>3 DEF LidoChanges, routerVars, moduleVars, Quiet
      <3> QED
        BY <3>1, <1>0, QuietKeeps
    <2>4. CASE NextBlock
      BY <2>4, BlockKeeps
    <2> QED
      BY <1>4, <2>1, <2>2, <2>3, <2>4 DEF OutsideStep
  <1>5. CASE UNCHANGED vars
    BY <1>5, <1>0, QuietKeeps DEF vars, routerVars, moduleVars, lidoVars, Quiet
  <1> QED
    BY <1>1, <1>2, <1>3, <1>4, <1>5 DEF Next

\* Every reachable state satisfies the inductive invariant.
THEOREM RouterInvariant == Spec => []RouterInv
  BY InitInv, NextKeeps, PTL DEF Spec

\* No module ever has more exits than deposits, by either count: an allocation
\* never fails for a module that was reported wrongly (SRLib.sol,
\* _getModulesAllocationAndCapacity).
THEOREM AlwaysAllocates == Spec => []ActiveCountDefined
  <1>1. RouterInv => ActiveCountDefined
    <2> SUFFICES ASSUME RouterInv, NEW id \in Ids PROVE ActiveCount(id) >= 0
      BY DEF ActiveCountDefined, CanAllocate
    <2>1. /\ SummaryOf(id) \in [exited: Nat, deposited: Nat, depositable: Nat]
          /\ accounting[id].exitedValidatorsCount \in Nat
      BY IdsAre DEF RouterInv, RegistryType, SummaryOf
    <2>2. /\ SummaryOf(id).exited <= SummaryOf(id).deposited
          /\ accounting[id].exitedValidatorsCount <= SummaryOf(id).deposited
      BY IdsAre DEF RouterInv, ExitsBounded, SummaryOf
    <2> QED
      BY <2>1, <2>2 DEF ActiveCount, Greater
  <1> QED
    BY <1>1, RouterInvariant, PTL

\* No module is registered twice (SRLib.sol, _addModule).
THEOREM NoneTwice == Spec => []AddressesDiffer
  <1>1. RouterInv => AddressesDiffer
    BY DEF RouterInv
  <1> QED
    BY <1>1, RouterInvariant, PTL

\* All modules charge one and the same sum, however they are added and edited.
THEOREM OneFeeSum == Spec => []FeesConsistent
  <1>1. RouterInv => FeesConsistent
    BY DEF RouterInv
  <1> QED
    BY <1>1, RouterInvariant, PTL

-----------------------------------------------------------------------------
(* Balances and other amounts                                              *)

\* A sum over the ids is over a finite set of numbers.
LEMMA BalancesType ==
    ASSUME RouterInv
    PROVE  /\ IsFiniteSet(Ids)
           /\ \A id \in Ids : accounting[id].validatorsBalance \in Nat
           /\ [id \in Ids |-> accounting[id].validatorsBalance] \in [Ids -> Nat]
  <1>1. IsFiniteSet(Ids)
    <2>1. Len(config) \in Int /\ 1 \in Int
      BY IdsAre
    <2> QED
      BY <2>1, IdsAre, FS_Interval
  <1>2. \A id \in Ids : accounting[id].validatorsBalance \in Nat
    BY DEF RouterInv, RegistryType
  <1> QED
    BY <1>1, <1>2

\* A fresh router has no balance, an upgraded one the sum that the upgrade computes.
LEMMA InitBalances == Init => BalancesAddUp
  <1> SUFFICES ASSUME Init PROVE BalancesAddUp
    OBVIOUS
  <1>1. PICK old \in OldStorages : MigratedModules(old)
    BY DEF Init
  <1>2. DOMAIN config = DOMAIN old
    BY <1>1 DEF MigratedModules
  <1>3. accounting = [i \in DOMAIN old |->
                        [validatorsBalance     |-> MigratedBalance(old[i]),
                         exitedValidatorsCount |-> old[i].exitedValidatorsCount]]
    BY <1>1 DEF MigratedModules
  <1>4. [id \in Ids |-> accounting[id].validatorsBalance]
          = [i \in DOMAIN old |-> MigratedBalance(old[i])]
    BY <1>2, <1>3 DEF Ids
  <1>5. totalBalance = SumFunctionOnSet([i \in DOMAIN old |-> MigratedBalance(old[i])], DOMAIN old)
    BY <1>1 DEF MigratedModules, SumFunction
  <1> QED
    BY <1>2, <1>4, <1>5 DEF BalancesAddUp, Ids

\* A step that leaves every module its balance.
SameBalances ==
    /\ Ids' = Ids /\ totalBalance' = totalBalance
    /\ \A id \in Ids : accounting'[id].validatorsBalance = accounting[id].validatorsBalance

\* Only an added module and a report change balances.
LEMMA OtherStepsKeepBalances ==
    ASSUME RouterInv, Next,
           ~\E a \in Addresses, c \in ModuleConfigs : AddStakingModule(a, c),
           ~\E balances \in [Ids -> Balances] : ReportValidatorBalancesByStakingModule(balances)
    PROVE  SameBalances
  <1>1. /\ Ids = DOMAIN config /\ \A i \in Ids : config[i] \in ModuleRecord
        /\ config \in Seq(ModuleRecord)
        /\ accounting \in [Ids -> [validatorsBalance: Nat, exitedValidatorsCount: Nat]]
    BY IdsAre DEF Ids, RouterInv, RegistryType, ModuleRecord
  <1>2. CASE DepositStep
    BY <1>2 DEF DepositStep, Deposit, TopUp, routerVars, SameBalances, Ids
  <1>3. CASE ManagerStep
    <2>1. CASE \E i \in Ids : \E c : UpdateStakingModule(i, c)
      BY <2>1, <1>1 DEF UpdateStakingModule, SameBalances, Ids
    <2>2. CASE \E i \in Ids : \E limit : UpdateModuleShares(i, limit)
      BY <2>2, <1>1 DEF UpdateModuleShares, SameBalances, Ids
    <2>3. CASE \E fees : UpdateAllStakingModulesFees(fees)
      BY <2>3, <1>1 DEF UpdateAllStakingModulesFees, SameBalances, Ids
    <2>4. CASE \E i \in Ids : \E status : SetStakingModuleStatus(i, status)
      BY <2>4, <1>1 DEF SetStakingModuleStatus, SameBalances, Ids
    <2>5. CASE \E failing : SetWithdrawalCredentials(failing)
      BY <2>5, <1>1 DEF SetWithdrawalCredentials, SameBalances, Ids
    <2>6. CASE \E cap : SetMaxTopUpPerBlock(cap)
      BY <2>6 DEF SetMaxTopUpPerBlock, SameBalances, Ids
    <2>7. CASE \E i \in Ids : \E count, exited, finish :
                  UnsafeSetExitedValidatorsCount(i, count, exited, finish)
      BY <2>7, <1>1 DEF UnsafeSetExitedValidatorsCount, SameBalances, Ids
    <2> QED
      BY <1>3, <2>1, <2>2, <2>3, <2>4, <2>5, <2>6, <2>7 DEF ManagerStep
  <1>4. CASE ReportStep
    <2>1. CASE \E S \in SUBSET Ids : \E counts \in [S -> 0..MaxValidators] :
                  UpdateExitedValidatorsCountByStakingModule(counts)
      BY <2>1, <1>1 DEF UpdateExitedValidatorsCountByStakingModule, SameBalances, Ids
    <2>2. CASE \E id \in Ids, exited \in 0..MaxValidators : ReportExitedByNodeOperator(id, exited)
      BY <2>2 DEF ReportExitedByNodeOperator, routerVars, SameBalances, Ids
    <2> QED
      BY <1>4, <2>1, <2>2 DEF ReportStep
  <1>5. CASE OutsideStep
    BY <1>5 DEF OutsideStep, ModuleChangesKeys, ModuleChangesStake, LidoChanges, NextBlock,
       routerVars, SameBalances, Ids
  <1> QED
    BY <1>2, <1>3, <1>4, <1>5 DEF Next

\* A new module has no balance.
LEMMA AddedBalances ==
    ASSUME RouterInv, NEW a \in Addresses, NEW c \in ModuleConfig, AddStakingModule(a, c),
           BalancesAddUp
    PROVE  BalancesAddUp'
  <1> DEFINE n == Len(config)
             E == [validatorsBalance: Nat, exitedValidatorsCount: Nat]
             none == [validatorsBalance |-> 0, exitedValidatorsCount |-> 0]
             before == [id \in Ids |-> accounting[id].validatorsBalance]
             after == [id \in Ids' |-> accounting'[id].validatorsBalance]
  <1>1. n \in Nat /\ Ids = 1..n /\ Ids' = 1..(n + 1)
    <2>1. config \in Seq(ModuleRecord) /\ StateConfig(a, "Active", c) \in ModuleRecord
      BY ParamsType DEF AddStakingModule, StateConfig, ModuleRecord, Statuses, RouterInv,
         RegistryType
    <2>2. config' = Append(config, StateConfig(a, "Active", c))
      BY DEF AddStakingModule
    <2> HIDE DEF StateConfig
    <2>3. config' \in Seq(ModuleRecord) /\ Len(config') = n + 1
      BY <2>1, <2>2
    <2> QED
      BY <2>1, <2>3, IdsAre DEF Ids
  <1>2. accounting' = [id \in 1..(n + 1) |-> IF id = n + 1 THEN none ELSE accounting[id]]
    <2>1. accounting \in [1..n -> E] /\ none \in E
      BY <1>1 DEF RouterInv, RegistryType
    <2>2. accounting' = Append(accounting, none)
      BY DEF AddStakingModule
    <2> HIDE DEF n, E, none
    <2> QED
      BY <1>1, <2>1, <2>2, Appended
  <1>3. /\ \A id \in Ids' : after[id] \in Int
        /\ after[n + 1] = 0 /\ n + 1 \in Ids' /\ Ids' \ {n + 1} = Ids
        /\ \A id \in Ids : after[id] = before[id]
    <2>1. \A id \in Ids : accounting[id].validatorsBalance \in Nat
      BY BalancesType
    <2> HIDE DEF n
    <2> QED
      BY <1>1, <1>2, <2>1
  <1>4. IsFiniteSet(Ids') /\ IsFiniteSet(Ids)
    <2>1. n + 1 \in Int /\ 1 \in Int
      BY <1>1
    <2> QED
      BY <1>1, <2>1, FS_Interval, BalancesType
  <1> HIDE DEF n, after, before
  <1>5. SumFunctionOnSet(after, Ids') = after[n + 1] + SumFunctionOnSet(after, Ids)
    BY <1>3, <1>4, SumRemove
  <1>6. SumFunctionOnSet(after, Ids) = SumFunctionOnSet(before, Ids)
    BY <1>3, <1>4, SumEqual
  <1>7. totalBalance = SumFunctionOnSet(before, Ids) /\ totalBalance' = totalBalance
    BY DEF BalancesAddUp, AddStakingModule, before
  <1>8. SumFunctionOnSet(after, Ids) \in Int
    BY <1>3, <1>4, SumInt
  <1>9. totalBalance' = SumFunctionOnSet(after, Ids')
    BY <1>3, <1>5, <1>6, <1>7, <1>8
  <1> QED
    BY <1>9 DEF BalancesAddUp, after

\* The total of the router is that of its modules.
THEOREM BalancesTotal == Spec => []BalancesAddUp
  <1>1. ASSUME RouterInv, RouterInv', BalancesAddUp, [Next]_vars
        PROVE  BalancesAddUp'
    <2>1. CASE \E a \in Addresses, c \in ModuleConfigs : AddStakingModule(a, c)
      BY <1>1, <2>1, RouterAssumption, AddedBalances
    <2>2. CASE \E balances \in [Ids -> Balances] : ReportValidatorBalancesByStakingModule(balances)
      <3>1. PICK balances \in [Ids -> Balances] : ReportValidatorBalancesByStakingModule(balances)
        BY <2>2
      <3>2. /\ totalBalance' = SumFunctionOnSet(balances, Ids)
            /\ Ids' = Ids
            /\ accounting' = [id \in Ids |->
                                [accounting[id] EXCEPT !.validatorsBalance = balances[id]]]
        BY <3>1 DEF ReportValidatorBalancesByStakingModule, TotalOf, SumFunction, Ids
      <3>3. \A id \in Ids : accounting'[id].validatorsBalance = balances[id]
        BY <1>1, <3>2 DEF RouterInv, RegistryType
      <3> DEFINE after == [id \in Ids' |-> accounting'[id].validatorsBalance]
      <3>4. \A id \in Ids : after[id] = balances[id]
        BY <3>2, <3>3
      <3> HIDE DEF after
      <3>5. SumFunctionOnSet(after, Ids) = SumFunctionOnSet(balances, Ids)
        BY <1>1, <3>4, BalancesType, SumEqual
      <3> QED
        BY <3>2, <3>5 DEF BalancesAddUp, after
    <2>3. CASE SameBalances
      BY <1>1, <2>3 DEF SameBalances, BalancesAddUp
    <2>4. CASE UNCHANGED vars
      BY <2>3, <2>4 DEF vars, routerVars, SameBalances, Ids
    <2> QED
      BY <1>1, <2>1, <2>2, <2>3, <2>4, OtherStepsKeepBalances
  <1> QED
    BY <1>1, InitBalances, RouterInvariant, PTL DEF Spec

\* What the modules hold and what Lido offers never falls below zero.
AmountsType == stake \in [Addresses -> Nat] /\ depositableEther \in Nat

\* A product of naturals is a natural.
LEMMA Product ==
    ASSUME NEW x \in Nat, NEW y \in Nat
    PROVE  x * y \in Nat
  OBVIOUS

\* At the start stakes and ether are amounts.
LEMMA InitAmounts == Init => AmountsType
  <1> SUFFICES ASSUME Init PROVE AmountsType
    OBVIOUS
  <1>1. /\ summary \in [Addresses -> [exited: Nat, deposited: Nat, depositable: Nat]]
        /\ \A a \in Addresses : summary[a].exited <= summary[a].deposited
    BY InitInv DEF RouterInv, RegistryType, ExitsBounded
  <1>2. \A a \in Addresses : summary[a].deposited - summary[a].exited \in Nat
    BY <1>1
  <1>3. \A a \in Addresses : (summary[a].deposited - summary[a].exited) * MaxEBType1 \in Nat
    BY <1>2, Product, RouterAssumption
  <1> QED
    BY <1>3, RouterAssumption DEF Init, AmountsType

\* Ether that goes from Lido to a module.
LEMMA Received ==
    ASSUME RouterInv, AmountsType, NEW id \in Ids, NEW amount \in Nat,
           stake' = [stake EXCEPT ![config[id].address] = @ + amount],
           depositableEther' = depositableEther - amount,
           amount # 0 => amount <= depositableEther
    PROVE  AmountsType'
  <1>1. stake \in [Addresses -> Nat] /\ config[id].address \in Addresses
    BY IdsAre DEF AmountsType
  <1>2. stake[config[id].address] + amount \in Nat
    BY <1>1
  <1>3. stake' \in [Addresses -> Nat]
    BY <1>1, <1>2
  <1>4. depositableEther' \in Nat
    <2>1. depositableEther \in Nat
      BY DEF AmountsType
    <2>2. CASE amount = 0
      BY <2>1, <2>2
    <2>3. CASE amount # 0
      BY <2>1, <2>3
    <2> QED
      BY <2>2, <2>3
  <1> QED
    BY <1>3, <1>4 DEF AmountsType

\* A top-up allocates natural numbers, and their sum is what Lido pays.
LEMMA TopUpAmount ==
    ASSUME RouterInv, AmountsType, NEW id \in Ids, NEW n \in Nat, NEW limits,
           NEW allocations \in [1..n -> 0..depositableEther], TopUp(id, limits, allocations)
    PROVE  /\ SumFunction(allocations) \in Nat
           /\ AmountsType'
  <1>1. SumFunction(allocations) \in Nat
    <2>1. IsFiniteSet(1..n)
      BY FS_Interval
    <2>2. allocations \in [1..n -> Nat]
      BY DEF AmountsType
    <2> QED
      BY <2>1, <2>2, SumNat
  <1> DEFINE amount == SumFunction(allocations)
  <1>2. /\ stake' = [stake EXCEPT ![config[id].address] = @ + amount]
        /\ depositableEther' = depositableEther - amount
        /\ amount # 0 => amount <= depositableEther
    BY DEF TopUp, SpendDepositableEther
  <1> HIDE DEF amount
  <1>3. amount \in Nat
    BY <1>1 DEF amount
  <1> QED
    BY <1>1, <1>2, <1>3, Received DEF AmountsType

\* Every step leaves stakes and ether amounts.
LEMMA AmountsKept ==
    ASSUME RouterInv, AmountsType, [Next]_vars
    PROVE  AmountsType'
  <1>1. CASE \E id \in Ids, count \in 0..MaxValidators : Deposit(id, count)
    <2>1. PICK id \in Ids, count \in 0..MaxValidators : Deposit(id, count)
      BY <1>1
    <2> DEFINE amount == count * MaxEBType1
    <2>2. amount \in Nat
      BY Product, RouterAssumption
    <2>3. /\ stake' = [stake EXCEPT ![config[id].address] = @ + amount]
          /\ depositableEther' = depositableEther - amount
          /\ amount # 0 => amount <= depositableEther
      BY <2>1 DEF Deposit, SpendDepositableEther
    <2> HIDE DEF amount
    <2> QED
      BY <2>2, <2>3, Received
  <1>2. CASE \E id \in Ids : \E n \in TopUpKeys : \E topUpLimits \in [1..n -> TopUpLimits] :
                \E allocations \in [1..n -> 0..depositableEther] :
                    TopUp(id, topUpLimits, allocations)
    BY <1>2, TopUpAmount, RouterAssumption
  <1>3. CASE ManagerStep
    BY <1>3 DEF ManagerStep, AddStakingModule, UpdateStakingModule, UpdateModuleShares,
       UpdateAllStakingModulesFees, SetStakingModuleStatus, SetMaxTopUpPerBlock,
       SetWithdrawalCredentials, UnsafeSetExitedValidatorsCount, moduleVars, lidoVars,
       AmountsType
  <1>4. CASE ReportStep
    BY <1>4 DEF ReportStep, UpdateExitedValidatorsCountByStakingModule,
       ReportExitedByNodeOperator, ReportValidatorBalancesByStakingModule, moduleVars,
       lidoVars, AmountsType
  <1>5. CASE OutsideStep
    <2>1. CASE \E id \in Ids, delta \in StakeDeltas : ModuleChangesStake(id, delta)
      <3>1. PICK id \in Ids, delta \in StakeDeltas : ModuleChangesStake(id, delta)
        BY <2>1
      <3> DEFINE a == config[id].address
                 bound == MaxValidators * MaxEBType2
      <3>2. /\ stake[a] + delta \in 0..bound
            /\ stake' = [stake EXCEPT ![a] = @ + delta]
            /\ UNCHANGED depositableEther
        BY <3>1 DEF ModuleChangesStake, lidoVars
      <3>3. bound \in Nat
        BY Product, RouterAssumption
      <3> HIDE DEF a, bound
      <3>4. stake[a] + delta \in Nat
        BY <3>2, <3>3
      <3> QED
        BY <3>2, <3>4 DEF AmountsType
    <2>2. CASE ~\E id \in Ids, delta \in StakeDeltas : ModuleChangesStake(id, delta)
      BY <1>5, <2>2, RouterAssumption DEF OutsideStep, ModuleChangesKeys, LidoChanges, NextBlock,
         moduleVars, lidoVars, AmountsType
    <2> QED
      BY <2>1, <2>2
  <1>6. CASE UNCHANGED vars
    BY <1>6 DEF vars, moduleVars, lidoVars, AmountsType
  <1> QED
    BY <1>1, <1>2, <1>3, <1>4, <1>5, <1>6 DEF Next, DepositStep

\* The amounts of the router and of Lido are never below zero.
THEOREM AmountsInvariant == Spec => []AmountsType
  BY InitAmounts, AmountsKept, RouterInvariant, PTL DEF Spec

\* Every slot keeps its type: no sum over modules, no penalty and no payment of
\* Lido takes an amount below zero.
THEOREM TypeCorrect == Spec => []TypeOK
  <1>1. ASSUME RouterInv, AmountsType, BalancesAddUp
        PROVE  TypeOK
    <2>1. totalBalance \in Nat
      <3> DEFINE balances == [id \in Ids |-> accounting[id].validatorsBalance]
      <3>1. IsFiniteSet(Ids) /\ balances \in [Ids -> Nat]
        BY <1>1, BalancesType
      <3>2. totalBalance = SumFunctionOnSet(balances, Ids) /\ DOMAIN balances = Ids
        BY <1>1 DEF BalancesAddUp
      <3> HIDE DEF balances
      <3>3. SumFunction(balances) \in Nat
        BY <3>1, SumNat
      <3> QED
        BY <3>2, <3>3 DEF SumFunction
    <2> QED
      BY <1>1, <2>1 DEF RouterInv, RegistryType, AmountsType, TypeOK
  <1> QED
    BY <1>1, RouterInvariant, AmountsInvariant, BalancesTotal, PTL

-----------------------------------------------------------------------------
(* Fees                                                                    *)

\* What two roundings of a share leave of its fee.
LEMMA TwoFees ==
    ASSUME NEW s \in Nat, NEW f \in Nat, NEW g \in Nat, NEW b \in Nat \ {0}
    PROVE  /\ ((s * f) \div b) + ((s * g) \div b) \in Nat
           /\ b * (((s * f) \div b) + ((s * g) \div b)) <= (f + g) * s
           /\ (f + g) * s <= b * (((s * f) \div b) + ((s * g) \div b)) + (2 * b) * 1
  <1> DEFINE q == (s * f) \div b
             r == (s * g) \div b
  <1>1. s * f \in Nat /\ s * g \in Nat /\ (f + g) * s = s * f + s * g
    OBVIOUS
  <1>2. q \in Nat /\ b * q <= s * f /\ s * f < b * q + b
    BY <1>1, Quotient
  <1>3. r \in Nat /\ b * r <= s * g /\ s * g < b * r + b
    BY <1>1, Quotient
  <1> HIDE DEF q, r
  <1>4. b * (q + r) = b * q + b * r /\ b * q \in Int /\ b * r \in Int
    BY <1>2, <1>3
  <1>5. q + r \in Nat /\ b * (q + r) <= (f + g) * s /\ (f + g) * s <= b * (q + r) + (2 * b) * 1
    BY <1>1, <1>2, <1>3, <1>4
  <1> QED
    BY <1>5 DEF q, r

\* The shares of the modules, of all of the precision, lose at most one each.
LEMMA SharesOfAll ==
    ASSUME NEW T \in Nat \ {0}, NEW P \in Nat, NEW S \in Int, NEW k \in Nat,
           T * S <= P * T + 0 * k, P * T <= T * S + T * k
    PROVE  S <= P /\ P <= S + k
  <1>1. T * S <= T * P
    <2>1. P * T = T * P /\ 0 * k = 0 /\ T * P \in Int
      OBVIOUS
    <2> QED
      BY <2>1
  <1>2. T * P <= T * (S + k)
    <2>1. P * T = T * P /\ T * (S + k) = T * S + T * k
      OBVIOUS
    <2> QED
      BY <2>1
  <1> QED
    BY <1>1, <1>2, CancelFactor

\* The fees of the shares, of the fee of all of the precision, lose at most
\* three each.
LEMMA FeesOfAll ==
    ASSUME NEW B \in Nat \ {0}, NEW P \in Nat, NEW F \in 0..B, NEW S \in Int,
           NEW k \in Nat, NEW total \in Int, S <= P, P <= S + k,
           B * total <= F * S + 0 * k, F * S <= B * total + (2 * B) * k
    PROVE  /\ total <= (F * P) \div B
           /\ total >= ((F * P) \div B) - 3 * k
  <1> DEFINE q == (F * P) \div B
  <1>1. F \in Nat /\ F * P \in Nat
    OBVIOUS
  <1>2. q \in Nat /\ B * q <= F * P /\ F * P < B * q + B
    BY <1>1, Quotient
  <1> HIDE DEF q
  <1>3. F * S <= F * P /\ F * S \in Int
    BY <1>1, FactorKeepsOrder
  <1>4. total <= q
    <2>1. B * total \in Int /\ 0 * k = 0
      OBVIOUS
    <2>2. B * total < B * q + B
      BY <1>1, <1>2, <1>3, <2>1
    <2>3. B * q + B = B * (q + 1)
      BY <1>2
    <2>4. ~(B * (q + 1) <= B * total)
      BY <1>2, <2>1, <2>2, <2>3
    <2>5. ~(q + 1 <= total)
      BY <1>2, <2>4, FactorKeepsOrder
    <2> QED
      BY <1>2, <2>5
  <1>5. q <= total + 3 * k
    <2>1. F * P <= F * (S + k) /\ F * (S + k) = F * S + F * k /\ F * k \in Int
      BY <1>1, FactorKeepsOrder
    <2>2. F * k <= B * k
      <3>1. k * F <= k * B
        BY FactorKeepsOrder
      <3> QED
        BY <1>1, <3>1
    <2>3. B * (total + 3 * k) = B * total + (2 * B) * k + B * k
      OBVIOUS
    <2>4. /\ B * total \in Int /\ (2 * B) * k \in Int /\ B * k \in Int
          /\ B * q \in Int
      BY <1>2
    <2>5. B * q <= B * (total + 3 * k)
      BY <1>1, <1>2, <1>3, <2>1, <2>2, <2>3, <2>4
    <2> QED
      BY <1>2, <2>5, CancelFactor
  <1> QED
    BY <1>2, <1>4, <1>5 DEF q

\* The share of a module and what it charges, in the terms of the sums.
LEMMA ModuleTerms ==
    ASSUME RouterInv, totalBalance \in Nat \ {0}, NEW id \in Ids
    PROVE  LET k    == Count(Ids, Rewarded)[id]
               bal  == accounting[id].validatorsBalance
               fee  == IF id \in Rewarded THEN ModuleFee(id) + TreasuryFee(id) ELSE 0
               sum  == FeeSum(config[1])
           IN  /\ k \in Nat /\ bal \in Nat /\ fee \in Nat /\ ModuleShare(id) \in Nat
               /\ totalBalance * ModuleShare(id) <= FEE_PRECISION_POINTS * bal + 0 * k
               /\ FEE_PRECISION_POINTS * bal <= totalBalance * ModuleShare(id) + totalBalance * k
               /\ TOTAL_BASIS_POINTS * fee <= sum * ModuleShare(id) + 0 * k
               /\ sum * ModuleShare(id) <= TOTAL_BASIS_POINTS * fee + (2 * TOTAL_BASIS_POINTS) * k
  <1> DEFINE k    == Count(Ids, Rewarded)[id]
             bal  == accounting[id].validatorsBalance
             fee  == IF id \in Rewarded THEN ModuleFee(id) + TreasuryFee(id) ELSE 0
             sum  == FeeSum(config[1])
             P == FEE_PRECISION_POINTS
             B == TOTAL_BASIS_POINTS
             T == totalBalance
             s == ModuleShare(id)
             f == config[id].fee
             g == config[id].treasuryFee
             two == ((s * f) \div B) + ((s * g) \div B)
  <1>1. /\ bal \in Nat /\ P \in Nat /\ B \in Nat \ {0} /\ T \in Nat \ {0}
        /\ f \in Nat /\ g \in Nat /\ sum = f + g
    <2>1. 1 \in Ids /\ FeeSum(config[1]) = FeeSum(config[id])
      BY IdsAre DEF RouterInv, FeesConsistent
    <2>2. f \in Nat /\ g \in Nat
      BY IdsAre DEF ModuleRecord
    <2> QED
      BY <2>1, <2>2, BalancesType, RouterAssumption DEF FeeSum
  <1>2. s = (bal * P) \div T
    BY DEF ModuleShare
  <1>3. id \in Rewarded <=> bal # 0
    BY <1>1 DEF Rewarded
  <1>4. /\ id \in Rewarded => k = 1 /\ fee = two
        /\ id \notin Rewarded => k = 0 /\ fee = 0
    BY DEF Count, ModuleFee, TreasuryFee
  <1> HIDE DEF bal, fee, sum, P, B, T, s, f, g, k
  <1>5. bal * P \in Nat /\ P * bal = bal * P
    BY <1>1
  <1>6. s \in Nat /\ T * s <= bal * P /\ bal * P < T * s + T
    BY <1>1, <1>2, <1>5, Quotient
  <1>7. two \in Nat /\ B * two <= (f + g) * s /\ (f + g) * s <= B * two + (2 * B) * 1
    BY <1>1, <1>6, TwoFees
  <1> HIDE DEF two
  <1>8. CASE id \in Rewarded
    <2>1. k = 1 /\ fee \in Nat /\ B * fee <= sum * s /\ sum * s <= B * fee + (2 * B) * 1
      BY <1>1, <1>7, <1>8, <1>4
    <2>2. T * s \in Int /\ T * 1 = T /\ 0 * 1 = 0 /\ sum * s \in Int /\ B * fee \in Int
      BY <1>1, <1>6, <2>1
    <2>3. /\ k \in Nat /\ bal \in Nat /\ fee \in Nat /\ s \in Nat
          /\ T * s <= P * bal + 0 * k
          /\ P * bal <= T * s + T * k
          /\ B * fee <= sum * s + 0 * k
          /\ sum * s <= B * fee + (2 * B) * k
      BY <1>1, <1>5, <1>6, <2>1, <2>2
    <2> QED
      BY <2>3 DEF k, bal, fee, sum, P, B, T, s
  <1>9. CASE id \notin Rewarded
    <2>1. k = 0 /\ fee = 0 /\ bal = 0
      BY <1>9, <1>3, <1>4
    <2>2. bal * P = 0
      BY <1>1, <2>1
    <2>3. s = 0
      <3>1. T * s <= 0
        BY <1>6, <2>2
      <3>2. s # 0 => T * 1 <= T * s
        BY <1>1, <1>6, FactorKeepsOrder
      <3>3. T * s \in Int
        BY <1>1, <1>6
      <3> QED
        BY <1>1, <3>1, <3>2, <3>3
    <2>4. sum \in Nat
      BY <1>1
    <2>5. /\ k \in Nat /\ bal \in Nat /\ fee \in Nat /\ s \in Nat
          /\ T * s <= P * bal + 0 * k
          /\ P * bal <= T * s + T * k
          /\ B * fee <= sum * s + 0 * k
          /\ sum * s <= B * fee + (2 * B) * k
      BY <1>1, <2>1, <2>3, <2>4
    <2> QED
      BY <2>5 DEF k, bal, fee, sum, P, B, T, s
  <1> QED
    BY <1>8, <1>9

\* Whatever the balances, all fees together are what every module charges, less
\* at most three units of the precision for each module with a balance: the
\* shares round down, and the two fees of a share do.
THEOREM FeesAddUp == Spec => []FeeIsConfigured
  <1>1. ASSUME RouterInv, BalancesAddUp, TypeOK, Rewarded # {}
        PROVE  LET configured == (FeeSum(config[1]) * FEE_PRECISION_POINTS) \div TOTAL_BASIS_POINTS
               IN  /\ TotalFee <= configured
                   /\ TotalFee >= configured - 3 * Cardinality(Rewarded)
    <2> DEFINE count  == Count(Ids, Rewarded)
               bals   == [id \in Ids |-> accounting[id].validatorsBalance]
               parts  == [id \in Ids |-> ModuleShare(id)]
               fees   == [id \in Ids |-> IF id \in Rewarded THEN ModuleFee(id) + TreasuryFee(id) ELSE 0]
               T == totalBalance
               P == FEE_PRECISION_POINTS
               B == TOTAL_BASIS_POINTS
               F == FeeSum(config[1])
               k == Cardinality(Rewarded)
               S == SumFunctionOnSet(parts, Ids)
    <2>1. /\ T \in Nat \ {0} /\ P \in Nat /\ B \in Nat \ {0}
      BY <1>1, RouterAssumption DEF TypeOK, Rewarded
    <2>2. F \in 0..B
      <3>1. 1 \in Ids
        BY <1>1, IdsAre DEF Rewarded
      <3>2. F <= B /\ config[1] \in ModuleRecord
        BY <1>1, <3>1, IdsAre DEF RouterInv, FeesConsistent
      <3> QED
        BY <3>2, <2>1 DEF ModuleRecord, FeeSum
    <2>3. IsFiniteSet(Ids)
      BY <1>1, BalancesType
    <2>4. ASSUME NEW id \in Ids
          PROVE  /\ count[id] \in Int /\ bals[id] \in Int /\ fees[id] \in Int /\ parts[id] \in Int
                 /\ T * parts[id] <= P * bals[id] + 0 * count[id]
                 /\ P * bals[id] <= T * parts[id] + T * count[id]
                 /\ B * fees[id] <= F * parts[id] + 0 * count[id]
                 /\ F * parts[id] <= B * fees[id] + (2 * B) * count[id]
      BY <1>1, <2>1, ModuleTerms
    <2>5. SumFunctionOnSet(count, Ids) = k /\ k \in Nat
      <3>1. Ids \cap Rewarded = Rewarded
        BY DEF Rewarded
      <3>2. IsFiniteSet(Rewarded)
        BY <2>3, <3>1, FS_Subset
      <3> QED
        BY <2>3, <3>1, <3>2, SumCount, FS_CardinalityType
    <2>6. SumFunctionOnSet(bals, Ids) = T /\ SumFunctionOnSet(fees, Ids) = TotalFee
      BY <1>1 DEF BalancesAddUp, TotalFee
    <2> HIDE DEF count, bals, parts, fees, T, P, B, F, k
    <2>7. 2 * B \in Int /\ T \in Int /\ P \in Int /\ B \in Int /\ F \in Int /\ 0 \in Int
      BY <2>1, <2>2
    <2>8. T * S <= P * T + 0 * k
      BY <2>3, <2>4, <2>5, <2>6, <2>7, SumsCompare
    <2>9. P * T <= T * S + T * k
      BY <2>3, <2>4, <2>5, <2>6, <2>7, SumsCompare
    <2>10. B * TotalFee <= F * S + 0 * k
      BY <2>3, <2>4, <2>5, <2>6, <2>7, SumsCompare
    <2>11. F * S <= B * TotalFee + (2 * B) * k
      BY <2>3, <2>4, <2>5, <2>6, <2>7, SumsCompare
    <2>12. S \in Int /\ TotalFee \in Int
      BY <2>3, <2>4, <2>6, SumInt
    <2> HIDE DEF S
    <2>13. S <= P /\ P <= S + k
      BY <2>1, <2>5, <2>8, <2>9, <2>12, SharesOfAll
    <2>14. TotalFee <= (F * P) \div B /\ TotalFee >= ((F * P) \div B) - 3 * k
      BY <2>1, <2>2, <2>5, <2>10, <2>11, <2>12, <2>13, FeesOfAll
    <2> QED
      BY <2>14 DEF F, P, B, k
  <1>2. RouterInv /\ BalancesAddUp /\ TypeOK => FeeIsConfigured
    BY <1>1 DEF FeeIsConfigured
  <1> QED
    BY <1>2, RouterInvariant, BalancesTotal, TypeCorrect, PTL

-----------------------------------------------------------------------------
(* Allocations                                                             *)

\* The levels and the capacities of the modules are natural numbers.
LEMMA LevelsAndCapacities ==
    ASSUME RouterInv, AmountsType, NEW n \in Nat, NEW isTopUp \in BOOLEAN
    PROVE  /\ Ids \subseteq Nat /\ IsFiniteSet(Ids)
           /\ \A id \in Ids : ActiveCount(id) \in Nat
           /\ Allocations \in Levels(Ids)
           /\ Capacities(n, isTopUp) \in Levels(Ids)
  <1>1. Ids \subseteq Nat /\ IsFiniteSet(Ids)
    <2>1. Len(config) \in Nat /\ Ids = 1..Len(config)
      BY IdsAre
    <2> QED
      BY <2>1, FS_Interval
  <1>2. ASSUME NEW id \in Ids
        PROVE  /\ SummaryOf(id) \in [exited: Nat, deposited: Nat, depositable: Nat]
               /\ StakeOf(id) \in Nat /\ ActiveCount(id) \in Nat
               /\ config[id].stakeShareLimit \in Nat
    <2>1. /\ config[id] \in ModuleRecord /\ config[id].address \in Addresses
          /\ summary \in [Addresses -> [exited: Nat, deposited: Nat, depositable: Nat]]
          /\ stake \in [Addresses -> Nat]
          /\ accounting \in [Ids -> [validatorsBalance: Nat, exitedValidatorsCount: Nat]]
      BY IdsAre DEF RouterInv, RegistryType, AmountsType
    <2>2. /\ SummaryOf(id) \in [exited: Nat, deposited: Nat, depositable: Nat]
          /\ SummaryOf(id).exited <= SummaryOf(id).deposited
          /\ accounting[id].exitedValidatorsCount <= SummaryOf(id).deposited
          /\ accounting[id].exitedValidatorsCount \in Nat
      BY <2>1 DEF RouterInv, ExitsBounded, SummaryOf
    <2>3. ActiveCount(id) \in Nat
      <3> DEFINE counts == SummaryOf(id)
      <3>1. /\ counts.exited \in Nat /\ counts.deposited \in Nat
            /\ counts.exited <= counts.deposited
        BY <2>2
      <3> QED
        BY <2>2, <3>1 DEF ActiveCount, Greater
    <2>4. config[id].stakeShareLimit \in Nat
      BY <2>1, RouterAssumption DEF ModuleRecord
    <2> QED
      BY <2>1, <2>2, <2>3, <2>4 DEF StakeOf
  <1>3. \A id \in Ids : CurrentAllocation(id) \in Nat
    <2> SUFFICES ASSUME NEW id \in Ids PROVE CurrentAllocation(id) \in Nat
      OBVIOUS
    <2>1. StakeOf(id) \in Nat /\ ActiveCount(id) \in Nat
      BY <1>2
    <2>2. CeilDiv(StakeOf(id), MaxEBType1) \in Nat
      <3>1. StakeOf(id) + MaxEBType1 - 1 \in Nat
        BY <2>1, RouterAssumption
      <3> QED
        BY <3>1, Quotient, RouterAssumption DEF CeilDiv
    <2> QED
      BY <2>1, <2>2 DEF CurrentAllocation
  <1>4. Allocations \in [Ids -> Nat]
    BY <1>3 DEF Allocations
  <1>5. \A id \in Ids : TargetValidators(id, n) \in Nat
    <2> SUFFICES ASSUME NEW id \in Ids PROVE TargetValidators(id, n) \in Nat
      OBVIOUS
    <2> DEFINE all == SumFunction(Allocations)
    <2>1. all \in Nat
      BY <1>1, <1>4, SumNat
    <2> HIDE DEF all
    <2>2. config[id].stakeShareLimit * (n + all) \in Nat
      BY <1>2, <2>1, Product
    <2> QED
      BY <2>2, Quotient, RouterAssumption DEF TargetValidators, all
  <1>6. \A id \in Ids : ValidatorsCapacity(id, isTopUp) \in Nat
    <2> SUFFICES ASSUME NEW id \in Ids PROVE ValidatorsCapacity(id, isTopUp) \in Nat
      OBVIOUS
    <2>1. ActiveCount(id) * MaxEBType2 \in Nat
      BY <1>2, Product, RouterAssumption
    <2>2. (ActiveCount(id) * MaxEBType2) \div MaxEBType1 \in Nat
      BY <2>1, Quotient, RouterAssumption
    <2>3. CurrentAllocation(id) + SummaryOf(id).depositable \in Nat
      BY <1>2, <1>3
    <2> QED
      BY <2>2, <2>3 DEF ValidatorsCapacity
  <1>7. Capacities(n, isTopUp) \in [Ids -> Nat]
    BY <1>3, <1>5, <1>6 DEF Capacities, Lesser
  <1> QED
    BY <1>1, <1>2, <1>4, <1>7 DEF Levels

\* Whatever the modules hold and may take, the rounds of MinFirst give each of
\* them what it would get deposit by deposit (MinFirstAllocationStrategy.sol,
\* allocate, called by SRLib._getDepositAllocations).
THEOREM AlwaysFair == Spec => []AllocationIsFair
  <1>1. ASSUME RouterInv, AmountsType
        PROVE  AllocationIsFair
    <2> SUFFICES ASSUME NEW n \in AllocationSizes, NEW isTopUp \in BOOLEAN
                 PROVE  Allocate(Allocations, Capacities(n, isTopUp), n)
                          = UnitByUnit(Allocations, Capacities(n, isTopUp), n)
      BY DEF AllocationIsFair
    <2>1. n \in Nat
      BY RouterAssumption
    <2>2. /\ Ids \subseteq Nat /\ IsFiniteSet(Ids)
          /\ Allocations \in Levels(Ids) /\ Capacities(n, isTopUp) \in Levels(Ids)
      BY <1>1, <2>1, LevelsAndCapacities
    <2> QED
      BY <2>1, <2>2, RoundsAreFair
  <1> QED
    BY <1>1, RouterInvariant, AmountsInvariant, PTL

-----------------------------------------------------------------------------
(* Action properties                                                       *)

\* No step moves a module that is registered.
LEMMA AddressKept ==
    ASSUME RouterInv, Next, NEW id \in Ids
    PROVE  config'[id].address = config[id].address
  <1>1. /\ Ids = DOMAIN config /\ \A i \in Ids : config[i] \in ModuleRecord
        /\ config \in Seq(ModuleRecord) /\ Ids = 1..Len(config)
    BY IdsAre DEF Ids, RouterInv, RegistryType, ModuleRecord
  <1>2. CASE DepositStep
    BY <1>2 DEF DepositStep, Deposit, TopUp, routerVars
  <1>3. CASE ManagerStep
    <2>1. CASE \E a, c : AddStakingModule(a, c)
      BY <2>1, <1>1 DEF AddStakingModule
    <2>2. CASE \E i \in Ids : \E c : UpdateStakingModule(i, c)
      BY <2>2, <1>1 DEF UpdateStakingModule, ModuleRecord
    <2>3. CASE \E i \in Ids : \E limit : UpdateModuleShares(i, limit)
      BY <2>3, <1>1 DEF UpdateModuleShares, ModuleRecord
    <2>4. CASE \E fees : UpdateAllStakingModulesFees(fees)
      BY <2>4, <1>1 DEF UpdateAllStakingModulesFees, ModuleRecord
    <2>5. CASE \E i \in Ids : \E status : SetStakingModuleStatus(i, status)
      BY <2>5, <1>1 DEF SetStakingModuleStatus, ModuleRecord
    <2>6. CASE \E failing : SetWithdrawalCredentials(failing)
      BY <2>6, <1>1 DEF SetWithdrawalCredentials, ModuleRecord
    <2>7. CASE \/ \E cap : SetMaxTopUpPerBlock(cap)
               \/ \E i \in Ids : \E count, exited, finish :
                     UnsafeSetExitedValidatorsCount(i, count, exited, finish)
      BY <2>7 DEF SetMaxTopUpPerBlock, UnsafeSetExitedValidatorsCount
    <2> QED
      BY <1>3, <2>1, <2>2, <2>3, <2>4, <2>5, <2>6, <2>7 DEF ManagerStep
  <1>4. CASE ReportStep
    BY <1>4 DEF ReportStep, UpdateExitedValidatorsCountByStakingModule,
       ReportExitedByNodeOperator, ReportValidatorBalancesByStakingModule, routerVars
  <1>5. CASE OutsideStep
    BY <1>5 DEF OutsideStep, ModuleChangesKeys, ModuleChangesStake, LidoChanges, NextBlock,
       routerVars
  <1> QED
    BY <1>2, <1>3, <1>4, <1>5 DEF Next

\* Deposits of a module grow by deposits only, and no module moves.
LEMMA OtherStepsDepositNothing ==
    ASSUME RouterInv, Next, NEW id \in Ids,
           ~\E i \in Ids, count \in 0..MaxValidators : Deposit(i, count)
    PROVE  SummaryOf(id).deposited' = SummaryOf(id).deposited
  <1>1. config'[id].address = config[id].address
    BY AddressKept
  <1>2. /\ config[id].address \in Addresses
        /\ summary \in [Addresses -> [exited: Nat, deposited: Nat, depositable: Nat]]
        /\ \A i \in Ids : config[i].address \in Addresses
    BY IdsAre DEF RouterInv, RegistryType
  <1>3. ASSUME NEW a \in Addresses PROVE summary'[a].deposited = summary[a].deposited
    <2>1. CASE DepositStep
      BY <2>1 DEF DepositStep, TopUp
    <2>2. CASE ManagerStep
      <3>1. CASE \E failing \in SUBSET Ids : SetWithdrawalCredentials(failing)
        BY <3>1, <1>2 DEF SetWithdrawalCredentials
      <3>2. CASE \E i \in Ids : \E count, exited, finish :
                    UnsafeSetExitedValidatorsCount(i, count, exited, finish)
        BY <3>2, <1>2 DEF UnsafeSetExitedValidatorsCount
      <3> QED
        BY <2>2, <3>1, <3>2 DEF ManagerStep, AddStakingModule, UpdateStakingModule,
           UpdateModuleShares, UpdateAllStakingModulesFees, SetStakingModuleStatus,
           SetMaxTopUpPerBlock, moduleVars
    <2>3. CASE ReportStep
      <3>1. CASE \E i \in Ids : \E exited : ReportExitedByNodeOperator(i, exited)
        BY <3>1, <1>2 DEF ReportExitedByNodeOperator
      <3> QED
        BY <2>3, <3>1 DEF ReportStep, UpdateExitedValidatorsCountByStakingModule,
           ReportValidatorBalancesByStakingModule, moduleVars
    <2>4. CASE OutsideStep
      <3>1. CASE \E i \in Ids : \E count : ModuleChangesKeys(i, count)
        BY <3>1, <1>2 DEF ModuleChangesKeys
      <3> QED
        BY <2>4, <3>1 DEF OutsideStep, ModuleChangesStake, LidoChanges, NextBlock, moduleVars
    <2> QED
      BY <2>1, <2>2, <2>3, <2>4 DEF Next
  <1> QED
    BY <1>1, <1>2, <1>3 DEF SummaryOf

\* No step makes keys stale but a change of credentials.
LEMMA OtherStepsStaleNothing ==
    ASSUME RouterInv, Next, NEW id \in Ids,
           ~\E failing \in SUBSET Ids : SetWithdrawalCredentials(failing)
    PROVE  /\ config'[id].address = config[id].address
           /\ \A a \in Addresses : stale'[a] => stale[a]
  <1>1. config'[id].address = config[id].address
    BY AddressKept
  <1>2. stale' = stale \/ \E i \in Ids : \E count : ModuleChangesKeys(i, count)
    <2>1. CASE DepositStep
      BY <2>1 DEF DepositStep, Deposit, TopUp
    <2>2. CASE ManagerStep
      BY <2>2 DEF ManagerStep, AddStakingModule, UpdateStakingModule,
         UpdateModuleShares, UpdateAllStakingModulesFees, SetStakingModuleStatus,
         SetMaxTopUpPerBlock, UnsafeSetExitedValidatorsCount, moduleVars
    <2>3. CASE ReportStep
      BY <2>3 DEF ReportStep, UpdateExitedValidatorsCountByStakingModule,
         ReportExitedByNodeOperator, ReportValidatorBalancesByStakingModule, moduleVars
    <2>4. CASE OutsideStep
      BY <2>4 DEF OutsideStep, ModuleChangesStake, LidoChanges, NextBlock, moduleVars
    <2> QED
      BY <2>1, <2>2, <2>3, <2>4 DEF Next
  <1>3. CASE \E i \in Ids : \E count : ModuleChangesKeys(i, count)
    <2>1. PICK i \in Ids : stale' = [stale EXCEPT ![config[i].address] = FALSE]
      BY <1>3 DEF ModuleChangesKeys
    <2> QED
      BY <1>1, <2>1 DEF RouterInv, RegistryType
  <1> QED
    BY <1>1, <1>2, <1>3

\* A deposit is the first of its module in the block, no larger than the module's
\* limit, and takes the module from the deposits it began the block with
\* (StakingRouter.sol, deposit): calls that find no keys and calls after an
\* addition count as deposits of their block.
THEOREM OneDepositPerBlock == Spec => DepositsPerBlockKept
  <1> DEFINE Kept(id) ==
         SummaryOf(id).deposited' > SummaryOf(id).deposited
         => /\ SummaryOf(id).deposited' - depositedBefore[config[id].address]
                 <= deposits[id].maxDepositsPerBlock
            /\ deposits[id].lastDepositBlock # blockNumber
  <1>1. RouterInv /\ [Next]_vars => [\A id \in Ids : Kept(id)]_vars
    <2> SUFFICES ASSUME RouterInv, Next, NEW id \in Ids,
                        SummaryOf(id).deposited' > SummaryOf(id).deposited
                 PROVE  /\ SummaryOf(id).deposited' - depositedBefore[config[id].address]
                             <= deposits[id].maxDepositsPerBlock
                        /\ deposits[id].lastDepositBlock # blockNumber
      OBVIOUS
    <2> DEFINE a == config[id].address
    <2>1. /\ a \in Addresses /\ summary[a].deposited \in Nat
          /\ SummaryOf(id).deposited = summary[a].deposited
          /\ deposits[id].maxDepositsPerBlock \in Nat
      BY IdsAre DEF RouterInv, RegistryType, SummaryOf
    <2>2. PICK other \in Ids, count \in 0..MaxValidators : Deposit(other, count)
      <3>1. CASE \E i \in Ids, count \in 0..MaxValidators : Deposit(i, count)
        BY <3>1
      <3>2. CASE ~\E i \in Ids, count \in 0..MaxValidators : Deposit(i, count)
        <4>1. SummaryOf(id).deposited' = SummaryOf(id).deposited
          BY <3>2, OtherStepsDepositNothing
        <4> QED
          BY <4>1, <2>1
      <3> QED
        BY <3>1, <3>2
    <2>3. /\ count \in Nat /\ config' = config
          /\ summary' = [summary EXCEPT ![config[other].address].deposited = @ + count,
                                        ![config[other].address].depositable = @ - count]
      BY <2>2 DEF Deposit
    <2>4. other = id
      <3>1. CASE config[other].address = a
        BY <3>1 DEF RouterInv, AddressesDiffer
      <3>2. CASE config[other].address # a
        <4>1. summary \in [Addresses -> [exited: Nat, deposited: Nat, depositable: Nat]]
          BY DEF RouterInv, RegistryType
        <4> HIDE DEF a
        <4>2. summary'[a] = summary[a]
          BY <2>1, <2>3, <3>2, <4>1
        <4>3. SummaryOf(id)' = summary'[a]
          BY <2>3 DEF SummaryOf, a
        <4> QED
          BY <2>1, <4>2, <4>3
      <3> QED
        BY <3>1, <3>2
    <2>5. SummaryOf(id).deposited' = summary[a].deposited + count
      <3>1. summary'[a].deposited = summary[a].deposited + count
        <4>1. summary \in [Addresses -> [exited: Nat, deposited: Nat, depositable: Nat]]
          BY DEF RouterInv, RegistryType
        <4>2. summary' = [summary EXCEPT ![a].deposited = @ + count,
                                         ![a].depositable = @ - count]
          BY <2>3, <2>4
        <4> HIDE DEF a
        <4>3. summary'[a] = [summary[a] EXCEPT !.deposited = @ + count,
                                               !.depositable = @ - count]
          BY <2>1, <4>1, <4>2
        <4>4. summary[a] \in [exited: Nat, deposited: Nat, depositable: Nat]
          BY <2>1, <4>1
        <4> QED
          BY <4>3, <4>4
      <3> QED
        BY <3>1, <2>3 DEF SummaryOf
    <2>6. deposits[id].lastDepositBlock # blockNumber /\ count <= deposits[id].maxDepositsPerBlock
      BY <2>2, <2>3, <2>4, DepositGuards
    <2>7. depositedBefore[a] = summary[a].deposited
      BY <2>1, <2>6 DEF RouterInv, BlockBegun
    <2> QED
      BY <2>1, <2>3, <2>5, <2>6, <2>7
  <1> QED
    BY <1>1, RouterInvariant, PTL DEF DepositsPerBlockKept, Spec

\* Only a manager's activation exposes keys that were signed for former
\* credentials: a module that fails to discard them when the credentials change
\* is put on hold in the same call (SRLib.sol,
\* _notifyStakingModulesOfWithdrawalCredentialsChange).
THEOREM StaleHeld == Spec => StaleKeysHeld
  <1>1. RouterInv /\ [Next]_vars
        => [\A id \in Ids : Exposed(id)' /\ ~Exposed(id) => config[id].status # "Active"]_vars
    <2> SUFFICES ASSUME RouterInv, Next, NEW id \in Ids, Exposed(id)', config[id].status = "Active"
                 PROVE  Exposed(id)
      OBVIOUS
    <2>1. CASE ~\E failing \in SUBSET Ids : SetWithdrawalCredentials(failing)
      <3>1. /\ config'[id].address = config[id].address
            /\ \A a \in Addresses : stale'[a] => stale[a]
        BY <2>1, OtherStepsStaleNothing
      <3> QED
        BY <3>1, IdsAre DEF Exposed
    <2>2. CASE \E failing \in SUBSET Ids : SetWithdrawalCredentials(failing)
      <3>1. PICK failing \in SUBSET Ids : SetWithdrawalCredentials(failing)
        BY <2>2
      <3>2. id \notin failing
        <4>1. id \in failing => config'[id].status = StatusAfterFailure(config[id].status)
          BY <3>1, IdsAre DEF SetWithdrawalCredentials, ModuleRecord
        <4> QED
          BY <4>1 DEF Exposed, StatusAfterFailure
      <3>3. /\ config[id].address \notin {config[i].address : i \in failing}
            /\ config'[id] = config[id]
        BY <3>1, <3>2 DEF SetWithdrawalCredentials, RouterInv, AddressesDiffer
      <3>4. stale'[config[id].address] = FALSE
        BY <3>1, <3>3, IdsAre DEF SetWithdrawalCredentials
      <3> QED
        BY <3>3, <3>4 DEF Exposed
    <2> QED
      BY <2>1, <2>2
  <1> QED
    BY <1>1, RouterInvariant, PTL DEF StaleKeysHeld, Spec

\* What a top-up may bring to a module fits in its active validators.  The level
\* is the stake rounded up to whole deposits, the capacity what the validators
\* can hold rounded down, so that the deposits between the two fit as well.
LEMMA TopUpRoom ==
    ASSUME RouterInv, AmountsType, NEW id \in Ids, config[id].status = "Active",
           config[id].wcType = WC_TYPE_02, NEW amount \in Nat \ {0}, amount <= TopUpTarget(id)
    PROVE  StakeOf(id) + amount <= ActiveCount(id) * MaxEBType2
  <1> DEFINE n     == depositableEther \div MaxEBType1
             new   == Allocate(Allocations, Capacities(n, TRUE), n).buckets
             room  == ActiveCount(id) * MaxEBType2
             fits  == room \div MaxEBType1
             level == Allocations[id]
             up    == new[id]
             cap   == Capacities(n, TRUE)[id]
  <1>1. /\ MaxEBType1 \in Nat \ {0} /\ n \in Nat
        /\ maxTopUpPerBlock \in Nat
    BY Quotient, RouterAssumption DEF AmountsType, RouterInv, RegistryType
  <1>2. /\ Ids \subseteq Nat /\ IsFiniteSet(Ids) /\ ActiveCount(id) \in Nat
        /\ Allocations \in Levels(Ids) /\ Capacities(n, TRUE) \in Levels(Ids)
    BY <1>1, LevelsAndCapacities
  <1>3. /\ new \in Levels(Ids)
        /\ level <= up
        /\ level < up => up <= cap
    BY <1>1, <1>2, AllocationBounds
  <1>4. level \in Nat /\ up \in Nat /\ cap \in Nat
    BY <1>2, <1>3 DEF Levels
  <1>5. amount <= (up - level) * MaxEBType1
    <2>1. ModuleDepositAllocation(id, TRUE) = (up - level) * MaxEBType1
      BY DEF ModuleDepositAllocation, DepositAllocations
    <2> HIDE DEF n, new, up, level
    <2> DEFINE most == (up - level) * MaxEBType1
    <2>2. most \in Int
      BY <1>1, <1>4, SMT
    <2> HIDE DEF most
    <2>3. amount <= Lesser(most, maxTopUpPerBlock)
      BY <2>1 DEF TopUpTarget, most
    <2>4. amount <= most
      BY <1>1, <2>2, <2>3 DEF Lesser
    <2> QED
      BY <2>4 DEF most
  <1>6. room \in Nat /\ MaxEBType1 * fits <= room /\ fits \in Nat
    <2>1. room \in Nat
      BY <1>2, Product, RouterAssumption
    <2> HIDE DEF room
    <2> QED
      BY <2>1, <1>1, Quotient
  <1>7. cap <= fits
    <2>1. cap = Lesser(TargetValidators(id, n), fits)
      BY DEF Capacities, ValidatorsCapacity
    <2> HIDE DEF n, fits, cap
    <2> QED
      BY <1>4, <1>6, <2>1 DEF Lesser
  <1>8. StakeOf(id) \in Nat /\ StakeOf(id) <= MaxEBType1 * level
    <2>1. config[id].address \in Addresses
      BY IdsAre
    <2>2. StakeOf(id) \in Nat
      BY <2>1 DEF StakeOf, AmountsType
    <2>3. level = (StakeOf(id) + MaxEBType1 - 1) \div MaxEBType1
      BY DEF Allocations, CurrentAllocation, CeilDiv
    <2> HIDE DEF level
    <2>4. StakeOf(id) + MaxEBType1 - 1 \in Nat
      BY <1>1, <2>2
    <2>5. StakeOf(id) + MaxEBType1 - 1 < MaxEBType1 * level + MaxEBType1
      BY <1>1, <2>3, <2>4, Quotient
    <2>6. MaxEBType1 * level \in Int
      BY <1>1, <1>4
    <2> QED
      BY <1>1, <2>2, <2>5, <2>6
  <1> HIDE DEF n, new, fits, room, level, up, cap
  <1>9. /\ (up - level) * MaxEBType1 = MaxEBType1 * up - MaxEBType1 * level
        /\ MaxEBType1 * up \in Int /\ MaxEBType1 * level \in Int /\ MaxEBType1 * fits \in Int
    BY <1>1, <1>4, <1>6, SMT
  <1>10. level < up
    <2>1. CASE level = up
      <3>1. (up - level) * MaxEBType1 = 0
        BY <1>9, <2>1
      <3> QED
        BY <1>5, <3>1
    <2> QED
      BY <1>3, <1>4, <2>1
  <1>11. MaxEBType1 * up <= MaxEBType1 * fits
    <2>1. up <= fits
      BY <1>3, <1>4, <1>6, <1>7, <1>10
    <2> QED
      BY <1>1, <1>4, <1>6, <2>1, FactorKeepsOrder
  <1>12. StakeOf(id) + amount <= room
    BY <1>5, <1>6, <1>8, <1>9, <1>11
  <1> QED
    BY <1>12 DEF room

\* A top-up never takes a module beyond what its active validators can hold
\* (StakingRouter.sol, topUp, with the capacities of SRLib.sol).
THEOREM TopUpsFit == Spec => TopUpFits
  <1> DEFINE Fits(id) ==
         StakeOf(id)' > StakeOf(id) /\ SummaryOf(id)' = SummaryOf(id)
           /\ depositableEther' < depositableEther
         => StakeOf(id)' <= ActiveCount(id) * MaxEBType2
  <1>1. RouterInv /\ AmountsType /\ [Next]_vars => [\A id \in Ids : Fits(id)]_vars
    <2> SUFFICES ASSUME RouterInv, AmountsType, Next, NEW id \in Ids,
                        StakeOf(id)' > StakeOf(id), SummaryOf(id)' = SummaryOf(id),
                        depositableEther' < depositableEther
                 PROVE  StakeOf(id)' <= ActiveCount(id) * MaxEBType2
      OBVIOUS
    <2> DEFINE a == config[id].address
    <2>1. /\ a \in Addresses /\ stake[a] \in Nat /\ depositableEther \in Nat
          /\ StakeOf(id) = stake[a] /\ StakeOf(id)' = stake'[a]
          /\ SummaryOf(id) = summary[a] /\ SummaryOf(id)' = summary'[a]
          /\ stake \in [Addresses -> Nat]
          /\ summary \in [Addresses -> [exited: Nat, deposited: Nat, depositable: Nat]]
          /\ \A i \in Ids : config[i].address = a => i = id
      BY IdsAre, AddressKept
         DEF RouterInv, RegistryType, AddressesDiffer, AmountsType, StakeOf, SummaryOf
    <2> HIDE DEF a
    <2>2. stake' # stake /\ depositableEther' # depositableEther
      BY <2>1
    <2>3. CASE \E i \in Ids, count \in 0..MaxValidators : Deposit(i, count)
      <3>1. PICK i \in Ids, count \in 0..MaxValidators : Deposit(i, count)
        BY <2>3
      <3> DEFINE b      == config[i].address
                 amount == count * MaxEBType1
      <3>2. /\ stake' = [stake EXCEPT ![b] = @ + amount]
            /\ summary' = [summary EXCEPT ![b].deposited = @ + count,
                                          ![b].depositable = @ - count]
        BY <3>1 DEF Deposit
      <3> HIDE DEF b, amount
      <3>3. a = b
        BY <2>1, <3>2
      <3>4. summary'[a].deposited = summary[a].deposited + count
        <4>1. summary[a] \in [exited: Nat, deposited: Nat, depositable: Nat]
          BY <2>1
        <4>2. summary'[a] = [summary[a] EXCEPT !.deposited = @ + count,
                                               !.depositable = @ - count]
          BY <2>1, <3>2, <3>3
        <4> QED
          BY <4>1, <4>2
      <3>5. count = 0
        BY <2>1, <3>4, RouterAssumption
      <3>6. amount = 0
        BY <3>5, RouterAssumption DEF amount
      <3>7. stake'[a] = stake[a] + 0
        BY <2>1, <3>2, <3>3, <3>6
      <3> QED
        BY <2>1, <3>7
    <2>4. CASE \E i \in Ids : \E n \in TopUpKeys : \E topUpLimits \in [1..n -> TopUpLimits] :
                  \E allocations \in [1..n -> 0..depositableEther] :
                      TopUp(i, topUpLimits, allocations)
      <3>1. PICK i \in Ids, n \in TopUpKeys :
                \E topUpLimits \in [1..n -> TopUpLimits] :
                    \E allocations \in [1..n -> 0..depositableEther] :
                        TopUp(i, topUpLimits, allocations)
        BY <2>4
      <3>2. PICK topUpLimits \in [1..n -> TopUpLimits],
                 allocations \in [1..n -> 0..depositableEther] :
                    TopUp(i, topUpLimits, allocations)
        BY <3>1
      <3> DEFINE amount == SumFunction(allocations)
      <3>3. amount \in Nat
        BY <3>2, TopUpAmount, RouterAssumption
      <3>4. /\ stake' = [stake EXCEPT ![config[i].address] = @ + amount]
            /\ config[i].status = "Active" /\ config[i].wcType = WC_TYPE_02
            /\ amount <= TopUpTarget(i)
        BY <3>2 DEF TopUp
      <3> HIDE DEF amount
      <3>5. config[i].address = a /\ i = id
        BY <2>1, <3>4
      <3>6. stake'[a] = stake[a] + amount
        BY <2>1, <3>4, <3>5
      <3>7. amount # 0
        BY <2>1, <3>3, <3>6
      <3>8. StakeOf(id) + amount <= ActiveCount(id) * MaxEBType2
        BY <3>3, <3>4, <3>5, <3>7, TopUpRoom
      <3> QED
        BY <2>1, <3>6, <3>8
    <2>5. CASE ManagerStep
      BY <2>2, <2>5 DEF ManagerStep, AddStakingModule, UpdateStakingModule, UpdateModuleShares,
         UpdateAllStakingModulesFees, SetStakingModuleStatus, SetMaxTopUpPerBlock,
         SetWithdrawalCredentials, UnsafeSetExitedValidatorsCount, moduleVars
    <2>6. CASE ReportStep
      BY <2>2, <2>6 DEF ReportStep, UpdateExitedValidatorsCountByStakingModule,
         ReportExitedByNodeOperator, ReportValidatorBalancesByStakingModule, moduleVars
    <2>7. CASE OutsideStep
      BY <2>2, <2>7 DEF OutsideStep, ModuleChangesKeys, ModuleChangesStake, LidoChanges,
         NextBlock, moduleVars, lidoVars
    <2> QED
      BY <2>3, <2>4, <2>5, <2>6, <2>7 DEF Next, DepositStep
  <1> QED
    BY <1>1, RouterInvariant, AmountsInvariant, PTL DEF TopUpFits, Spec
=============================================================================
