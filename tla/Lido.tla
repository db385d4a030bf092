------------------------------- MODULE Lido -------------------------------
(***************************************************************************)
(* Lido.sol: the pool contract.  It takes ether from holders and mints     *)
(* shares, keeps a buffer, hands part of the buffer to the staking router  *)
(* for deposits to the consensus layer, and applies the oracle's reports.  *)
(*                                                                         *)
(* Three mechanisms meet here:                                             *)
(*  - the deposit counters.  A report speaks of the consensus layer at the *)
(*    reference slot of the current frame, and is applied later; ether     *)
(*    deposited in between must be counted once, by Lido, until the next   *)
(*    report counts it.  depositedPostReport and depositedNextReport, with *)
(*    the frame of the last deposit, do that without a list of deposits;   *)
(*  - the buffer reserves.  Deposits may use their reserve and what open   *)
(*    withdrawal requests leave free;                                      *)
(*  - external shares, minted against ether the pool does not hold, at the *)
(*    rate of internal ether per internal share.                           *)
(*                                                                         *)
(* Around the contract stand, as far as its behaviour depends on them: the *)
(* oracle's frames, the withdrawal queue's open requests and bunker flag,  *)
(* and the burner.  A report is a sequence of calls of Accounting in one   *)
(* transaction; here any of them may happen at any time, which includes    *)
(* the orders Accounting makes.                                            *)
(***************************************************************************)
EXTENDS StakeLimit, StETH, Sequences, Functions

CONSTANTS
    Users,              \* holders
    Recipients,         \* addresses that transfers and approvals name
    Stone,              \* INITIAL_TOKEN_HOLDER
    Queue, Burner, VaultHub,
    TOTAL_BASIS_POINTS,
    InitialBalance,     \* ether the contract holds when initialized
    InitialTarget,      \* the deposits reserve target it is initialized with
    Transients,         \* deposits in flight when an upgrade migrates storage
    \* the inputs explored
    EtherAmounts, ShareAmounts, DepositAmounts, RequestAmounts,
    TransferAmounts, AllowanceAmounts, ReserveTargets, Ratios,
    StakingLimits, LimitIncreases, ClDeltas, FeeShares, VaultAmounts,
    Bunkers,            \* values the queue's bunker flag takes
    \* bounds of the model
    MaxEther,           \* internal ether
    MaxFrames,          \* reference slots
    MaxRequests         \* requests open at a time

ASSUME LidoAssumption ==
    /\ {Stone, Queue, Burner, VaultHub} \subseteq Accounts
    /\ Users \subseteq Accounts
    /\ Recipients \subseteq Accounts
    /\ TOTAL_BASIS_POINTS \in Nat \ {0}
    /\ InitialBalance \in 1..Uint128Max
    /\ InitialTarget \in Nat
    /\ Transients \subseteq Nat
    /\ EtherAmounts \cup ShareAmounts \cup DepositAmounts \cup RequestAmounts
         \cup TransferAmounts \cup AllowanceAmounts \cup ReserveTargets
         \cup Ratios \cup StakingLimits \cup LimitIncreases \cup FeeShares
         \cup VaultAmounts \subseteq Nat
    /\ AllowanceAmounts \subseteq 0..UintMax
    /\ ClDeltas \subseteq Int
    /\ Bunkers \subseteq BOOLEAN
    /\ MaxEther \in Nat /\ MaxFrames \in Nat \ {0} /\ MaxRequests \in Nat

ASSUME AddressAssumption ==
    /\ ZeroAddress \notin {Stone, Queue, Burner, VaultHub}
    /\ StETHAddress \notin {Stone, Queue, Burner, VaultHub}

\* The two contracts that burn shares burn their own, and are not holders.
ASSUME HolderAssumption == Users \cap {Burner, VaultHub} = {}

VARIABLES
    bufferedEther,
    depositedPostReport,
    depositedNextReport,
    lastDepositNonce,
    clBalance,              \* clValidatorsBalance + clPendingBalance
    depositsReserve,
    depositsReserveTarget,
    externalShares,
    maxExternalRatioBP,
    \* the contracts around
    refSlot,                \* AccountingOracle.getCurrentFrame()
    reportedSlot,           \* the frame of the last report
    bunker,                 \* WithdrawalQueue.isBunkerModeActive()
    requests,               \* the queue's cumulative sums, one per request
    lastFinalized,          \* the last finalized of them
    sharesToBurn,           \* shares of finalized requests not yet burnt
    \* ether as it really moved
    balance,                \* the ether of the contract
    deposited,              \* ether sent to the consensus layer so far
    depositedAtRefSlot,     \* the same at the current reference slot
    settled                 \* the same at the last reported reference slot

bufferVars == <<bufferedEther, balance>>
frameVars == <<depositedPostReport, depositedNextReport, lastDepositNonce,
               deposited, depositedAtRefSlot, settled>>
reserveVars == <<depositsReserve, depositsReserveTarget>>
externalVars == <<externalShares, maxExternalRatioBP>>
outsideVars == <<refSlot, reportedSlot, bunker, requests, lastFinalized,
                 sharesToBurn>>

vars == <<stakeVars, tokenVars, bufferVars, frameVars, clBalance, reserveVars,
          externalVars, outsideVars>>

-----------------------------------------------------------------------------
\* The share rate.

InternalEther == bufferedEther + clBalance + depositedPostReport

\* totalShares - externalShares, a subtraction the compiler does not check.
InternalShares == (totalShares - externalShares) % (UintMax + 1)

ShareRate == [ether |-> InternalEther, shares |-> InternalShares]

\* Altered form of CanMintExternal: the external shares there are already
\* are not counted.
CanMintExternalMore(amount) ==
    /\ maxExternalRatioBP # 0
    /\ \/ maxExternalRatioBP = TOTAL_BASIS_POINTS
       \/ amount <= (totalShares * maxExternalRatioBP)
                       \div (TOTAL_BASIS_POINTS - maxExternalRatioBP)

\* _getMaxMintableExternalShares
CanMintExternal(amount) ==
    LET limit == totalShares * maxExternalRatioBP
        used == externalShares * TOTAL_BASIS_POINTS
    IN  /\ maxExternalRatioBP # 0
        /\ \/ maxExternalRatioBP = TOTAL_BASIS_POINTS
           \/ /\ limit > used
              /\ amount <= (limit - used)
                              \div (TOTAL_BASIS_POINTS - maxExternalRatioBP)

-----------------------------------------------------------------------------
\* The buffer and its reserves (_getBufferedEtherAllocation).

\* WithdrawalQueue.unfinalizedStETH()
unfinalizedStETH == requests[Len(requests)].stETH - requests[lastFinalized].stETH

Lesser(a, b) == IF a < b THEN a ELSE b

\* Altered form of EffectiveDepositsReserve: not capped by the buffer.
StoredDepositsReserve == depositsReserve

EffectiveDepositsReserve == Lesser(bufferedEther, depositsReserve)

WithdrawalsReserve ==
    Lesser(bufferedEther - EffectiveDepositsReserve, unfinalizedStETH)

DepositableEther == bufferedEther - WithdrawalsReserve

canDeposit == ~bunker /\ active

-----------------------------------------------------------------------------
\* The deposit counters.

\* Altered form of DepositedNextReportAdjusted: the frame is not looked at.
DepositedNextReportRaw == depositedNextReport

\* _getDepositedNextReportAdjusted: deposits of an earlier frame are already
\* part of the report to come.
DepositedNextReportAdjusted ==
    IF refSlot # lastDepositNonce THEN 0 ELSE depositedNextReport

\* getBalanceStats
DepositedForCurrentReport == depositedPostReport - DepositedNextReportAdjusted

SpendReserve(amount) ==
    depositsReserve' =
        IF depositsReserve > amount THEN depositsReserve - amount ELSE 0

\* _spendDepositableEther
SpendDepositableEther(amount) ==
    /\ amount <= DepositableEther
    /\ bufferedEther' = bufferedEther - amount
    /\ depositedPostReport' = depositedPostReport + amount
    /\ depositedNextReport' = DepositedNextReportAdjusted + amount
    /\ lastDepositNonce' = refSlot
    /\ SpendReserve(amount)

-----------------------------------------------------------------------------
\* Holders.

\* submit and the payable fallback
Submit(u, value) ==
    /\ value # 0
    /\ InternalEther + value <= MaxEther
    /\ DecreaseStakingLimit(value)
    /\ CanBuyShares(value, ShareRate)
    /\ CreateShares(u, getSharesByPooledEth(value, ShareRate))
    /\ bufferedEther' = bufferedEther + value
    /\ balance' = balance + value
    /\ UNCHANGED <<active, allowances, frameVars, clBalance, reserveVars,
                   externalVars, outsideVars>>
    /\ InternalShares' # 0     \* the price of the new shares, for the event

UnchangedButToken ==
    UNCHANGED <<stakeVars, bufferVars, frameVars, clBalance, reserveVars,
                externalVars, outsideVars>>

Transfer(u, to, amount) ==
    DoTransfer(u, to, amount, ShareRate) /\ UnchangedButToken

TransferFrom(spender, from, to, amount) ==
    DoTransferFrom(spender, from, to, amount, ShareRate) /\ UnchangedButToken

TransferShares(u, to, amount) ==
    DoTransferShares(u, to, amount, ShareRate) /\ UnchangedButToken

TransferSharesFrom(spender, from, to, amount) ==
    DoTransferSharesFrom(spender, from, to, amount, ShareRate) /\ UnchangedButToken

\* approve; permit ends in the same call
Approve(u, spender, amount) ==
    DoApprove(u, spender, amount) /\ UnchangedButToken

IncreaseAllowance(u, spender, amount) ==
    DoIncreaseAllowance(u, spender, amount) /\ UnchangedButToken

DecreaseAllowance(u, spender, amount) ==
    DoDecreaseAllowance(u, spender, amount) /\ UnchangedButToken

-----------------------------------------------------------------------------
\* The staking router.

WithdrawDepositableEther(amount) ==
    /\ canDeposit
    /\ amount # 0
    /\ SpendDepositableEther(amount)
    /\ balance' = balance - amount
    /\ deposited' = deposited + amount
    /\ UNCHANGED <<stakeVars, tokenVars, depositedAtRefSlot, settled, clBalance,
                   depositsReserveTarget, externalVars, outsideVars>>

-----------------------------------------------------------------------------
\* Accounting: the calls of a report.

\* Altered form of RetainUnreported: everything deposited counts as reported.
RetainNothing ==
    /\ depositedNextReport' = DepositedNextReportAdjusted
    /\ lastDepositNonce' = refSlot
    /\ depositedPostReport' = 0

RetainUnreported ==
    /\ depositedNextReport' = DepositedNextReportAdjusted
    /\ lastDepositNonce' = refSlot
    /\ depositedPostReport' = DepositedNextReportAdjusted

\* The reported balance is what the consensus layer held at the reference
\* slot: the balance of the last report, the deposits since, and delta for
\* rewards, penalties and withdrawals.
ProcessClStateUpdate(delta) ==
    LET reported == clBalance + DepositedForCurrentReport + delta
    IN  /\ active
        /\ reportedSlot < refSlot
        /\ reportedSlot' = refSlot
        /\ reported \in Nat
        /\ bufferedEther + reported + DepositedNextReportAdjusted <= MaxEther
        /\ RetainUnreported
        /\ clBalance' = reported
        /\ settled' = depositedAtRefSlot
        /\ UNCHANGED <<stakeVars, tokenVars, bufferVars, deposited,
                       depositedAtRefSlot, reserveVars, externalVars, refSlot,
                       bunker, requests, lastFinalized, sharesToBurn>>

InternalizeExternalBadDebt(amount) ==
    /\ amount # 0
    /\ active
    /\ externalShares >= amount
    /\ externalShares' = externalShares - amount
    /\ UNCHANGED <<stakeVars, tokenVars, bufferVars, frameVars, clBalance,
                   reserveVars, maxExternalRatioBP, outsideVars>>

\* _updateBufferedEtherAllocation
SyncReserve ==
    depositsReserve' = IF depositsReserve < depositsReserveTarget
                       THEN depositsReserveTarget
                       ELSE depositsReserve

\* The ether that finalizing up to request last takes, one batch at the
\* present share rate (WithdrawalQueue.prefinalize).
EtherToLock(last) ==
    LET batch == [stETH |-> requests[last].stETH - requests[lastFinalized].stETH,
                  shares |-> requests[last].shares - requests[lastFinalized].shares]
    IN  IF InternalShares = 0
        THEN 0
        ELSE Lesser(batch.stETH, getPooledEthByShares(batch.shares, ShareRate))

\* Altered form of PostBufferedEther: the ether locked in the queue stays.
PostBufferedEtherKept(received, locked) == bufferedEther + received

PostBufferedEther(received, locked) == bufferedEther + received - locked

\* received is what the rewards vault and the withdrawal vault pay out; the
\* queue is called only with ether to lock.
CollectRewardsAndProcessWithdrawals(received, last) ==
    LET locked == EtherToLock(last)
    IN  /\ active
        /\ bufferedEther + received >= locked
        /\ InternalEther + received <= MaxEther
        /\ bufferedEther' = PostBufferedEther(received, locked)
        /\ balance' = balance + received - locked
        /\ IF locked > 0
           THEN /\ lastFinalized' = last
                /\ sharesToBurn' = sharesToBurn
                     + requests[last].shares - requests[lastFinalized].shares
           ELSE UNCHANGED <<lastFinalized, sharesToBurn>>
        /\ SyncReserve
        /\ UNCHANGED <<stakeVars, tokenVars, frameVars, clBalance,
                       depositsReserveTarget, externalVars, refSlot,
                       reportedSlot, bunker, requests>>

\* The fee of a report.
MintShares(to, amount) ==
    /\ active
    /\ CreateShares(to, amount)
    /\ UNCHANGED <<active, allowances>>
    /\ UnchangedButToken
    /\ InternalShares' # 0

\* The burner burns what it holds; the prices of the event divide by the
\* internal shares, before and after.
BurnShares(amount) ==
    /\ active
    /\ CanPrice(amount, ShareRate)
    /\ totalShares - amount # externalShares
    /\ DestroyShares(Burner, amount)
    /\ UNCHANGED <<active, allowances>>
    /\ UnchangedButToken

-----------------------------------------------------------------------------
\* The hub of the vaults.

MintExternalShares(to, amount) ==
    /\ amount # 0
    /\ active
    /\ CanMintExternal(amount)
    /\ CanPrice(amount, ShareRate)
    /\ DecreaseStakingLimit(getPooledEthByShares(amount, ShareRate))
    /\ externalShares' = externalShares + amount
    /\ CreateShares(to, amount)
    /\ UNCHANGED <<active, allowances, bufferVars, frameVars, clBalance,
                   reserveVars, maxExternalRatioBP, outsideVars>>

DropExternal(amount) ==
    /\ externalShares >= amount
    /\ externalShares' = externalShares - amount

BurnExternalShares(amount) ==
    /\ amount # 0
    /\ active
    /\ DropExternal(amount)
    /\ DestroyShares(VaultHub, amount)
    /\ CanPrice(amount, ShareRate)
    /\ IncreaseStakingLimit(getPooledEthByShares(amount, ShareRate))
    /\ UNCHANGED <<active, allowances, bufferVars, frameVars, clBalance,
                   reserveVars, maxExternalRatioBP, outsideVars>>

RebalanceExternalEtherToInternal(value, amount) ==
    /\ value # 0
    /\ active
    /\ CanPrice(amount, ShareRate)
    /\ value = getPooledEthBySharesRoundUp(amount, ShareRate)
    /\ InternalEther + value <= MaxEther
    /\ DropExternal(amount)
    /\ bufferedEther' = bufferedEther + value
    /\ balance' = balance + value
    /\ UNCHANGED <<stakeVars, tokenVars, frameVars, clBalance, reserveVars,
                   maxExternalRatioBP, outsideVars>>

-----------------------------------------------------------------------------
\* Governance and guardians.

Stop ==
    /\ active
    /\ active' = FALSE
    /\ DoPauseStaking
    /\ UNCHANGED <<totalShares, shares, allowances, bufferVars, frameVars,
                   clBalance, reserveVars, externalVars, outsideVars>>

ResumeProtocol ==
    /\ ~active
    /\ active' = TRUE
    /\ DoResumeStaking
    /\ UNCHANGED <<totalShares, shares, allowances, bufferVars, frameVars,
                   clBalance, reserveVars, externalVars, outsideVars>>

UnchangedButStaking ==
    UNCHANGED <<tokenVars, bufferVars, frameVars, clBalance, reserveVars,
                externalVars, outsideVars>>

PauseStaking ==
    /\ ~isStakingPaused(stakeLimit)
    /\ DoPauseStaking
    /\ UnchangedButStaking

CanResumeStaking == active /\ isStakingPaused(stakeLimit)

ResumeStaking ==
    /\ CanResumeStaking
    /\ DoResumeStaking
    /\ UnchangedButStaking

SetStakingLimit(maxLimit, incPerBlock) ==
    /\ DoSetStakingLimit(maxLimit, incPerBlock)
    /\ UnchangedButStaking

RemoveStakingLimit == DoRemoveStakingLimit /\ UnchangedButStaking

SetMaxExternalRatioBP(ratio) ==
    /\ ratio <= TOTAL_BASIS_POINTS
    /\ maxExternalRatioBP' = ratio
    /\ UNCHANGED <<stakeVars, tokenVars, bufferVars, frameVars, clBalance,
                   reserveVars, externalShares, outsideVars>>

\* Altered form of LowerReserve: the reserve follows the target up as well.
FollowTarget(target) == depositsReserve' = target

LowerReserve(target) ==
    depositsReserve' = IF target < depositsReserve THEN target ELSE depositsReserve

SetDepositsReserveTarget(target) ==
    /\ depositsReserveTarget' = target
    /\ LowerReserve(target)
    /\ UNCHANGED <<stakeVars, tokenVars, bufferVars, frameVars, clBalance,
                   externalVars, outsideVars>>

-----------------------------------------------------------------------------
\* The contracts around.

NextBlock == DoNextBlock /\ UnchangedButStaking

\* The oracle's next reference slot.
NextFrame ==
    /\ refSlot < MaxFrames
    /\ refSlot' = refSlot + 1
    /\ depositedAtRefSlot' = deposited
    /\ UNCHANGED <<stakeVars, tokenVars, bufferVars, clBalance, reserveVars,
                   externalVars, reportedSlot, bunker, requests, lastFinalized,
                   sharesToBurn, depositedPostReport, depositedNextReport, lastDepositNonce,
                   deposited, settled>>

ReportBunkerMode ==
    /\ bunker' \in Bunkers
    /\ UNCHANGED <<stakeVars, tokenVars, bufferVars, frameVars, clBalance,
                   reserveVars, externalVars, refSlot, reportedSlot, requests,
                   lastFinalized, sharesToBurn>>

\* WithdrawalQueue.requestWithdrawals takes the stETH of the holder.
RequestWithdrawal(u, amount) ==
    LET last == requests[Len(requests)]
        held == getSharesByPooledEth(amount, ShareRate)
    IN  /\ Len(requests) <= MaxRequests
        /\ DoTransferFrom(Queue, u, Queue, amount, ShareRate)
        /\ requests' = Append(requests, [stETH |-> last.stETH + amount,
                                         shares |-> last.shares + held])
        /\ UNCHANGED <<stakeVars, bufferVars, frameVars, clBalance, reserveVars,
                       externalVars, refSlot, reportedSlot, bunker,
                       lastFinalized, sharesToBurn>>

\* Burner.requestBurnShares takes the shares of finalized requests.
RequestBurn ==
    /\ sharesToBurn # 0
    /\ DoTransferSharesFrom(Burner, Queue, Burner, sharesToBurn, ShareRate)
    /\ sharesToBurn' = 0
    /\ UNCHANGED <<stakeVars, bufferVars, frameVars, clBalance, reserveVars,
                   externalVars, refSlot, reportedSlot, bunker, requests,
                   lastFinalized>>

-----------------------------------------------------------------------------
\* initialize: the ether at hand backs the shares of the stone, everything is
\* stopped, and the queue may not hinder the burner.  finalizeUpgrade_v4: the
\* deposits not seen by the last report belong to the current frame.
Init ==
    /\ StakeInit
    /\ active = FALSE
    /\ totalShares = InitialBalance
    /\ shares = [a \in Accounts |-> IF a = Stone THEN InitialBalance ELSE 0]
    /\ allowances = [o \in Accounts |-> [s \in Accounts |->
           IF <<o, s>> = <<Queue, Burner>> THEN INFINITE_ALLOWANCE ELSE 0]]
    /\ externalShares = 0 /\ maxExternalRatioBP = 0
    /\ refSlot = 1
    /\ bunker = FALSE
    /\ requests = <<[stETH |-> 0, shares |-> 0]>>
    /\ lastFinalized = 1 /\ sharesToBurn = 0
    /\ clBalance = 0
    /\ depositsReserve = 0 /\ depositsReserveTarget = InitialTarget
    /\ depositedAtRefSlot = 0 /\ settled = 0
    /\ \E transient \in {0} \cup Transients :
          /\ transient < InitialBalance
          /\ bufferedEther = InitialBalance - transient
          /\ balance = bufferedEther
          /\ depositedPostReport = transient
          /\ depositedNextReport = transient
          /\ lastDepositNonce = IF transient = 0 THEN 0 ELSE refSlot
          /\ deposited = transient
          /\ reportedSlot = IF transient = 0 THEN 0 ELSE refSlot

HolderStep ==
    \E u \in Users :
       \/ \E value \in EtherAmounts : Submit(u, value)
       \/ \E amount \in RequestAmounts : RequestWithdrawal(u, amount)
       \/ \E to \in Recipients, amount \in TransferAmounts :
             \/ Transfer(u, to, amount)
             \/ TransferShares(u, to, amount)
             \/ \E from \in Users :
                   \/ TransferFrom(u, from, to, amount)
                   \/ TransferSharesFrom(u, from, to, amount)
       \/ \E spender \in Recipients, amount \in AllowanceAmounts :
             \/ Approve(u, spender, amount)
             \/ IncreaseAllowance(u, spender, amount)
             \/ DecreaseAllowance(u, spender, amount)

ReportStep ==
    \/ \E delta \in ClDeltas : ProcessClStateUpdate(delta)
    \/ \E amount \in ShareAmounts : InternalizeExternalBadDebt(amount)
    \/ \E received \in VaultAmounts, last \in lastFinalized..Len(requests) :
          CollectRewardsAndProcessWithdrawals(received, last)
    \/ \E u \in Users, amount \in FeeShares : MintShares(u, amount)
    \/ RequestBurn
    \/ \E amount \in 1..shares[Burner] : BurnShares(amount)

VaultStep ==
    \E amount \in ShareAmounts :
       \/ \E u \in Users : MintExternalShares(u, amount)
       \/ BurnExternalShares(amount)
       \/ \E value \in 1..MaxEther : RebalanceExternalEtherToInternal(value, amount)

GovernanceStep ==
    \/ Stop
    \/ ResumeProtocol
    \/ PauseStaking
    \/ ResumeStaking
    \/ \E limit \in StakingLimits, inc \in LimitIncreases : SetStakingLimit(limit, inc)
    \/ RemoveStakingLimit
    \/ \E ratio \in Ratios : SetMaxExternalRatioBP(ratio)
    \/ \E target \in ReserveTargets : SetDepositsReserveTarget(target)

Next ==
    \/ HolderStep
    \/ \E amount \in DepositAmounts : WithdrawDepositableEther(amount)
    \/ ReportStep
    \/ VaultStep
    \/ GovernanceStep
    \/ NextBlock
    \/ NextFrame
    \/ ReportBunkerMode

Spec == Init /\ [][Next]_vars

-----------------------------------------------------------------------------
\* Properties.

TypeOK ==
    /\ StakeTypeOK
    /\ TokenTypeOK
    /\ {bufferedEther, depositedPostReport, depositedNextReport, clBalance,
        depositsReserve, depositsReserveTarget, balance, deposited,
        depositedAtRefSlot, settled, sharesToBurn} \subseteq Nat
    /\ refSlot \in 1..MaxFrames
    /\ {lastDepositNonce, reportedSlot} \subseteq 0..refSlot
    /\ externalShares \in Nat
    /\ maxExternalRatioBP \in 0..TOTAL_BASIS_POINTS
    /\ bunker \in BOOLEAN
    /\ requests \in Seq([stETH: Nat, shares: Nat])
    /\ lastFinalized \in 1..Len(requests)

\* The shares of the accounts add up to the total: no mint, burn or transfer,
\* one to oneself included, counts a share twice or loses one.
SharesAddUp == totalShares = SumFunction(shares)

\* The buffer is the ether the contract holds: no path takes ether in or
\* pays it out without booking it, the ether locked in the queue included.
BufferIsBacked == bufferedEther = balance

\* Ether deposited to the consensus layer is counted by Lido until a report
\* counts it: depositedPostReport is what was deposited since the reference
\* slot of the last report, missed frames and deposits between a reference
\* slot and its report included.
DepositsCountedOnce == depositedPostReport = deposited - settled

\* getBalanceStats subtracts without a check.  The difference is what was
\* deposited between the last reported and the current reference slot, which
\* is what the next report will show.
ReportShowsDeposits ==
    /\ depositedNextReport <= depositedPostReport
    /\ DepositedForCurrentReport = depositedAtRefSlot - settled

\* A stopped protocol takes no stakes: submit asks only whether staking is
\* paused, and relies on stop and resumeStaking to keep the two together.
StopPausesStaking == ~active => isStakingPaused(stakeLimit)

CollectStep ==
    \E received \in VaultAmounts, last \in lastFinalized..Len(requests) :
       CollectRewardsAndProcessWithdrawals(received, last)

\* Between two reports, nothing takes ether that withdrawal requests count
\* on: the part of the buffer reserved for them shrinks only when a report
\* finalizes requests or renews the deposits reserve.
WithdrawalsReserveKept ==
    [][CollectStep \/ WithdrawalsReserve' >= WithdrawalsReserve]_vars

\* Every report leaves the deposits reserve at its target, also when the
\* target was lowered and raised since the last one.
ReserveRenewed ==
    [][CollectStep => depositsReserve' = depositsReserveTarget]_vars

Sound == externalShares < totalShares

\* Outside a report no step lowers the share rate: what staking, external
\* mints and burns, rebalancing and deposits round goes to the pool.
RateNeverFalls ==
    [][~ReportStep /\ Sound /\ Sound' =>
         InternalEther' * InternalShares >= InternalEther * InternalShares']_vars

\* After a mint of external shares their part of all shares is within the
\* ratio in force.
ExternalRatioKept ==
    [][Sound /\ externalShares' > externalShares =>
         externalShares' * TOTAL_BASIS_POINTS <= totalShares' * maxExternalRatioBP]_vars

OwnStep(u) ==
    \E to \in Recipients, amount \in TransferAmounts :
       Transfer(u, to, amount) \/ TransferShares(u, to, amount)

\* Shares leave a holder in a step of the holder, or at the expense of an
\* allowance that drops by at least their value.
HoldersConsent ==
    [][\A u \in Users : shares'[u] < shares[u] =>
         \/ OwnStep(u)
         \/ \E s \in Accounts :
               \/ allowances[u][s] = INFINITE_ALLOWANCE
               \/ allowances[u][s] - allowances'[u][s] >=
                    getPooledEthByShares(shares[u] - shares'[u], ShareRate)]_vars
=============================================================================
