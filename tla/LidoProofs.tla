----------------------------- MODULE LidoProofs -----------------------------
(***************************************************************************)
(* Proofs about Lido, for any accounts, amounts and bounds.                *)
(*                                                                         *)
(* The invariant has one part per group of variables that change together. *)
(* For each group a lemma names the few things a step can do to it; the    *)
(* part is then preserved by each of them.                                 *)
(***************************************************************************)
EXTENDS Lido, Sums, TLAPS

-----------------------------------------------------------------------------
(* The inductive invariant                                                 *)

StakeInv ==
    /\ StakeTypeOK
    /\ stakeLimit.prevStakeBlockNumber <= blockNumber
    /\ active \in BOOLEAN
    /\ StopPausesStaking

TokenInv ==
    /\ totalShares \in 0..Uint128Max
    /\ shares \in [Accounts -> Nat]
    /\ allowances \in [Accounts -> [Accounts -> 0..UintMax]]
    /\ externalShares \in Nat
    /\ maxExternalRatioBP \in 0..TOTAL_BASIS_POINTS

OutsideInv ==
    /\ bunker \in BOOLEAN
    /\ sharesToBurn \in Nat
    /\ requests \in Seq([stETH: Nat, shares: Nat])
    /\ lastFinalized \in 1..Len(requests)
    /\ \A i \in 1..Len(requests) : \A j \in i..Len(requests) :
          /\ requests[i].stETH <= requests[j].stETH
          /\ requests[i].shares <= requests[j].shares

\* What the counters know of the deposits: the ones after the reference slot
\* are in depositedNextReport when the last deposit was in this frame, and
\* there are none otherwise.
FrameInv ==
    /\ refSlot \in 1..MaxFrames
    /\ reportedSlot \in 0..refSlot
    /\ lastDepositNonce \in 0..refSlot
    /\ depositedPostReport \in Nat
    /\ depositedNextReport \in Nat
    /\ {deposited, depositedAtRefSlot, settled} \subseteq Nat
    /\ settled <= depositedAtRefSlot
    /\ depositedAtRefSlot <= deposited
    /\ DepositsCountedOnce
    /\ depositedNextReport <= depositedPostReport
    /\ deposited - depositedAtRefSlot = DepositedNextReportAdjusted

BufferInv ==
    /\ {bufferedEther, balance, clBalance} \subseteq Nat
    /\ BufferIsBacked

ReserveInv ==
    /\ depositsReserve \in Nat
    /\ depositsReserveTarget \in Nat
    /\ depositsReserve <= depositsReserveTarget

LidoInv ==
    StakeInv /\ TokenInv /\ OutsideInv /\ FrameInv /\ BufferInv /\ ReserveInv

-----------------------------------------------------------------------------
(* The share rate                                                          *)

\* Internal ether and shares are natural numbers, and so are the parts of the rate.
LEMMA RateType ==
    ASSUME LidoInv
    PROVE  /\ InternalEther \in Nat
           /\ InternalShares \in Nat
           /\ ShareRate \in [ether: Nat, shares: Nat]
  <1>1. InternalEther \in Nat
    BY DEF LidoInv, BufferInv, FrameInv, InternalEther
  <1>2. InternalShares \in Nat
    <2>1. totalShares - externalShares \in Int /\ UintMax + 1 \in Nat \ {0}
      BY StETHAssumption DEF LidoInv, TokenInv
    <2> QED
      BY <2>1 DEF InternalShares
  <1> QED
    BY <1>1, <1>2 DEF ShareRate

\* Shares have a natural price.
LEMMA PriceNat ==
    ASSUME NEW amount \in Nat, NEW rate \in [ether: Nat, shares: Nat],
           rate.shares # 0
    PROVE  getPooledEthByShares(amount, rate) \in Nat
  <1>1. amount * rate.ether \in Nat /\ rate.shares \in Nat \ {0}
    OBVIOUS
  <1>2. \A a \in Nat, b \in Nat \ {0} : a \div b \in Nat
    BY SMT
  <1> QED
    BY <1>1, <1>2 DEF getPooledEthByShares

\* Ether buys a natural number of shares.
LEMMA SharesNat ==
    ASSUME NEW amount \in Nat, NEW rate \in [ether: Nat, shares: Nat],
           rate.ether # 0
    PROVE  getSharesByPooledEth(amount, rate) \in Nat
  <1>1. amount * rate.shares \in Nat /\ rate.ether \in Nat \ {0}
    OBVIOUS
  <1>2. \A a \in Nat, b \in Nat \ {0} : a \div b \in Nat
    BY SMT
  <1> QED
    BY <1>1, <1>2 DEF getSharesByPooledEth

-----------------------------------------------------------------------------
(* What a step does to the staking state                                   *)

StakeStep ==
    \/ UNCHANGED <<stakeVars, active>>
    \/ active' = active /\ \E n \in Nat : DecreaseStakingLimit(n)
    \/ active' = active /\ \E n \in Nat : IncreaseStakingLimit(n)
    \/ active' = FALSE /\ DoPauseStaking
    \/ active' = active /\ DoPauseStaking
    \/ active' = TRUE /\ isStakingPaused(stakeLimit) /\ DoResumeStaking
    \/ active' = active /\ \E n \in Nat, inc \in Nat : DoSetStakingLimit(n, inc)
    \/ active' = active /\ DoRemoveStakingLimit
    \/ active' = active /\ DoNextBlock

\* A holder's step that is no stake moves shares and allowances only.
LEMMA HolderStill ==
    ASSUME HolderStep, ~\E u \in Users : \E value \in EtherAmounts : Submit(u, value)
    PROVE  UNCHANGED <<stakeVars, active, totalShares, bufferVars, clBalance,
                       frameVars, externalVars>>
  <1> DEFINE Still == UNCHANGED <<stakeVars, active, totalShares, bufferVars,
                                  clBalance, frameVars, externalVars>>
  <1>1. ASSUME NEW u, NEW amount, RequestWithdrawal(u, amount)
        PROVE  Still
    BY <1>1 DEF RequestWithdrawal, DoTransferFrom
  <1>2. ASSUME NEW u, NEW to, NEW amount,
               Transfer(u, to, amount) \/ TransferShares(u, to, amount)
        PROVE  Still
    BY <1>2 DEF Transfer, TransferShares, DoTransfer, DoTransferShares,
       UnchangedButToken
  <1>3. ASSUME NEW u, NEW from, NEW to, NEW amount,
               \/ TransferFrom(u, from, to, amount)
               \/ TransferSharesFrom(u, from, to, amount)
        PROVE  Still
    BY <1>3 DEF TransferFrom, TransferSharesFrom, DoTransferFrom,
       DoTransferSharesFrom, UnchangedButToken
  <1>4. ASSUME NEW u, NEW spender, NEW amount,
               \/ Approve(u, spender, amount)
               \/ IncreaseAllowance(u, spender, amount)
               \/ DecreaseAllowance(u, spender, amount)
        PROVE  Still
    BY <1>4 DEF Approve, IncreaseAllowance, DecreaseAllowance, DoApprove,
       DoIncreaseAllowance, DoDecreaseAllowance, UnchangedButToken
  <1> HIDE DEF Still
  <1>5. Still
    BY <1>1, <1>2, <1>3, <1>4 DEF HolderStep
  <1> QED
    BY <1>5 DEF Still

\* What a call does to the staking limit is one of the few things StakeStep lists.
LEMMA StakeSteps ==
    ASSUME LidoInv, Next
    PROVE  StakeStep
  <1>1. CASE HolderStep
    <2>1. CASE \E u \in Users : \E value \in EtherAmounts : Submit(u, value)
      BY <2>1, LidoAssumption DEF Submit, StakeStep
    <2>2. CASE ~\E u \in Users : \E value \in EtherAmounts : Submit(u, value)
      BY <1>1, <2>2, HolderStill DEF StakeStep
    <2> QED
      BY <2>1, <2>2
  <1>2. CASE \E amount \in DepositAmounts : WithdrawDepositableEther(amount)
    BY <1>2 DEF WithdrawDepositableEther, StakeStep, tokenVars
  <1>3. CASE ReportStep
    BY <1>3 DEF ReportStep, ProcessClStateUpdate, InternalizeExternalBadDebt,
       CollectRewardsAndProcessWithdrawals, MintShares, RequestBurn, BurnShares,
       DoTransferSharesFrom, UnchangedButToken, StakeStep, tokenVars
  <1>4. CASE VaultStep
    <2>1. PICK amount \in ShareAmounts :
             \/ \E u \in Users : MintExternalShares(u, amount)
             \/ BurnExternalShares(amount)
             \/ \E value \in 1..MaxEther : RebalanceExternalEtherToInternal(value, amount)
      BY <1>4 DEF VaultStep
    <2>2. CanPrice(amount, ShareRate) => getPooledEthByShares(amount, ShareRate) \in Nat
      BY PriceNat, RateType, LidoAssumption DEF CanPrice
    <2>3. CASE \E u \in Users : MintExternalShares(u, amount)
      BY <2>2, <2>3 DEF MintExternalShares, StakeStep
    <2>4. CASE BurnExternalShares(amount)
      BY <2>2, <2>4 DEF BurnExternalShares, StakeStep
    <2>5. CASE \E value \in 1..MaxEther : RebalanceExternalEtherToInternal(value, amount)
      BY <2>5 DEF RebalanceExternalEtherToInternal, StakeStep, tokenVars
    <2> QED
      BY <2>1, <2>3, <2>4, <2>5
  <1>5. CASE GovernanceStep
    <2>1. CASE Stop \/ ResumeProtocol
      BY <2>1 DEF Stop, ResumeProtocol, StakeStep, LidoInv, StakeInv, StopPausesStaking
    <2>2. CASE PauseStaking \/ ResumeStaking
      BY <2>2 DEF PauseStaking, ResumeStaking, CanResumeStaking, UnchangedButStaking,
         tokenVars, StakeStep
    <2>3. CASE \E limit \in StakingLimits, inc \in LimitIncreases : SetStakingLimit(limit, inc)
      <3>1. PICK limit \in StakingLimits, inc \in LimitIncreases : SetStakingLimit(limit, inc)
        BY <2>3
      <3>2. limit \in Nat /\ inc \in Nat
        BY LidoAssumption
      <3> QED
        BY <3>1, <3>2 DEF SetStakingLimit, UnchangedButStaking, tokenVars, StakeStep
    <2>4. CASE RemoveStakingLimit
      BY <2>4 DEF RemoveStakingLimit, UnchangedButStaking, tokenVars, StakeStep
    <2>5. CASE \/ \E ratio \in Ratios : SetMaxExternalRatioBP(ratio)
               \/ \E target \in ReserveTargets : SetDepositsReserveTarget(target)
      BY <2>5 DEF SetMaxExternalRatioBP, SetDepositsReserveTarget, StakeStep, tokenVars
    <2> QED
      BY <1>5, <2>1, <2>2, <2>3, <2>4, <2>5 DEF GovernanceStep
  <1>6. CASE NextBlock
    BY <1>6 DEF NextBlock, UnchangedButStaking, tokenVars, StakeStep
  <1>7. CASE NextFrame \/ ReportBunkerMode
    BY <1>7 DEF NextFrame, ReportBunkerMode, StakeStep, tokenVars
  <1> QED
    BY <1>1, <1>2, <1>3, <1>4, <1>5, <1>6, <1>7 DEF Next
-----------------------------------------------------------------------------
(* The staking state                                                       *)

\* The limit computed for the present block is an amount.
LEMMA CurrentLimitType ==
    ASSUME StakeTypeOK, stakeLimit.prevStakeBlockNumber <= blockNumber
    PROVE  /\ IncPerBlock(stakeLimit) \in Nat
           /\ calculateCurrentStakeLimit(stakeLimit, blockNumber) \in Nat
  <1>1. /\ stakeLimit.prevStakeLimit \in Nat
        /\ stakeLimit.maxStakeLimit \in Nat
        /\ stakeLimit.maxStakeLimitGrowthBlocks \in Nat
        /\ blockNumber - stakeLimit.prevStakeBlockNumber \in Nat
    BY StakeLimitAssumption DEF StakeTypeOK, StakeLimitData
  <1>2. IncPerBlock(stakeLimit) \in Nat
    <2>1. \A a \in Nat, b \in Nat \ {0} : a \div b \in Nat
      BY SMT
    <2> QED
      BY <1>1, <2>1 DEF IncPerBlock
  <1>3. (blockNumber - stakeLimit.prevStakeBlockNumber) * IncPerBlock(stakeLimit) \in Nat
    BY <1>1, <1>2
  <1> QED
    BY <1>1, <1>2, <1>3 DEF calculateCurrentStakeLimit

\* No step of StakeStep takes the slot out of its type, or staking on while the protocol stops.
LEMMA StakeInvKept ==
    ASSUME StakeInv, StakeStep
    PROVE  StakeInv'
  <1> USE StakeLimitAssumption
  <1>0. calculateCurrentStakeLimit(stakeLimit, blockNumber) \in Nat
    BY CurrentLimitType DEF StakeInv
  <1>1. UNCHANGED <<stakeVars, active>> => StakeInv'
    BY DEF StakeInv, StakeTypeOK, StopPausesStaking, isStakingPaused, stakeVars
  <1>10. ASSUME NEW n \in Nat, UpdatePrevStakeLimit(n),
                UNCHANGED <<blockNumber, active>>
         PROVE  StakeInv'
    <2>1. /\ stakeLimit' \in StakeLimitData
          /\ stakeLimit'.prevStakeBlockNumber = blockNumber
      <3>1. n \in 0..Uint96Max /\ blockNumber \in 0..Uint32Max
        BY <1>10 DEF UpdatePrevStakeLimit, StakeInv, StakeTypeOK
      <3>2. stakeLimit \in StakeLimitData
        BY DEF StakeInv, StakeTypeOK
      <3>3. stakeLimit' = [stakeLimit EXCEPT !.prevStakeLimit = n,
                                             !.prevStakeBlockNumber = blockNumber]
        BY <1>10 DEF UpdatePrevStakeLimit
      <3> QED
        BY <3>1, <3>2, <3>3 DEF StakeLimitData
    <2>2. active
      BY <1>10 DEF UpdatePrevStakeLimit, StakeInv, StopPausesStaking
    <2> QED
      BY <1>10, <2>1, <2>2 DEF StakeInv, StakeTypeOK, StopPausesStaking
  <1>2. CASE active' = active /\ \E n \in Nat : DecreaseStakingLimit(n)
    <2>1. PICK n \in Nat : DecreaseStakingLimit(n)
      BY <1>2
    <2>2. CASE UNCHANGED stakeLimit
      <3>1. UNCHANGED <<stakeVars, active>>
        BY <1>2, <2>1, <2>2 DEF DecreaseStakingLimit, stakeVars
      <3> QED
        BY <3>1, <1>1
    <2>3. CASE /\ n <= calculateCurrentStakeLimit(stakeLimit, blockNumber)
               /\ UpdatePrevStakeLimit(calculateCurrentStakeLimit(stakeLimit, blockNumber) - n)
      <3>1. calculateCurrentStakeLimit(stakeLimit, blockNumber) - n \in Nat
        BY <1>0, <2>3
      <3>2. UNCHANGED <<blockNumber, active>>
        BY <1>2, <2>1 DEF DecreaseStakingLimit
      <3> QED
        BY <3>1, <3>2, <2>3, <1>10
    <2> QED
      BY <2>1, <2>2, <2>3 DEF DecreaseStakingLimit
  <1>3. CASE active' = active /\ \E n \in Nat : IncreaseStakingLimit(n)
    <2>1. PICK n \in Nat : IncreaseStakingLimit(n)
      BY <1>3
    <2>2. CASE UNCHANGED stakeLimit
      <3>1. UNCHANGED <<stakeVars, active>>
        BY <1>3, <2>1, <2>2 DEF IncreaseStakingLimit, stakeVars
      <3> QED
        BY <3>1, <1>1
    <2>3. CASE UpdatePrevStakeLimit(calculateCurrentStakeLimit(stakeLimit, blockNumber) + n)
      <3>1. calculateCurrentStakeLimit(stakeLimit, blockNumber) + n \in Nat
        BY <1>0
      <3>2. UNCHANGED <<blockNumber, active>>
        BY <1>3, <2>1 DEF IncreaseStakingLimit
      <3> QED
        BY <3>1, <3>2, <2>3, <1>10
    <2> QED
      BY <2>1, <2>2, <2>3 DEF IncreaseStakingLimit
  <1>4. CASE active' \in BOOLEAN /\ DoPauseStaking
    BY <1>4 DEF DoPauseStaking, StakeInv, StakeTypeOK, StakeLimitData,
       StopPausesStaking, isStakingPaused
  <1>5. CASE active' = TRUE /\ DoResumeStaking
    BY <1>5 DEF DoResumeStaking, StakeInv, StakeTypeOK, StakeLimitData,
       StopPausesStaking, isStakingPaused
  <1>6. CASE active' = active /\ \E n \in Nat, inc \in Nat : DoSetStakingLimit(n, inc)
    <2>1. PICK n \in Nat, inc \in Nat : DoSetStakingLimit(n, inc)
      BY <1>6
    <2>2. n <= Uint96Max /\ inc <= n
      BY <2>1 DEF DoSetStakingLimit
    <2>3. (IF inc = 0 THEN 0 ELSE n \div inc) \in 0..Uint32Max
      <3>1. inc # 0 => n \div inc \in Nat
        BY SMT
      <3> QED
        BY <2>1, <3>1 DEF DoSetStakingLimit
    <2>4. stakeLimit' \in StakeLimitData
      BY <2>1, <2>2, <2>3 DEF DoSetStakingLimit, StakeInv, StakeTypeOK, StakeLimitData
    <2>5. /\ stakeLimit'.prevStakeBlockNumber <= blockNumber
          /\ isStakingPaused(stakeLimit) => isStakingPaused(stakeLimit')
      BY <2>1 DEF DoSetStakingLimit, isStakingPaused, StakeInv, StakeTypeOK
    <2>6. UNCHANGED <<blockNumber, active>>
      BY <1>6 DEF DoSetStakingLimit
    <2> QED
      BY <2>4, <2>5, <2>6 DEF StakeInv, StakeTypeOK, StopPausesStaking, isStakingPaused
  <1>7. CASE active' = active /\ DoRemoveStakingLimit
    BY <1>7 DEF DoRemoveStakingLimit, StakeInv, StakeTypeOK, StakeLimitData,
       StopPausesStaking, isStakingPaused
  <1>8. CASE active' = active /\ DoNextBlock
    <2>1. /\ blockNumber' \in 1..MaxBlocks
          /\ stakeLimit.prevStakeBlockNumber <= blockNumber'
      BY <1>8 DEF DoNextBlock, StakeInv, StakeTypeOK, StakeLimitData
    <2>2. UNCHANGED <<stakeLimit, active>>
      BY <1>8 DEF DoNextBlock
    <2> QED
      BY <2>1, <2>2 DEF StakeInv, StakeTypeOK, StopPausesStaking, isStakingPaused
  <1>9. active \in BOOLEAN
    BY DEF StakeInv
  <1> QED
    BY <1>1, <1>2, <1>3, <1>4, <1>5, <1>6, <1>7, <1>8, <1>9 DEF StakeStep

-----------------------------------------------------------------------------
(* The deposit counters                                                    *)

FrameStep ==
    \/ UNCHANGED <<frameVars, refSlot, reportedSlot>>
    \/ \E amount \in DepositAmounts : WithdrawDepositableEther(amount)
    \/ \E delta \in ClDeltas : ProcessClStateUpdate(delta)
    \/ NextFrame

\* What a call does to the counters of deposits is one of the things FrameStep lists.
LEMMA FrameSteps ==
    ASSUME Next
    PROVE  FrameStep
  <1>1. CASE HolderStep
    BY <1>1 DEF HolderStep, Submit, RequestWithdrawal, Transfer, TransferShares,
       TransferFrom, TransferSharesFrom, Approve, IncreaseAllowance,
       DecreaseAllowance, UnchangedButToken, outsideVars, FrameStep
  <1>2. CASE \E amount \in DepositAmounts : WithdrawDepositableEther(amount)
    BY <1>2 DEF FrameStep
  <1>3. CASE ReportStep
    BY <1>3 DEF ReportStep, InternalizeExternalBadDebt,
       CollectRewardsAndProcessWithdrawals, MintShares, RequestBurn, BurnShares,
       UnchangedButToken, outsideVars, FrameStep
  <1>4. CASE VaultStep
    BY <1>4 DEF VaultStep, MintExternalShares, BurnExternalShares,
       RebalanceExternalEtherToInternal, outsideVars, FrameStep
  <1>5. CASE GovernanceStep
    BY <1>5 DEF GovernanceStep, Stop, ResumeProtocol, PauseStaking, ResumeStaking,
       SetStakingLimit, RemoveStakingLimit, SetMaxExternalRatioBP,
       SetDepositsReserveTarget, UnchangedButStaking, outsideVars, FrameStep
  <1>6. CASE NextBlock \/ NextFrame \/ ReportBunkerMode
    BY <1>6 DEF NextBlock, ReportBunkerMode, UnchangedButStaking, outsideVars,
       FrameStep
  <1> QED
    BY <1>1, <1>2, <1>3, <1>4, <1>5, <1>6 DEF Next

\* No step of FrameStep separates the counters from what was deposited.
LEMMA FrameInvKept ==
    ASSUME FrameInv, FrameStep
    PROVE  FrameInv'
  <1>1. CASE UNCHANGED <<frameVars, refSlot, reportedSlot>>
    BY <1>1 DEF FrameInv, frameVars, DepositsCountedOnce,
       DepositedNextReportAdjusted
  <1>2. CASE \E amount \in DepositAmounts : WithdrawDepositableEther(amount)
    <2>1. PICK amount \in DepositAmounts : WithdrawDepositableEther(amount)
      BY <1>2
    <2>2. amount \in Nat
      BY LidoAssumption
    <2>3. /\ depositedPostReport' = depositedPostReport + amount
          /\ depositedNextReport' = DepositedNextReportAdjusted + amount
          /\ lastDepositNonce' = refSlot
          /\ deposited' = deposited + amount
          /\ UNCHANGED <<depositedAtRefSlot, settled, refSlot, reportedSlot>>
      BY <2>1 DEF WithdrawDepositableEther, SpendDepositableEther, outsideVars
    <2> QED
      BY <2>2, <2>3 DEF FrameInv, DepositsCountedOnce, DepositedNextReportAdjusted
  <1>3. CASE \E delta \in ClDeltas : ProcessClStateUpdate(delta)
    <2>1. /\ depositedPostReport' = DepositedNextReportAdjusted
          /\ depositedNextReport' = DepositedNextReportAdjusted
          /\ lastDepositNonce' = refSlot
          /\ settled' = depositedAtRefSlot
          /\ reportedSlot' = refSlot
          /\ UNCHANGED <<deposited, depositedAtRefSlot, refSlot>>
      BY <1>3 DEF ProcessClStateUpdate, RetainUnreported
    <2> QED
      BY <2>1 DEF FrameInv, DepositsCountedOnce, DepositedNextReportAdjusted
  <1>4. CASE NextFrame
    <2>1. /\ refSlot < MaxFrames
          /\ refSlot' = refSlot + 1
          /\ depositedAtRefSlot' = deposited
          /\ UNCHANGED <<depositedPostReport, depositedNextReport, lastDepositNonce,
                         deposited, settled, reportedSlot>>
      BY <1>4 DEF NextFrame
    <2> QED
      BY <2>1, LidoAssumption DEF FrameInv, DepositsCountedOnce,
         DepositedNextReportAdjusted
  <1> QED
    BY <1>1, <1>2, <1>3, <1>4 DEF FrameStep

-----------------------------------------------------------------------------
(* The queue and the burner around the pool                                *)

OutsideStep ==
    \/ UNCHANGED <<bunker, requests, lastFinalized, sharesToBurn>>
    \/ CollectStep
    \/ ReportBunkerMode
    \/ RequestBurn
    \/ \E u \in Users, amount \in RequestAmounts : RequestWithdrawal(u, amount)

\* What a call does to the requests and to what others hold is listed in OutsideStep.
LEMMA OutsideSteps ==
    ASSUME Next
    PROVE  OutsideStep
  <1>1. CASE HolderStep
    BY <1>1 DEF HolderStep, Submit, Transfer, TransferShares, TransferFrom,
       TransferSharesFrom, Approve, IncreaseAllowance, DecreaseAllowance,
       UnchangedButToken, outsideVars, OutsideStep
  <1>2. CASE \E amount \in DepositAmounts : WithdrawDepositableEther(amount)
    BY <1>2 DEF WithdrawDepositableEther, outsideVars, OutsideStep
  <1>3. CASE ReportStep
    BY <1>3 DEF ReportStep, ProcessClStateUpdate, InternalizeExternalBadDebt,
       CollectStep, MintShares, BurnShares, UnchangedButToken, outsideVars,
       OutsideStep
  <1>4. CASE VaultStep
    BY <1>4 DEF VaultStep, MintExternalShares, BurnExternalShares,
       RebalanceExternalEtherToInternal, outsideVars, OutsideStep
  <1>5. CASE GovernanceStep
    BY <1>5 DEF GovernanceStep, Stop, ResumeProtocol, PauseStaking, ResumeStaking,
       SetStakingLimit, RemoveStakingLimit, SetMaxExternalRatioBP,
       SetDepositsReserveTarget, UnchangedButStaking, outsideVars, OutsideStep
  <1>6. CASE NextBlock \/ NextFrame \/ ReportBunkerMode
    BY <1>6 DEF NextBlock, NextFrame, UnchangedButStaking, outsideVars, OutsideStep
  <1> QED
    BY <1>1, <1>2, <1>3, <1>4, <1>5, <1>6 DEF Next

\* The sums of the queue are amounts and never fall from a request to the next.
LEMMA RequestSums ==
    ASSUME OutsideInv
    PROVE  /\ Len(requests) \in Nat \ {0}
           /\ lastFinalized \in 1..Len(requests)
           /\ \A i \in 1..Len(requests) :
                 /\ requests[i].stETH \in Nat
                 /\ requests[i].shares \in Nat
           /\ \A i, j \in 1..Len(requests) : i <= j =>
                 /\ requests[i].stETH <= requests[j].stETH
                 /\ requests[i].shares <= requests[j].shares
  <1>1. Len(requests) \in Nat /\ lastFinalized \in 1..Len(requests)
    BY DEF OutsideInv
  <1>2. Len(requests) \in Nat \ {0}
    BY <1>1
  <1>3. ASSUME NEW i \in 1..Len(requests)
        PROVE  requests[i] \in [stETH: Nat, shares: Nat]
    <2> DEFINE Sums == [stETH: Nat, shares: Nat]
    <2>1. requests \in Seq(Sums)
      BY DEF OutsideInv
    <2> HIDE DEF Sums
    <2>2. requests[i] \in Sums
      BY <2>1
    <2> QED
      BY <2>2 DEF Sums
  <1>4. \A i \in 1..Len(requests) : requests[i].stETH \in Nat /\ requests[i].shares \in Nat
    BY <1>3
  <1>5. ASSUME NEW i \in 1..Len(requests), NEW j \in 1..Len(requests), i <= j
        PROVE  /\ requests[i].stETH <= requests[j].stETH
               /\ requests[i].shares <= requests[j].shares
    <2>1. j \in i..Len(requests)
      BY <1>5
    <2> QED
      BY <2>1 DEF OutsideInv
  <1> QED
    BY <1>1, <1>2, <1>4, <1>5

\* No step of OutsideStep takes these out of their types.
LEMMA OutsideInvKept ==
    ASSUME LidoInv, OutsideStep
    PROVE  OutsideInv'
  <1>0. OutsideInv
    BY DEF LidoInv
  <1>1. CASE UNCHANGED <<bunker, requests, lastFinalized, sharesToBurn>>
    BY <1>0, <1>1 DEF OutsideInv
  <1>2. CASE CollectStep
    <2>1. PICK received \in VaultAmounts, last \in lastFinalized..Len(requests) :
             CollectRewardsAndProcessWithdrawals(received, last)
      BY <1>2 DEF CollectStep
    <2>2. UNCHANGED <<bunker, requests>>
      BY <2>1 DEF CollectRewardsAndProcessWithdrawals
    <2>3. /\ lastFinalized' \in {last, lastFinalized}
          /\ sharesToBurn' \in
               {sharesToBurn, sharesToBurn + requests[last].shares
                                           - requests[lastFinalized].shares}
      BY <2>1 DEF CollectRewardsAndProcessWithdrawals
    <2>4. /\ last \in 1..Len(requests)
          /\ requests[last].shares \in Nat
          /\ requests[lastFinalized].shares \in Nat
          /\ requests[last].shares >= requests[lastFinalized].shares
      <3>1. last \in 1..Len(requests) /\ lastFinalized <= last
        BY <1>0, RequestSums
      <3> QED
        BY <1>0, <3>1, RequestSums
    <2>5. sharesToBurn' \in Nat
      <3>1. sharesToBurn \in Nat
        BY <1>0 DEF OutsideInv
      <3> QED
        BY <3>1, <2>3, <2>4
    <2> QED
      BY <1>0, <2>2, <2>3, <2>4, <2>5 DEF OutsideInv
  <1>3. CASE ReportBunkerMode
    BY <1>0, <1>3, LidoAssumption DEF ReportBunkerMode, OutsideInv
  <1>4. CASE RequestBurn
    BY <1>0, <1>4 DEF RequestBurn, OutsideInv
  <1>5. CASE \E u \in Users, amount \in RequestAmounts : RequestWithdrawal(u, amount)
    <2>1. PICK u \in Users, amount \in RequestAmounts : RequestWithdrawal(u, amount)
      BY <1>5
    <2> DEFINE new == [stETH |-> requests[Len(requests)].stETH + amount,
                       shares |-> requests[Len(requests)].shares
                                    + getSharesByPooledEth(amount, ShareRate)]
    <2>2. amount \in Nat /\ getSharesByPooledEth(amount, ShareRate) \in Nat
      BY <2>1, LidoAssumption, RateType, SharesNat
         DEF RequestWithdrawal, DoTransferFrom, CanBuyShares
    <2>3. /\ requests' = Append(requests, new)
          /\ UNCHANGED <<bunker, lastFinalized, sharesToBurn>>
      BY <2>1 DEF RequestWithdrawal
    <2>4. /\ requests[Len(requests)].stETH \in Nat
          /\ requests[Len(requests)].shares \in Nat
      BY <1>0, RequestSums
    <2>5. /\ new \in [stETH: Nat, shares: Nat]
          /\ new.stETH >= requests[Len(requests)].stETH
          /\ new.shares >= requests[Len(requests)].shares
      BY <2>2, <2>4
    <2> HIDE DEF new
    <2>6. /\ requests' \in Seq([stETH: Nat, shares: Nat])
          /\ Len(requests') = Len(requests) + 1
          /\ requests'[Len(requests) + 1] = new
          /\ \A i \in 1..Len(requests) : requests'[i] = requests[i]
      BY <1>0, <2>3, <2>5 DEF OutsideInv
    <2>7. ASSUME NEW i \in 1..Len(requests'), NEW j \in i..Len(requests')
          PROVE  /\ requests'[i].stETH <= requests'[j].stETH
                 /\ requests'[i].shares <= requests'[j].shares
      <3>0. /\ i \in 1..Len(requests) + 1
            /\ j \in 1..Len(requests) + 1
            /\ i <= j
        BY <1>0, <2>6, RequestSums
      <3>1. CASE j \in 1..Len(requests)
        <4>1. i \in 1..Len(requests)
          BY <1>0, <3>0, <3>1, RequestSums
        <4>2. requests'[i] = requests[i] /\ requests'[j] = requests[j]
          BY <2>6, <3>1, <4>1
        <4> QED
          BY <1>0, <3>0, <3>1, <4>1, <4>2, RequestSums
      <3>2. CASE j = Len(requests) + 1 /\ i = j
        BY <2>5, <2>6, <3>2
      <3>3. CASE j = Len(requests) + 1 /\ i \in 1..Len(requests)
        <4>1. /\ requests[i].stETH <= requests[Len(requests)].stETH
              /\ requests[i].shares <= requests[Len(requests)].shares
              /\ requests[i].stETH \in Nat /\ requests[i].shares \in Nat
          BY <1>0, <3>3, RequestSums
        <4>2. new.stETH \in Nat /\ new.shares \in Nat
          BY <2>5
        <4>3. requests'[i] = requests[i] /\ requests'[j] = new
          BY <2>6, <3>3
        <4> QED
          BY <2>4, <2>5, <4>1, <4>2, <4>3
      <3> QED
        BY <1>0, <3>0, <3>1, <3>2, <3>3, RequestSums
    <2>8. lastFinalized' \in 1..Len(requests')
      BY <1>0, <2>3, <2>6 DEF OutsideInv
    <2> QED
      BY <1>0, <2>3, <2>6, <2>7, <2>8 DEF OutsideInv
  <1> QED
    BY <1>1, <1>2, <1>3, <1>4, <1>5 DEF OutsideStep

-----------------------------------------------------------------------------
(* The buffer                                                              *)

\* The lesser of two numbers is a number, and at most each of them.
LEMMA LesserNat ==
    ASSUME NEW a \in Nat, NEW b \in Nat
    PROVE  Lesser(a, b) \in Nat /\ Lesser(a, b) <= a /\ Lesser(a, b) <= b
  BY DEF Lesser

\* The reserves split the buffer.
LEMMA BufferSplit ==
    ASSUME LidoInv
    PROVE  /\ unfinalizedStETH \in Nat
           /\ EffectiveDepositsReserve \in 0..bufferedEther
           /\ WithdrawalsReserve \in 0..bufferedEther
           /\ DepositableEther \in 0..bufferedEther
  <1>1. bufferedEther \in Nat /\ depositsReserve \in Nat
    BY DEF LidoInv, BufferInv, ReserveInv
  <1>2. unfinalizedStETH \in Nat
    <2>1. /\ requests[Len(requests)].stETH \in Nat
          /\ requests[lastFinalized].stETH \in Nat
          /\ requests[Len(requests)].stETH >= requests[lastFinalized].stETH
      BY RequestSums DEF LidoInv
    <2> QED
      BY <2>1 DEF unfinalizedStETH
  <1>3. EffectiveDepositsReserve \in 0..bufferedEther
    BY <1>1, LesserNat DEF EffectiveDepositsReserve
  <1>4. WithdrawalsReserve \in 0..bufferedEther
    <2> DEFINE free == bufferedEther - EffectiveDepositsReserve
    <2>1. free \in Nat /\ free <= bufferedEther
      BY <1>1, <1>3
    <2>2. WithdrawalsReserve = Lesser(free, unfinalizedStETH)
      BY DEF WithdrawalsReserve
    <2> HIDE DEF free
    <2> QED
      BY <1>1, <1>2, <2>1, <2>2, LesserNat
  <1> QED
    BY <1>1, <1>2, <1>3, <1>4 DEF DepositableEther

\* A finalization locks a natural amount of ether.
LEMMA EtherToLockNat ==
    ASSUME LidoInv, NEW last \in lastFinalized..Len(requests)
    PROVE  EtherToLock(last) \in Nat
  <1> DEFINE eth == requests[last].stETH - requests[lastFinalized].stETH
             amount == requests[last].shares - requests[lastFinalized].shares
  <1>1. eth \in Nat /\ amount \in Nat
    <2>1. last \in 1..Len(requests) /\ lastFinalized \in 1..Len(requests)
          /\ lastFinalized <= last
      BY RequestSums DEF LidoInv
    <2>2. /\ requests[last].stETH \in Nat /\ requests[lastFinalized].stETH \in Nat
          /\ requests[last].shares \in Nat /\ requests[lastFinalized].shares \in Nat
          /\ requests[lastFinalized].stETH <= requests[last].stETH
          /\ requests[lastFinalized].shares <= requests[last].shares
      BY <2>1, RequestSums DEF LidoInv
    <2> QED
      BY <2>2
  <1> HIDE DEF eth, amount
  <1>2. EtherToLock(last) =
          IF InternalShares = 0
          THEN 0
          ELSE Lesser(eth, getPooledEthByShares(amount, ShareRate))
    BY DEF EtherToLock, eth, amount
  <1>3. CASE InternalShares = 0
    BY <1>2, <1>3
  <1>4. CASE InternalShares # 0
    <2>1. getPooledEthByShares(amount, ShareRate) \in Nat
      BY <1>1, <1>4, RateType, PriceNat DEF ShareRate
    <2> QED
      BY <1>1, <1>2, <1>4, <2>1, LesserNat
  <1> QED
    BY <1>3, <1>4

BufferStep ==
    \/ UNCHANGED <<bufferVars, clBalance>>
    \/ \E u \in Accounts, value \in EtherAmounts : Submit(u, value)
    \/ \E amount \in DepositAmounts : WithdrawDepositableEther(amount)
    \/ \E delta \in ClDeltas : ProcessClStateUpdate(delta)
    \/ CollectStep
    \/ \E value \in 1..MaxEther, amount \in ShareAmounts :
          RebalanceExternalEtherToInternal(value, amount)

\* What a call does to the buffer and to the balance is one of the things BufferStep lists.
LEMMA BufferSteps ==
    ASSUME Next
    PROVE  BufferStep
  <1>1. CASE HolderStep
    BY <1>1, LidoAssumption DEF HolderStep, RequestWithdrawal, Transfer, TransferShares,
       TransferFrom, TransferSharesFrom, Approve, IncreaseAllowance,
       DecreaseAllowance, UnchangedButToken, BufferStep
  <1>2. CASE \E amount \in DepositAmounts : WithdrawDepositableEther(amount)
    BY <1>2 DEF BufferStep
  <1>3. CASE ReportStep
    BY <1>3 DEF ReportStep, InternalizeExternalBadDebt, CollectStep, MintShares,
       RequestBurn, BurnShares, UnchangedButToken, BufferStep
  <1>4. CASE VaultStep
    BY <1>4 DEF VaultStep, MintExternalShares, BurnExternalShares, BufferStep
  <1>5. CASE GovernanceStep
    BY <1>5 DEF GovernanceStep, Stop, ResumeProtocol, PauseStaking, ResumeStaking,
       SetStakingLimit, RemoveStakingLimit, SetMaxExternalRatioBP,
       SetDepositsReserveTarget, UnchangedButStaking, BufferStep
  <1>6. CASE NextBlock \/ NextFrame \/ ReportBunkerMode
    BY <1>6 DEF NextBlock, NextFrame, ReportBunkerMode, UnchangedButStaking,
       BufferStep
  <1> QED
    BY <1>1, <1>2, <1>3, <1>4, <1>5, <1>6 DEF Next

\* No step of BufferStep books ether that is not there.
LEMMA BufferInvKept ==
    ASSUME LidoInv, BufferStep
    PROVE  BufferInv'
  <1>0. bufferedEther \in Nat /\ balance = bufferedEther /\ clBalance \in Nat
    BY DEF LidoInv, BufferInv, BufferIsBacked
  <1>1. CASE UNCHANGED <<bufferVars, clBalance>>
    BY <1>0, <1>1 DEF BufferInv, BufferIsBacked, bufferVars
  <1>2. CASE \E u \in Accounts, value \in EtherAmounts : Submit(u, value)
    <2>1. PICK value \in EtherAmounts : \E u \in Accounts : Submit(u, value)
      BY <1>2
    <2>2. value \in Nat
      BY LidoAssumption
    <2> QED
      BY <1>0, <2>1, <2>2 DEF Submit, BufferInv, BufferIsBacked
  <1>3. CASE \E amount \in DepositAmounts : WithdrawDepositableEther(amount)
    <2>1. PICK amount \in DepositAmounts : WithdrawDepositableEther(amount)
      BY <1>3
    <2>2. amount \in Nat
      BY LidoAssumption
    <2>3. amount <= bufferedEther
      BY <1>0, <2>1, <2>2, BufferSplit DEF WithdrawDepositableEther, SpendDepositableEther
    <2> QED
      BY <1>0, <2>1, <2>2, <2>3 DEF WithdrawDepositableEther, SpendDepositableEther,
         BufferInv, BufferIsBacked
  <1>4. CASE \E delta \in ClDeltas : ProcessClStateUpdate(delta)
    BY <1>0, <1>4 DEF ProcessClStateUpdate, bufferVars, BufferInv, BufferIsBacked
  <1>5. CASE CollectStep
    <2>1. PICK received \in VaultAmounts, last \in lastFinalized..Len(requests) :
             CollectRewardsAndProcessWithdrawals(received, last)
      BY <1>5 DEF CollectStep
    <2>2. received \in Nat
      BY LidoAssumption
    <2>3. EtherToLock(last) \in Nat
      BY EtherToLockNat
    <2>4. /\ EtherToLock(last) <= bufferedEther + received
          /\ bufferedEther' = bufferedEther + received - EtherToLock(last)
          /\ balance' = balance + received - EtherToLock(last)
          /\ clBalance' = clBalance
      BY <2>1 DEF CollectRewardsAndProcessWithdrawals, PostBufferedEther
    <2> QED
      BY <1>0, <2>2, <2>3, <2>4 DEF BufferInv, BufferIsBacked
  <1>6. CASE \E value \in 1..MaxEther, amount \in ShareAmounts :
                RebalanceExternalEtherToInternal(value, amount)
    BY <1>0, <1>6, LidoAssumption
       DEF RebalanceExternalEtherToInternal, BufferInv, BufferIsBacked
  <1> QED
    BY <1>1, <1>2, <1>3, <1>4, <1>5, <1>6 DEF BufferStep

-----------------------------------------------------------------------------
(* The deposits reserve                                                    *)

ReserveStep ==
    \/ UNCHANGED reserveVars
    \/ \E amount \in DepositAmounts : WithdrawDepositableEther(amount)
    \/ CollectStep
    \/ \E target \in ReserveTargets : SetDepositsReserveTarget(target)

\* What a call does to the deposits reserve is one of the things ReserveStep lists.
LEMMA ReserveSteps ==
    ASSUME Next
    PROVE  ReserveStep
  <1>1. CASE HolderStep
    BY <1>1 DEF HolderStep, Submit, RequestWithdrawal, Transfer, TransferShares,
       TransferFrom, TransferSharesFrom, Approve, IncreaseAllowance,
       DecreaseAllowance, UnchangedButToken, ReserveStep
  <1>2. CASE \E amount \in DepositAmounts : WithdrawDepositableEther(amount)
    BY <1>2 DEF ReserveStep
  <1>3. CASE ReportStep
    BY <1>3 DEF ReportStep, ProcessClStateUpdate, InternalizeExternalBadDebt,
       CollectStep, MintShares, RequestBurn, BurnShares, UnchangedButToken,
       ReserveStep
  <1>4. CASE VaultStep
    BY <1>4 DEF VaultStep, MintExternalShares, BurnExternalShares,
       RebalanceExternalEtherToInternal, ReserveStep
  <1>5. CASE GovernanceStep
    BY <1>5 DEF GovernanceStep, Stop, ResumeProtocol, PauseStaking, ResumeStaking,
       SetStakingLimit, RemoveStakingLimit, SetMaxExternalRatioBP,
       UnchangedButStaking, ReserveStep
  <1>6. CASE NextBlock \/ NextFrame \/ ReportBunkerMode
    BY <1>6 DEF NextBlock, NextFrame, ReportBunkerMode, UnchangedButStaking,
       ReserveStep
  <1> QED
    BY <1>1, <1>2, <1>3, <1>4, <1>5, <1>6 DEF Next

\* Each step of ReserveStep sets the reserve to its target or lowers it.
LEMMA ReserveInvKept ==
    ASSUME ReserveInv, ReserveStep
    PROVE  ReserveInv'
  <1>1. CASE UNCHANGED reserveVars
    BY <1>1 DEF ReserveInv, reserveVars
  <1>2. CASE \E amount \in DepositAmounts : WithdrawDepositableEther(amount)
    <2>1. PICK amount \in DepositAmounts : WithdrawDepositableEther(amount)
      BY <1>2
    <2>2. amount \in Nat
      BY LidoAssumption
    <2> QED
      BY <2>1, <2>2 DEF WithdrawDepositableEther, SpendDepositableEther, SpendReserve,
         ReserveInv
  <1>3. CASE CollectStep
    BY <1>3 DEF CollectStep, CollectRewardsAndProcessWithdrawals, SyncReserve,
       ReserveInv
  <1>4. CASE \E target \in ReserveTargets : SetDepositsReserveTarget(target)
    <2>1. PICK target \in ReserveTargets : SetDepositsReserveTarget(target)
      BY <1>4
    <2>2. target \in Nat
      BY LidoAssumption
    <2> QED
      BY <2>1, <2>2 DEF SetDepositsReserveTarget, LowerReserve, ReserveInv
  <1> QED
    BY <1>1, <1>2, <1>3, <1>4 DEF ReserveStep

-----------------------------------------------------------------------------
(* Shares and allowances                                                   *)

ShareStep ==
    \/ UNCHANGED <<totalShares, shares>>
    \/ UNCHANGED totalShares /\ \E from, to \in Accounts, n \in Nat : MoveShares(from, to, n)
    \/ \E to \in Accounts, n \in Nat : CreateShares(to, n)
    \/ \E a \in Accounts, n \in Nat : DestroyShares(a, n)

AllowanceStep ==
    \/ UNCHANGED allowances
    \/ \E owner, spender \in Accounts, n \in 0..UintMax : SetAllowance(owner, spender, n)

ExternalStep ==
    /\ \/ externalShares' = externalShares
       \/ \E n \in Nat : externalShares' = externalShares + n
       \/ \E n \in Nat : DropExternal(n)
    /\ \/ maxExternalRatioBP' = maxExternalRatioBP
       \/ \E ratio \in Ratios : SetMaxExternalRatioBP(ratio)

\* A spent allowance stays in its range.
LEMMA SpendStep ==
    ASSUME LidoInv, NEW owner \in Accounts, NEW spender \in Accounts,
           NEW n \in Nat, SpendAllowance(owner, spender, n)
    PROVE  AllowanceStep
  <1>1. allowances[owner][spender] \in 0..UintMax
    BY DEF LidoInv, TokenInv
  <1>2. CASE UNCHANGED allowances
    BY <1>2 DEF AllowanceStep
  <1>3. CASE /\ n <= allowances[owner][spender]
             /\ SetAllowance(owner, spender, allowances[owner][spender] - n)
    <2>1. allowances[owner][spender] - n \in 0..UintMax
      BY <1>1, <1>3, StETHAssumption
    <2> QED
      BY <1>3, <2>1 DEF AllowanceStep
  <1> QED
    BY <1>2, <1>3 DEF SpendAllowance

\* Every form of transfer moves shares, and spends an allowance at most.
LEMMA TransferSteps ==
    ASSUME LidoInv, NEW spender \in Accounts, NEW from \in Accounts,
           NEW to \in Accounts, NEW n \in Nat,
           \/ DoTransfer(from, to, n, ShareRate)
           \/ DoTransferFrom(spender, from, to, n, ShareRate)
           \/ DoTransferShares(from, to, n, ShareRate)
           \/ DoTransferSharesFrom(spender, from, to, n, ShareRate)
    PROVE  ShareStep /\ AllowanceStep
  <1>1. CASE DoTransfer(from, to, n, ShareRate)
    <2>1. getSharesByPooledEth(n, ShareRate) \in Nat
      BY <1>1, RateType, SharesNat DEF DoTransfer, CanBuyShares
    <2> QED
      BY <1>1, <2>1 DEF DoTransfer, ShareStep, AllowanceStep
  <1>2. CASE DoTransferFrom(spender, from, to, n, ShareRate)
    <2>1. getSharesByPooledEth(n, ShareRate) \in Nat
      BY <1>2, RateType, SharesNat DEF DoTransferFrom, CanBuyShares
    <2>2. AllowanceStep
      BY <1>2, SpendStep DEF DoTransferFrom
    <2> QED
      BY <1>2, <2>1, <2>2 DEF DoTransferFrom, ShareStep
  <1>3. CASE DoTransferShares(from, to, n, ShareRate)
    BY <1>3 DEF DoTransferShares, ShareStep, AllowanceStep
  <1>4. CASE DoTransferSharesFrom(spender, from, to, n, ShareRate)
    <2>1. getPooledEthByShares(n, ShareRate) \in Nat
      BY <1>4, RateType, PriceNat DEF DoTransferSharesFrom, CanPrice
    <2>2. AllowanceStep
      BY <1>4, <2>1, SpendStep DEF DoTransferSharesFrom
    <2> QED
      BY <1>4, <2>2 DEF DoTransferSharesFrom, ShareStep
  <1> QED
    BY <1>1, <1>2, <1>3, <1>4

\* Approvals move no shares.
LEMMA AllowanceSteps ==
    ASSUME LidoInv, NEW owner \in Accounts, NEW spender \in Accounts,
           NEW n \in 0..UintMax,
           \/ DoApprove(owner, spender, n)
           \/ DoIncreaseAllowance(owner, spender, n)
           \/ DoDecreaseAllowance(owner, spender, n)
    PROVE  ShareStep /\ AllowanceStep
  <1>1. allowances[owner][spender] \in 0..UintMax /\ n \in Nat
    BY StETHAssumption DEF LidoInv, TokenInv
  <1>2. CASE DoApprove(owner, spender, n)
    BY <1>2 DEF DoApprove, ShareStep, AllowanceStep
  <1>3. CASE DoIncreaseAllowance(owner, spender, n)
    <2>1. allowances[owner][spender] + n \in 0..UintMax
      BY <1>1, <1>3 DEF DoIncreaseAllowance
    <2> QED
      BY <1>3, <2>1 DEF DoIncreaseAllowance, ShareStep, AllowanceStep
  <1>4. CASE DoDecreaseAllowance(owner, spender, n)
    <2>1. allowances[owner][spender] - n \in 0..UintMax
      BY <1>1, <1>4, StETHAssumption DEF DoDecreaseAllowance
    <2> QED
      BY <1>4, <2>1 DEF DoDecreaseAllowance, ShareStep, AllowanceStep
  <1> QED
    BY <1>2, <1>3, <1>4

\* The calls of holders mint, move and burn shares as ShareStep says.
LEMMA HolderShareSteps ==
    ASSUME LidoInv, HolderStep
    PROVE  ShareStep /\ AllowanceStep
  <1>1. PICK u \in Users :
          \/ \E value \in EtherAmounts : Submit(u, value)
          \/ \E amount \in RequestAmounts : RequestWithdrawal(u, amount)
          \/ \E to \in Recipients, amount \in TransferAmounts :
                \/ Transfer(u, to, amount)
                \/ TransferShares(u, to, amount)
                \/ \E from \in Users :
                      \/ TransferFrom(u, from, to, amount)
                      \/ TransferSharesFrom(u, from, to, amount)
          \/ \E spender \in Recipients, amount \in AllowanceAmounts :
                \/ Approve(u, spender, amount)
                \/ IncreaseAllowance(u, spender, amount)
                \/ DecreaseAllowance(u, spender, amount)
    BY DEF HolderStep
  <1>2. u \in Accounts
    BY LidoAssumption
  <1>3. CASE \E value \in EtherAmounts : Submit(u, value)
    <2>1. PICK value \in EtherAmounts : Submit(u, value)
      BY <1>3
    <2>2. getSharesByPooledEth(value, ShareRate) \in Nat
      BY <2>1, LidoAssumption, RateType, SharesNat DEF Submit, CanBuyShares
    <2> QED
      BY <1>2, <2>1, <2>2 DEF Submit, ShareStep, AllowanceStep
  <1>4. CASE \E amount \in RequestAmounts : RequestWithdrawal(u, amount)
    <2>1. PICK amount \in RequestAmounts : RequestWithdrawal(u, amount)
      BY <1>4
    <2>2. amount \in Nat /\ Queue \in Accounts
      BY LidoAssumption
    <2> QED
      BY <1>2, <2>1, <2>2, TransferSteps DEF RequestWithdrawal
  <1>5. CASE \E to \in Recipients, amount \in TransferAmounts :
                \/ Transfer(u, to, amount)
                \/ TransferShares(u, to, amount)
                \/ \E from \in Users :
                      \/ TransferFrom(u, from, to, amount)
                      \/ TransferSharesFrom(u, from, to, amount)
    <2>1. PICK to \in Recipients, amount \in TransferAmounts :
                \/ Transfer(u, to, amount)
                \/ TransferShares(u, to, amount)
                \/ \E from \in Users :
                      \/ TransferFrom(u, from, to, amount)
                      \/ TransferSharesFrom(u, from, to, amount)
      BY <1>5
    <2>2. to \in Accounts /\ amount \in Nat /\ Users \subseteq Accounts
      BY LidoAssumption
    <2>3. CASE Transfer(u, to, amount) \/ TransferShares(u, to, amount)
      BY <1>2, <2>2, <2>3, TransferSteps DEF Transfer, TransferShares
    <2>4. CASE \E from \in Users :
                  TransferFrom(u, from, to, amount) \/ TransferSharesFrom(u, from, to, amount)
      BY <1>2, <2>2, <2>4, TransferSteps DEF TransferFrom, TransferSharesFrom
    <2> QED
      BY <2>1, <2>3, <2>4
  <1>6. CASE \E spender \in Recipients, amount \in AllowanceAmounts :
                \/ Approve(u, spender, amount)
                \/ IncreaseAllowance(u, spender, amount)
                \/ DecreaseAllowance(u, spender, amount)
    <2>1. Recipients \subseteq Accounts /\ AllowanceAmounts \subseteq 0..UintMax
      BY LidoAssumption
    <2> QED
      BY <1>2, <1>6, <2>1, AllowanceSteps
         DEF Approve, IncreaseAllowance, DecreaseAllowance
  <1> QED
    BY <1>1, <1>3, <1>4, <1>5, <1>6

\* All calls mint, move and burn shares as ShareStep says.
LEMMA ShareSteps ==
    ASSUME LidoInv, Next
    PROVE  ShareStep /\ AllowanceStep
  <1>0. /\ Users \subseteq Accounts
        /\ {Queue, Burner, VaultHub} \subseteq Accounts
        /\ ShareAmounts \subseteq Nat /\ FeeShares \subseteq Nat
    BY LidoAssumption
  <1>1. CASE HolderStep
    BY <1>1, HolderShareSteps
  <1>2. CASE \E amount \in DepositAmounts : WithdrawDepositableEther(amount)
    BY <1>2 DEF WithdrawDepositableEther, tokenVars, ShareStep, AllowanceStep
  <1>3. CASE ReportStep
    <2>1. CASE \/ \E delta \in ClDeltas : ProcessClStateUpdate(delta)
               \/ \E amount \in ShareAmounts : InternalizeExternalBadDebt(amount)
               \/ \E received \in VaultAmounts, last \in lastFinalized..Len(requests) :
                     CollectRewardsAndProcessWithdrawals(received, last)
      BY <2>1 DEF ProcessClStateUpdate, InternalizeExternalBadDebt,
         CollectRewardsAndProcessWithdrawals, tokenVars, ShareStep, AllowanceStep
    <2>2. CASE \E u \in Users, amount \in FeeShares : MintShares(u, amount)
      BY <1>0, <2>2 DEF MintShares, ShareStep, AllowanceStep
    <2>3. CASE RequestBurn
      <3>1. sharesToBurn \in Nat
        BY DEF LidoInv, OutsideInv
      <3> QED
        BY <1>0, <2>3, <3>1, TransferSteps DEF RequestBurn
    <2>4. CASE \E amount \in 1..shares[Burner] : BurnShares(amount)
      <3>1. shares[Burner] \in Nat
        BY <1>0 DEF LidoInv, TokenInv
      <3> QED
        BY <1>0, <2>4, <3>1 DEF BurnShares, ShareStep, AllowanceStep
    <2> QED
      BY <1>3, <2>1, <2>2, <2>3, <2>4 DEF ReportStep
  <1>4. CASE VaultStep
    BY <1>0, <1>4 DEF VaultStep, MintExternalShares, BurnExternalShares,
       RebalanceExternalEtherToInternal, tokenVars, ShareStep, AllowanceStep
  <1>5. CASE GovernanceStep
    BY <1>5 DEF GovernanceStep, Stop, ResumeProtocol, PauseStaking, ResumeStaking,
       SetStakingLimit, RemoveStakingLimit, SetMaxExternalRatioBP,
       SetDepositsReserveTarget, UnchangedButStaking, tokenVars, ShareStep,
       AllowanceStep
  <1>6. CASE NextBlock \/ NextFrame \/ ReportBunkerMode
    BY <1>6 DEF NextBlock, NextFrame, ReportBunkerMode, UnchangedButStaking,
       tokenVars, ShareStep, AllowanceStep
  <1> QED
    BY <1>1, <1>2, <1>3, <1>4, <1>5, <1>6 DEF Next

\* What a call does to external shares and to their limit is listed in ExternalStep.
LEMMA ExternalSteps ==
    ASSUME Next
    PROVE  ExternalStep
  <1>0. ShareAmounts \subseteq Nat
    BY LidoAssumption
  <1>1. CASE HolderStep
    BY <1>1 DEF HolderStep, Submit, RequestWithdrawal, Transfer, TransferShares,
       TransferFrom, TransferSharesFrom, Approve, IncreaseAllowance,
       DecreaseAllowance, UnchangedButToken, externalVars, ExternalStep
  <1>2. CASE \E amount \in DepositAmounts : WithdrawDepositableEther(amount)
    BY <1>2 DEF WithdrawDepositableEther, externalVars, ExternalStep
  <1>3. CASE ReportStep
    BY <1>0, <1>3 DEF ReportStep, ProcessClStateUpdate, InternalizeExternalBadDebt,
       CollectRewardsAndProcessWithdrawals, MintShares, RequestBurn, BurnShares,
       UnchangedButToken, externalVars, ExternalStep, DropExternal
  <1>4. CASE VaultStep
    BY <1>0, <1>4 DEF VaultStep, MintExternalShares, BurnExternalShares,
       RebalanceExternalEtherToInternal, ExternalStep
  <1>5. CASE GovernanceStep
    BY <1>5 DEF GovernanceStep, Stop, ResumeProtocol, PauseStaking, ResumeStaking,
       SetStakingLimit, RemoveStakingLimit, SetMaxExternalRatioBP,
       SetDepositsReserveTarget, UnchangedButStaking, externalVars, ExternalStep
  <1>6. CASE NextBlock \/ NextFrame \/ ReportBunkerMode
    BY <1>6 DEF NextBlock, NextFrame, ReportBunkerMode, UnchangedButStaking,
       externalVars, ExternalStep
  <1> QED
    BY <1>1, <1>2, <1>3, <1>4, <1>5, <1>6 DEF Next

\* No such change takes the token out of its type.
LEMMA TokenInvKept ==
    ASSUME TokenInv, ShareStep, AllowanceStep, ExternalStep
    PROVE  TokenInv'
  <1>1. totalShares' \in 0..Uint128Max /\ shares' \in [Accounts -> Nat]
    <2>1. CASE UNCHANGED <<totalShares, shares>>
      BY <2>1 DEF TokenInv
    <2>2. CASE UNCHANGED totalShares
               /\ \E from, to \in Accounts, n \in Nat : MoveShares(from, to, n)
      <3>1. PICK from \in Accounts, to \in Accounts, n \in Nat : MoveShares(from, to, n)
        BY <2>2
      <3>2. shares \in [Accounts -> Nat] /\ n <= shares[from]
        BY <3>1 DEF MoveShares, TokenInv
      <3>3. shares' = [[shares EXCEPT ![from] = @ - n] EXCEPT ![to] = @ + n]
        BY <3>1 DEF MoveShares
      <3> QED
        BY <2>2, <3>2, <3>3 DEF TokenInv
    <2>3. CASE \E to \in Accounts, n \in Nat : CreateShares(to, n)
      BY <2>3, StETHAssumption DEF CreateShares, TokenInv
    <2>4. CASE \E a \in Accounts, n \in Nat : DestroyShares(a, n)
      BY <2>4, StETHAssumption DEF DestroyShares, TokenInv
    <2> QED
      BY <2>1, <2>2, <2>3, <2>4 DEF ShareStep
  <1>2. allowances' \in [Accounts -> [Accounts -> 0..UintMax]]
    BY DEF AllowanceStep, SetAllowance, TokenInv
  <1>3. externalShares' \in Nat
    BY DEF ExternalStep, DropExternal, TokenInv
  <1>4. maxExternalRatioBP' \in 0..TOTAL_BASIS_POINTS
    BY LidoAssumption DEF ExternalStep, SetMaxExternalRatioBP, TokenInv
  <1> QED
    BY <1>1, <1>2, <1>3, <1>4 DEF TokenInv

-----------------------------------------------------------------------------
(* The invariant                                                           *)

\* The invariant holds at the start, of a new deployment and after the upgrade.
LEMMA InitInv == Init => LidoInv
  <1> SUFFICES ASSUME Init PROVE LidoInv
    OBVIOUS
  <1> USE StakeLimitAssumption, StETHAssumption, LidoAssumption
  <1>1. StakeInv
    <2>1. /\ stakeLimit = [prevStakeBlockNumber |-> 0, prevStakeLimit |-> 0,
                           maxStakeLimitGrowthBlocks |-> 0, maxStakeLimit |-> 0]
          /\ blockNumber = 1 /\ active = FALSE
      BY DEF Init, StakeInit
    <2>2. stakeLimit \in StakeLimitData
      BY <2>1 DEF StakeLimitData
    <2>3. StakeTypeOK
      BY <2>1, <2>2 DEF StakeTypeOK
    <2>4. active \in BOOLEAN /\ isStakingPaused(stakeLimit)
      BY <2>1 DEF isStakingPaused
    <2> QED
      BY <2>1, <2>3, <2>4 DEF StakeInv, StopPausesStaking
  <1>2. TokenInv
    <2>1. totalShares \in 0..Uint128Max /\ shares \in [Accounts -> Nat]
      BY DEF Init
    <2>2. allowances \in [Accounts -> [Accounts -> 0..UintMax]]
      BY DEF Init, INFINITE_ALLOWANCE
    <2> QED
      BY <2>1, <2>2 DEF Init, TokenInv
  <1>3. OutsideInv
    <2> DEFINE zero == [stETH |-> 0, shares |-> 0]
    <2>1. requests = <<zero>> /\ lastFinalized = 1
      BY DEF Init
    <2>2. zero \in [stETH: Nat, shares: Nat]
      OBVIOUS
    <2>3. requests \in Seq([stETH: Nat, shares: Nat])
      BY <2>1, <2>2
    <2>4. Len(requests) = 1 /\ requests[1] = zero
      BY <2>1
    <2>5. \A i \in 1..Len(requests) : \A j \in i..Len(requests) : i = 1 /\ j = 1
      BY <2>4
    <2>6. \A i \in 1..Len(requests) : \A j \in i..Len(requests) :
             /\ requests[i].stETH <= requests[j].stETH
             /\ requests[i].shares <= requests[j].shares
      BY <2>4, <2>5
    <2>7. bunker \in BOOLEAN /\ sharesToBurn \in Nat
      BY DEF Init
    <2> QED
      BY <2>1, <2>3, <2>4, <2>6, <2>7 DEF OutsideInv
  <1>4. FrameInv /\ BufferInv
    <2>1. PICK transient \in {0} \cup Transients :
             /\ transient < InitialBalance
             /\ bufferedEther = InitialBalance - transient
             /\ balance = bufferedEther
             /\ depositedPostReport = transient
             /\ depositedNextReport = transient
             /\ lastDepositNonce = IF transient = 0 THEN 0 ELSE refSlot
             /\ deposited = transient
             /\ reportedSlot = IF transient = 0 THEN 0 ELSE refSlot
      BY DEF Init
    <2>2. transient \in Nat
      OBVIOUS
    <2>3. /\ refSlot = 1 /\ depositedAtRefSlot = 0 /\ settled = 0 /\ clBalance = 0
      BY DEF Init
    <2>4. FrameInv
      BY <2>1, <2>2, <2>3 DEF FrameInv, DepositsCountedOnce, DepositedNextReportAdjusted
    <2>5. BufferInv
      BY <2>1, <2>2, <2>3 DEF BufferInv, BufferIsBacked
    <2> QED
      BY <2>4, <2>5
  <1>5. ReserveInv
    BY DEF Init, ReserveInv
  <1> QED
    BY <1>1, <1>2, <1>3, <1>4, <1>5 DEF LidoInv

\* Every step keeps the invariant.
LEMMA NextInv == LidoInv /\ [Next]_vars => LidoInv'
  <1> SUFFICES ASSUME LidoInv, [Next]_vars PROVE LidoInv'
    OBVIOUS
  <1>1. CASE Next
    <2>1. StakeInv'
      BY <1>1, StakeSteps, StakeInvKept DEF LidoInv
    <2>2. TokenInv'
      BY <1>1, ShareSteps, ExternalSteps, TokenInvKept DEF LidoInv
    <2>3. OutsideInv'
      BY <1>1, OutsideSteps, OutsideInvKept
    <2>4. FrameInv'
      BY <1>1, FrameSteps, FrameInvKept DEF LidoInv
    <2>5. BufferInv'
      BY <1>1, BufferSteps, BufferInvKept
    <2>6. ReserveInv'
      BY <1>1, ReserveSteps, ReserveInvKept DEF LidoInv
    <2> QED
      BY <2>1, <2>2, <2>3, <2>4, <2>5, <2>6 DEF LidoInv
  <1>2. CASE UNCHANGED vars
    <2>1. UNCHANGED <<stakeLimit, blockNumber, active, totalShares,
             shares, allowances, bufferedEther, balance, depositedPostReport,
             depositedNextReport, lastDepositNonce, deposited, depositedAtRefSlot,
             settled, clBalance, depositsReserve, depositsReserveTarget,
             externalShares, maxExternalRatioBP, refSlot, reportedSlot, bunker,
             requests, lastFinalized, sharesToBurn>>
      BY <1>2 DEF vars, stakeVars, tokenVars, bufferVars, frameVars, reserveVars,
         externalVars, outsideVars
    <2>2. StakeInv' /\ TokenInv' /\ OutsideInv'
      BY <2>1 DEF LidoInv, StakeInv, StakeTypeOK, StopPausesStaking, isStakingPaused,
         TokenInv, OutsideInv
    <2>3. FrameInv' /\ BufferInv' /\ ReserveInv'
      BY <2>1 DEF LidoInv, FrameInv, DepositsCountedOnce,
         DepositedNextReportAdjusted, BufferInv, BufferIsBacked, ReserveInv
    <2> QED
      BY <2>2, <2>3 DEF LidoInv
  <1> QED
    BY <1>1, <1>2

\* All parts of the invariant together, of the pool with whatever calls.
THEOREM LidoInvariant == Spec => []LidoInv
  BY InitInv, NextInv, PTL DEF Spec

-----------------------------------------------------------------------------
(* What follows from it                                                    *)

\* Every variable keeps its type; in particular the unchecked subtractions of
\* the deposit counters never wrap.
THEOREM TypeCorrect == Spec => []TypeOK
  <1>1. LidoInv => TypeOK
    BY DEF LidoInv, StakeInv, TokenInv, OutsideInv, FrameInv, BufferInv, ReserveInv,
       TypeOK, TokenTypeOK
  <1> QED
    BY <1>1, LidoInvariant, PTL

\* Ether deposited is counted by Lido from the deposit until a report counts
\* it, whatever frames are missed and whenever the report comes.
THEOREM CountedOnce == Spec => []DepositsCountedOnce
  <1>1. LidoInv => DepositsCountedOnce
    BY DEF LidoInv, FrameInv
  <1> QED
    BY <1>1, LidoInvariant, PTL

\* The deposits that Accounting is told the coming report shows are those
\* between the last reported and the current reference slot.
THEOREM ReportShows == Spec => []ReportShowsDeposits
  <1>1. ASSUME LidoInv PROVE ReportShowsDeposits
    BY <1>1 DEF LidoInv, FrameInv, DepositsCountedOnce, ReportShowsDeposits,
       DepositedForCurrentReport, DepositedNextReportAdjusted
  <1> QED
    BY <1>1, LidoInvariant, PTL

\* The buffer is what the contract holds.
THEOREM Backed == Spec => []BufferIsBacked
  <1>1. LidoInv => BufferIsBacked
    BY DEF LidoInv, BufferInv
  <1> QED
    BY <1>1, LidoInvariant, PTL

\* A stopped protocol takes no stakes.
THEOREM StopPauses == Spec => []StopPausesStaking
  <1>1. LidoInv => StopPausesStaking
    BY DEF LidoInv, StakeInv
  <1> QED
    BY <1>1, LidoInvariant, PTL

-----------------------------------------------------------------------------
(* The shares of the accounts                                              *)

\* At the start the stone holds all shares.
LEMMA InitAddUp == Init => SharesAddUp
  <1> SUFFICES ASSUME Init PROVE SharesAddUp
    OBVIOUS
  <1> DEFINE none == [a \in Accounts |-> 0]
  <1>1. IsFiniteSet(Accounts) /\ Stone \in Accounts /\ InitialBalance \in Int
    BY StETHAssumption, LidoAssumption
  <1>2. none \in [Accounts -> Int] /\ none[Stone] = 0
    BY <1>1
  <1>3. SumFunction(none) = 0
    BY <1>1, SumZero DEF SumFunction
  <1>4. shares = [none EXCEPT ![Stone] = InitialBalance]
    BY <1>1 DEF Init
  <1> HIDE DEF none
  <1>5. SumFunction([none EXCEPT ![Stone] = InitialBalance])
           = SumFunction(none) - none[Stone] + InitialBalance
    BY <1>1, <1>2, SumExcept
  <1>6. SumFunction(shares) = InitialBalance
    BY <1>1, <1>2, <1>3, <1>4, <1>5
  <1> QED
    BY <1>6 DEF Init, SharesAddUp

\* A transfer keeps the sum, and a mint or burn changes it with the total; a
\* transfer to the sender changes nothing, because the recipient is credited
\* on what the debit left.
LEMMA AddUpKept ==
    ASSUME TokenInv, ShareStep, SharesAddUp
    PROVE  SharesAddUp'
  <1>1. /\ IsFiniteSet(Accounts) /\ totalShares \in Int
        /\ shares \in [Accounts -> Int] /\ \A a \in Accounts : shares[a] \in Int
    BY StETHAssumption DEF TokenInv
  <1>2. CASE UNCHANGED <<totalShares, shares>>
    BY <1>2 DEF SharesAddUp
  <1>3. CASE UNCHANGED totalShares
             /\ \E from, to \in Accounts, n \in Nat : MoveShares(from, to, n)
    <2>1. PICK from \in Accounts, to \in Accounts, n \in Nat : MoveShares(from, to, n)
      BY <1>3
    <2> DEFINE debited == [shares EXCEPT ![from] = shares[from] - n]
    <2>2. debited \in [Accounts -> Int] /\ debited[to] \in Int
      BY <1>1
    <2>3. shares' = [debited EXCEPT ![to] = debited[to] + n]
      <3>1. shares' = [[shares EXCEPT ![from] = @ - n] EXCEPT ![to] = @ + n]
        BY <2>1 DEF MoveShares
      <3> QED
        BY <3>1
    <2>4. /\ SumFunction(shares) \in Int
          /\ SumFunction(debited) = SumFunction(shares) - shares[from] + (shares[from] - n)
      <3>1. shares[from] - n \in Int
        BY <1>1
      <3> QED
        BY <1>1, <3>1, SumExcept
    <2> HIDE DEF debited
    <2>5. SumFunction(shares') = SumFunction(debited) - debited[to] + (debited[to] + n)
      <3>1. debited[to] + n \in Int
        BY <2>2
      <3> QED
        BY <1>1, <2>2, <2>3, <3>1, SumExcept
    <2> QED
      BY <1>1, <1>3, <2>2, <2>4, <2>5 DEF SharesAddUp
  <1>4. CASE \E to \in Accounts, n \in Nat : CreateShares(to, n)
    <2>1. PICK to \in Accounts, n \in Nat : CreateShares(to, n)
      BY <1>4
    <2>2. /\ shares' = [shares EXCEPT ![to] = shares[to] + n]
          /\ totalShares' = totalShares + n
          /\ shares[to] + n \in Int
      BY <1>1, <2>1 DEF CreateShares
    <2>3. SumFunction(shares') = SumFunction(shares) - shares[to] + (shares[to] + n)
      BY <1>1, <2>2, SumExcept
    <2> QED
      BY <1>1, <2>2, <2>3 DEF SharesAddUp
  <1>5. CASE \E a \in Accounts, n \in Nat : DestroyShares(a, n)
    <2>1. PICK a \in Accounts, n \in Nat : DestroyShares(a, n)
      BY <1>5
    <2>2. /\ shares' = [shares EXCEPT ![a] = shares[a] - n]
          /\ totalShares' = totalShares - n
          /\ shares[a] - n \in Int
      BY <1>1, <2>1 DEF DestroyShares
    <2>3. SumFunction(shares') = SumFunction(shares) - shares[a] + (shares[a] - n)
      BY <1>1, <2>2, SumExcept
    <2> QED
      BY <1>1, <2>2, <2>3 DEF SharesAddUp
  <1> QED
    BY <1>2, <1>3, <1>4, <1>5 DEF ShareStep

\* The shares of all accounts add up to the total.
THEOREM AddUp == Spec => []SharesAddUp
  <1>1. ASSUME LidoInv, SharesAddUp, [Next]_vars
        PROVE  SharesAddUp'
    <2>1. CASE Next
      BY <1>1, <2>1, ShareSteps, AddUpKept DEF LidoInv
    <2>2. CASE UNCHANGED vars
      BY <1>1, <2>2 DEF vars, tokenVars, SharesAddUp
    <2> QED
      BY <1>1, <2>1, <2>2
  <1> QED
    BY <1>1, InitAddUp, LidoInvariant, PTL DEF Spec

-----------------------------------------------------------------------------
(* What no step does                                                       *)

\* Every report renews the deposits reserve.
THEOREM Renewed == Spec => ReserveRenewed
  <1>1. ASSUME LidoInv, CollectStep
        PROVE  depositsReserve' = depositsReserveTarget
    <2>1. depositsReserve' = IF depositsReserve < depositsReserveTarget
                             THEN depositsReserveTarget
                             ELSE depositsReserve
      BY <1>1 DEF CollectStep, CollectRewardsAndProcessWithdrawals, SyncReserve
    <2> QED
      BY <1>1, <2>1 DEF LidoInv, ReserveInv
  <1> QED
    BY <1>1, LidoInvariant, PTL DEF ReserveRenewed

\* The part of the buffer kept for withdrawals, as a function of the three
\* amounts it depends on.
Kept(buffer, reserve, open) == Lesser(buffer - Lesser(buffer, reserve), open)

\* The ether kept for withdrawals does not fall when the reserve is lowered, or with a
\* deposit that takes from the reserve what it takes from the buffer.
LEMMA KeptMonotone ==
    ASSUME NEW b1 \in Nat, NEW r1 \in Nat, NEW o1 \in Nat,
           NEW b2 \in Nat, NEW r2 \in Nat, NEW o2 \in Nat,
           o1 <= o2,
           \/ b1 <= b2 /\ r2 <= r1
           \/ /\ b1 - Kept(b1, r1, o1) >= b1 - b2
              /\ r2 = IF r1 > b1 - b2 THEN r1 - (b1 - b2) ELSE 0
    PROVE  Kept(b2, r2, o2) >= Kept(b1, r1, o1)
  BY DEF Kept, Lesser

\* Open requests never shrink but by a report.
LEMMA OpenRequestsGrow ==
    ASSUME LidoInv, OutsideStep, ~CollectStep
    PROVE  unfinalizedStETH' >= unfinalizedStETH
  <1>1. unfinalizedStETH \in Nat
    BY BufferSplit
  <1>2. CASE \E u \in Users, amount \in RequestAmounts : RequestWithdrawal(u, amount)
    <2>1. PICK u \in Users, amount \in RequestAmounts : RequestWithdrawal(u, amount)
      BY <1>2
    <2> DEFINE new == [stETH |-> requests[Len(requests)].stETH + amount,
                       shares |-> requests[Len(requests)].shares
                                    + getSharesByPooledEth(amount, ShareRate)]
    <2>2. /\ requests' = Append(requests, new)
          /\ lastFinalized' = lastFinalized
      BY <2>1 DEF RequestWithdrawal
    <2>3. /\ amount \in Nat
          /\ new.stETH = requests[Len(requests)].stETH + amount
      BY LidoAssumption
    <2> HIDE DEF new
    <2>4. requests \in Seq([stETH: Nat, shares: Nat])
      BY DEF LidoInv, OutsideInv
    <2>5. /\ Len(requests) \in Nat \ {0} /\ lastFinalized \in 1..Len(requests)
          /\ requests[Len(requests)].stETH \in Nat
          /\ requests[lastFinalized].stETH \in Nat
      BY RequestSums DEF LidoInv
    <2>6. /\ requests'[Len(requests')] = new
          /\ requests'[lastFinalized] = requests[lastFinalized]
      BY <2>2, <2>4, <2>5
    <2> QED
      BY <2>2, <2>3, <2>5, <2>6 DEF unfinalizedStETH
  <1>3. CASE UNCHANGED <<requests, lastFinalized>>
    BY <1>1, <1>3 DEF unfinalizedStETH
  <1> QED
    BY <1>2, <1>3 DEF OutsideStep, ReportBunkerMode, RequestBurn

\* Between two reports nothing takes ether that withdrawal requests count on.
THEOREM ReserveKept == Spec => WithdrawalsReserveKept
  <1> DEFINE U == unfinalizedStETH \in Nat
  <1>1. LidoInv => U
    BY BufferSplit
  <1>2. ASSUME LidoInv, LidoInv', U', [Next]_vars, ~CollectStep
        PROVE  WithdrawalsReserve' >= WithdrawalsReserve
    <2>1. /\ WithdrawalsReserve = Kept(bufferedEther, depositsReserve, unfinalizedStETH)
          /\ WithdrawalsReserve' = Kept(bufferedEther', depositsReserve', unfinalizedStETH')
      BY DEF WithdrawalsReserve, EffectiveDepositsReserve, Kept
    <2>2. /\ bufferedEther \in Nat /\ bufferedEther' \in Nat
          /\ depositsReserve \in Nat /\ depositsReserve' \in Nat
          /\ unfinalizedStETH \in Nat /\ unfinalizedStETH' \in Nat
      BY <1>1, <1>2 DEF LidoInv, BufferInv, ReserveInv
    <2>3. CASE UNCHANGED vars
      <3>1. UNCHANGED <<bufferedEther, depositsReserve, requests, lastFinalized>>
        BY <2>3 DEF vars, bufferVars, reserveVars, outsideVars
      <3>2. unfinalizedStETH' = unfinalizedStETH
        BY <3>1 DEF unfinalizedStETH
      <3> QED
        BY <2>1, <2>2, <3>1, <3>2, KeptMonotone
    <2>4. CASE Next
      <3>1. BufferStep /\ ReserveStep /\ unfinalizedStETH' >= unfinalizedStETH
        BY <1>2, <2>4, BufferSteps, ReserveSteps, OutsideSteps, OpenRequestsGrow
      <3>2. CASE \E amount \in DepositAmounts : WithdrawDepositableEther(amount)
        <4>1. PICK amount \in DepositAmounts : WithdrawDepositableEther(amount)
          BY <3>2
        <4>2. amount \in Nat
          BY LidoAssumption
        <4>3. /\ amount <= bufferedEther - WithdrawalsReserve
              /\ bufferedEther' = bufferedEther - amount
              /\ depositsReserve' = IF depositsReserve > amount
                                    THEN depositsReserve - amount ELSE 0
          BY <4>1 DEF WithdrawDepositableEther, SpendDepositableEther, SpendReserve,
             DepositableEther
        <4>4. amount = bufferedEther - bufferedEther'
          BY <2>2, <4>2, <4>3
        <4>5. WithdrawalsReserve \in Nat
          BY <1>2, <2>2, BufferSplit
        <4>6. bufferedEther - WithdrawalsReserve >= bufferedEther - bufferedEther'
          BY <2>2, <4>2, <4>3, <4>4, <4>5
        <4> QED
          BY <2>1, <2>2, <3>1, <4>3, <4>4, <4>6, KeptMonotone
      <3>3. CASE ~\E amount \in DepositAmounts : WithdrawDepositableEther(amount)
        <4>1. bufferedEther' >= bufferedEther
          <5>1. CASE \E u \in Accounts, value \in EtherAmounts : Submit(u, value)
            BY <2>2, <5>1, LidoAssumption DEF Submit
          <5>2. CASE \E value \in 1..MaxEther, amount \in ShareAmounts :
                        RebalanceExternalEtherToInternal(value, amount)
            BY <2>2, <5>2, LidoAssumption DEF RebalanceExternalEtherToInternal
          <5>3. CASE UNCHANGED bufferVars
            BY <2>2, <5>3 DEF bufferVars
          <5> QED
            BY <1>2, <3>1, <3>3, <5>1, <5>2, <5>3 DEF BufferStep, ProcessClStateUpdate
        <4>2. depositsReserve' <= depositsReserve
          <5>1. CASE \E target \in ReserveTargets : SetDepositsReserveTarget(target)
            BY <2>2, <5>1, LidoAssumption DEF SetDepositsReserveTarget, LowerReserve
          <5>2. CASE UNCHANGED reserveVars
            BY <2>2, <5>2 DEF reserveVars
          <5> QED
            BY <1>2, <3>1, <3>3, <5>1, <5>2 DEF ReserveStep
        <4> QED
          BY <2>1, <2>2, <3>1, <4>1, <4>2, KeptMonotone
      <3> QED
        BY <3>2, <3>3
    <2> QED
      BY <1>2, <2>3, <2>4
  <1> HIDE DEF U
  <1> QED
    BY <1>1, <1>2, LidoInvariant, PTL DEF WithdrawalsReserveKept, Spec

-----------------------------------------------------------------------------
(* External shares and the share rate                                      *)

\* A quotient that is rounded down is at most the exact one.
LEMMA DivBelow ==
    ASSUME NEW a \in Nat, NEW b \in Nat \ {0}
    PROVE  /\ a \div b \in Nat
           /\ (a \div b) * b <= a
  BY SMT

\* A quotient that is rounded up is at least the exact one.
LEMMA DivAbove ==
    ASSUME NEW a \in Nat, NEW b \in Nat \ {0}
    PROVE  /\ (a + b - 1) \div b \in Nat
           /\ ((a + b - 1) \div b) * b >= a
  BY SMT

\* A number that fits does not wrap.
LEMMA ModSmall ==
    ASSUME NEW a \in Nat, NEW b \in Nat \ {0}, a < b
    PROVE  a % b = a
  BY SMT

\* Only the hub of the vaults mints external shares.
LEMMA ExternalGrowth ==
    ASSUME LidoInv, Next, externalShares' > externalShares
    PROVE  \E u \in Users, amount \in ShareAmounts : MintExternalShares(u, amount)
  <1>0. externalShares \in Nat /\ ShareAmounts \subseteq Nat
    BY LidoAssumption DEF LidoInv, TokenInv
  <1>1. CASE HolderStep
    <2>1. externalShares' = externalShares
      BY <1>1 DEF HolderStep, Submit, RequestWithdrawal, Transfer,
         TransferShares, TransferFrom, TransferSharesFrom, Approve,
         IncreaseAllowance, DecreaseAllowance, UnchangedButToken, externalVars
    <2> QED
      BY <1>0, <2>1
  <1>2. CASE \E amount \in DepositAmounts : WithdrawDepositableEther(amount)
    BY <1>0, <1>2 DEF WithdrawDepositableEther, externalVars
  <1>3. CASE ReportStep
    BY <1>0, <1>3 DEF ReportStep, ProcessClStateUpdate, InternalizeExternalBadDebt,
       CollectRewardsAndProcessWithdrawals, MintShares, RequestBurn, BurnShares,
       UnchangedButToken, externalVars
  <1>4. CASE VaultStep
    <2>1. PICK amount \in ShareAmounts :
             \/ \E u \in Users : MintExternalShares(u, amount)
             \/ BurnExternalShares(amount)
             \/ \E value \in 1..MaxEther : RebalanceExternalEtherToInternal(value, amount)
      BY <1>4 DEF VaultStep
    <2>2. ~DropExternal(amount)
      BY <1>0 DEF DropExternal
    <2> QED
      BY <2>1, <2>2 DEF BurnExternalShares, RebalanceExternalEtherToInternal
  <1>5. CASE GovernanceStep
    BY <1>0, <1>5 DEF GovernanceStep, Stop, ResumeProtocol, PauseStaking,
       ResumeStaking, SetStakingLimit, RemoveStakingLimit, SetMaxExternalRatioBP,
       SetDepositsReserveTarget, UnchangedButStaking, externalVars
  <1>6. CASE NextBlock \/ NextFrame \/ ReportBunkerMode
    BY <1>0, <1>6 DEF NextBlock, NextFrame, ReportBunkerMode, UnchangedButStaking,
       externalVars
  <1> QED
    BY <1>1, <1>2, <1>3, <1>4, <1>5, <1>6 DEF Next

\* The arithmetic of the ratio: what may be minted keeps the ratio.
LEMMA RatioArithmetic ==
    ASSUME NEW total \in Nat, NEW ext \in Nat, NEW r \in Nat, NEW t \in Nat,
           NEW n \in Nat, r < t, total * r > ext * t,
           n <= (total * r - ext * t) \div (t - r)
    PROVE  (ext + n) * t <= (total + n) * r
  <1> DEFINE room == total * r - ext * t
             part == t - r
             most == room \div part
  <1>1. total * r \in Nat /\ ext * t \in Nat
    OBVIOUS
  <1>2. room \in Nat /\ part \in Nat \ {0}
    BY <1>1
  <1>3. most \in Nat /\ most * part <= room
    BY <1>2, DivBelow
  <1>4. n <= most
    OBVIOUS
  <1>5. n * part <= most * part
    <2> HIDE DEF most, part
    <2> QED
      BY <1>2, <1>3, <1>4
  <1>6. n * t - n * r <= room
    <2>1. n * part = n * t - n * r
      OBVIOUS
    <2>2. n * part \in Int /\ most * part \in Int
      BY <1>2, <1>3
    <2> HIDE DEF most, part, room
    <2> QED
      BY <1>2, <1>3, <1>5, <2>1, <2>2
  <1>7. (ext + n) * t = ext * t + n * t /\ (total + n) * r = total * r + n * r
    OBVIOUS
  <1>8. n * t \in Int /\ n * r \in Int
    OBVIOUS
  <1> QED
    BY <1>1, <1>6, <1>7, <1>8

\* Minting external shares keeps their part of all shares within the ratio.
THEOREM RatioKept == Spec => ExternalRatioKept
  <1>1. ASSUME LidoInv, [Next]_vars, Sound, externalShares' > externalShares
        PROVE  externalShares' * TOTAL_BASIS_POINTS <= totalShares' * maxExternalRatioBP
    <2>1. Next
      BY <1>1 DEF vars, externalVars, LidoInv, TokenInv
    <2>2. PICK u \in Users, amount \in ShareAmounts : MintExternalShares(u, amount)
      BY <1>1, <2>1, ExternalGrowth
    <2>3. /\ amount \in Nat
          /\ totalShares \in Nat /\ externalShares \in Nat
          /\ maxExternalRatioBP \in Nat /\ TOTAL_BASIS_POINTS \in Nat \ {0}
          /\ maxExternalRatioBP <= TOTAL_BASIS_POINTS
      BY <1>1, LidoAssumption, StETHAssumption DEF LidoInv, TokenInv
    <2>4. /\ externalShares' = externalShares + amount
          /\ totalShares' = totalShares + amount
          /\ CanMintExternal(amount)
      BY <2>2 DEF MintExternalShares, CreateShares
    <2>5. CASE maxExternalRatioBP = TOTAL_BASIS_POINTS
      <3>1. externalShares + amount <= totalShares + amount
        BY <1>1, <2>3 DEF Sound
      <3> QED
        BY <2>3, <2>4, <2>5, <3>1
    <2>6. CASE maxExternalRatioBP # TOTAL_BASIS_POINTS
      <3>1. /\ totalShares * maxExternalRatioBP > externalShares * TOTAL_BASIS_POINTS
            /\ amount <= (totalShares * maxExternalRatioBP
                            - externalShares * TOTAL_BASIS_POINTS)
                           \div (TOTAL_BASIS_POINTS - maxExternalRatioBP)
        BY <2>4, <2>6 DEF CanMintExternal
      <3>2. maxExternalRatioBP < TOTAL_BASIS_POINTS
        BY <2>3, <2>6
      <3> QED
        BY <2>3, <2>4, <3>1, <3>2, RatioArithmetic
    <2> QED
      BY <2>5, <2>6
  <1> QED
    BY <1>1, LidoInvariant, PTL DEF ExternalRatioKept, Spec

\* What a step outside reports does to the two sides of the rate.
RateStep ==
    \/ /\ InternalEther' = InternalEther
       /\ totalShares' - externalShares' = totalShares - externalShares
    \/ \E u \in Users, value \in EtherAmounts : Submit(u, value)
    \/ \E value \in 1..MaxEther, amount \in ShareAmounts :
          RebalanceExternalEtherToInternal(value, amount)

\* What a call other than a report does to the rate is one of the things RateStep lists.
LEMMA RateSteps ==
    ASSUME LidoInv, Next, ~ReportStep
    PROVE  RateStep
  <1>0. /\ ShareAmounts \subseteq Nat /\ DepositAmounts \subseteq Nat
        /\ {bufferedEther, clBalance, depositedPostReport} \subseteq Nat
        /\ totalShares \in Nat /\ externalShares \in Nat
    BY LidoAssumption, StETHAssumption DEF LidoInv, BufferInv, FrameInv, TokenInv
  <1>1. CASE HolderStep
    <2>1. CASE \E u \in Users : \E value \in EtherAmounts : Submit(u, value)
      BY <2>1 DEF RateStep
    <2>2. CASE ~\E u \in Users : \E value \in EtherAmounts : Submit(u, value)
      <3>1. /\ UNCHANGED <<bufferVars, clBalance, frameVars, externalVars>>
            /\ totalShares' = totalShares
        BY <1>1, <2>2, HolderStill
      <3> QED
        BY <3>1 DEF RateStep, InternalEther, bufferVars, frameVars, externalVars
    <2> QED
      BY <2>1, <2>2
  <1>2. CASE \E amount \in DepositAmounts : WithdrawDepositableEther(amount)
    <2>1. PICK amount \in DepositAmounts : WithdrawDepositableEther(amount)
      BY <1>2
    <2>2. /\ bufferedEther' = bufferedEther - amount
          /\ depositedPostReport' = depositedPostReport + amount
          /\ UNCHANGED <<clBalance, totalShares, externalShares>>
      BY <2>1 DEF WithdrawDepositableEther, SpendDepositableEther, tokenVars,
         externalVars
    <2> QED
      BY <1>0, <2>2 DEF RateStep, InternalEther
  <1>3. CASE VaultStep
    <2>1. PICK amount \in ShareAmounts :
             \/ \E u \in Users : MintExternalShares(u, amount)
             \/ BurnExternalShares(amount)
             \/ \E value \in 1..MaxEther : RebalanceExternalEtherToInternal(value, amount)
      BY <1>3 DEF VaultStep
    <2>2. CASE \E u \in Users : MintExternalShares(u, amount)
      <3>1. /\ UNCHANGED <<bufferedEther, clBalance, depositedPostReport>>
            /\ externalShares' = externalShares + amount
            /\ totalShares' = totalShares + amount
        BY <2>2 DEF MintExternalShares, CreateShares, bufferVars, frameVars
      <3> QED
        BY <1>0, <3>1 DEF RateStep, InternalEther
    <2>3. CASE BurnExternalShares(amount)
      <3>1. /\ UNCHANGED <<bufferedEther, clBalance, depositedPostReport>>
            /\ externalShares' = externalShares - amount
            /\ totalShares' = totalShares - amount
        BY <2>3 DEF BurnExternalShares, DropExternal, DestroyShares, bufferVars,
           frameVars
      <3> QED
        BY <1>0, <3>1 DEF RateStep, InternalEther
    <2>4. CASE \E value \in 1..MaxEther : RebalanceExternalEtherToInternal(value, amount)
      BY <2>4 DEF RateStep
    <2> QED
      BY <2>1, <2>2, <2>3, <2>4
  <1>4. CASE GovernanceStep
    <2>1. UNCHANGED <<bufferVars, clBalance, frameVars, externalShares, totalShares>>
      BY <1>4 DEF GovernanceStep, Stop, ResumeProtocol, PauseStaking, ResumeStaking,
         SetStakingLimit, RemoveStakingLimit, SetMaxExternalRatioBP,
         SetDepositsReserveTarget, UnchangedButStaking, tokenVars, externalVars
    <2> QED
      BY <2>1 DEF RateStep, InternalEther, bufferVars, frameVars
  <1>5. CASE NextBlock \/ NextFrame \/ ReportBunkerMode
    <2>1. UNCHANGED <<bufferVars, clBalance, depositedPostReport, externalShares,
                      totalShares>>
      BY <1>5 DEF NextBlock, NextFrame, ReportBunkerMode, UnchangedButStaking,
         tokenVars, externalVars, frameVars
    <2> QED
      BY <2>1 DEF RateStep, InternalEther, bufferVars
  <1> QED
    BY <1>1, <1>2, <1>3, <1>4, <1>5 DEF Next

\* A stake buys the shares of its value rounded down.
LEMMA BuyerRounds ==
    ASSUME NEW e \in Nat \ {0}, NEW s \in Nat, NEW v \in Nat
    PROVE  (e + v) * s >= e * (s + ((v * s) \div e))
  <1> DEFINE q == (v * s) \div e
  <1>1. v * s \in Nat
    OBVIOUS
  <1>2. q \in Nat /\ q * e <= v * s
    BY <1>1, DivBelow
  <1> HIDE DEF q
  <1>3. (e + v) * s = e * s + v * s /\ e * (s + q) = e * s + q * e
    BY <1>2
  <1>4. e * s \in Nat /\ q * e \in Nat
    BY <1>2
  <1>5. (e + v) * s >= e * (s + q)
    BY <1>1, <1>2, <1>3, <1>4
  <1> QED
    BY <1>5 DEF q

\* Rebalancing pays the value of the shares rounded up.
LEMMA PayerRounds ==
    ASSUME NEW e \in Nat, NEW s \in Nat \ {0}, NEW n \in Nat
    PROVE  (e + ((n * e + s - 1) \div s)) * s >= e * (s + n)
  <1> DEFINE q == (n * e + s - 1) \div s
  <1>1. n * e \in Nat
    OBVIOUS
  <1>2. q \in Nat /\ q * s >= n * e
    BY <1>1, DivAbove
  <1> HIDE DEF q
  <1>3. (e + q) * s = e * s + q * s /\ e * (s + n) = e * s + n * e
    BY <1>2
  <1>4. e * s \in Nat /\ q * s \in Nat
    BY <1>2
  <1>5. (e + q) * s >= e * (s + n)
    BY <1>1, <1>2, <1>3, <1>4
  <1> QED
    BY <1>5 DEF q

\* Outside a report no step lowers the share rate.
THEOREM RateKept == Spec => RateNeverFalls
  <1> DEFINE Safe == InternalShares = totalShares - externalShares
  <1>1. ASSUME LidoInv, Sound
        PROVE  Safe
    <2>1. /\ totalShares - externalShares \in Nat
          /\ totalShares - externalShares < UintMax + 1
          /\ UintMax + 1 \in Nat \ {0}
      BY <1>1, StETHAssumption DEF LidoInv, TokenInv, Sound
    <2> QED
      BY <2>1, ModSmall DEF InternalShares
  <1>2. ASSUME LidoInv, LidoInv', [Next]_vars, ~ReportStep, Sound, Sound', Safe, Safe'
        PROVE  InternalEther' * InternalShares >= InternalEther * InternalShares'
    <2> DEFINE e == InternalEther
               s == totalShares - externalShares
    <2>1. /\ InternalShares = s /\ e \in Nat /\ s \in Nat \ {0}
          /\ {bufferedEther, clBalance, depositedPostReport} \subseteq Nat
          /\ totalShares \in Nat /\ externalShares \in Nat
      BY <1>2, RateType, StETHAssumption
         DEF Sound, LidoInv, TokenInv, BufferInv, FrameInv
    <2>2. CASE /\ InternalEther' = InternalEther
               /\ totalShares' - externalShares' = totalShares - externalShares
      BY <1>2, <2>1, <2>2
    <2>3. CASE \E u \in Users, value \in EtherAmounts : Submit(u, value)
      <3>1. PICK u \in Users, value \in EtherAmounts : Submit(u, value)
        BY <2>3
      <3>2. value \in Nat
        BY LidoAssumption
      <3>3. /\ e # 0
            /\ totalShares' = totalShares + ((value * s) \div e)
            /\ UNCHANGED <<externalShares, clBalance, depositedPostReport>>
            /\ bufferedEther' = bufferedEther + value
        BY <2>1, <3>1 DEF Submit, CanBuyShares, CreateShares, getSharesByPooledEth,
           ShareRate, externalVars, frameVars
      <3>4. (value * s) \div e \in Nat
        <4>1. value * s \in Nat
          BY <2>1, <3>2
        <4> QED
          BY <2>1, <3>3, <4>1, DivBelow
      <3>5. /\ InternalEther' = e + value
            /\ InternalShares' = s + ((value * s) \div e)
        BY <1>2, <2>1, <3>2, <3>3, <3>4 DEF InternalEther
      <3> QED
        BY <2>1, <3>2, <3>3, <3>5, BuyerRounds
    <2>4. CASE \E value \in 1..MaxEther, amount \in ShareAmounts :
                  RebalanceExternalEtherToInternal(value, amount)
      <3>1. PICK value \in 1..MaxEther, amount \in ShareAmounts :
                  RebalanceExternalEtherToInternal(value, amount)
        BY <2>4
      <3>2. amount \in Nat /\ value \in Nat
        BY LidoAssumption
      <3>3. /\ value = (amount * e + s - 1) \div s
            /\ externalShares' = externalShares - amount
            /\ UNCHANGED <<totalShares, clBalance, depositedPostReport>>
            /\ bufferedEther' = bufferedEther + value
        BY <2>1, <3>1 DEF RebalanceExternalEtherToInternal,
           getPooledEthBySharesRoundUp, DropExternal, ShareRate, tokenVars, frameVars
      <3>4. /\ InternalEther' = e + value
            /\ InternalShares' = s + amount
        BY <1>2, <2>1, <3>2, <3>3 DEF InternalEther
      <3> QED
        BY <2>1, <3>2, <3>3, <3>4, PayerRounds
    <2>5. CASE UNCHANGED vars
      <3>1. UNCHANGED <<bufferedEther, clBalance, depositedPostReport, totalShares,
                        externalShares>>
        BY <2>5 DEF vars, bufferVars, frameVars, tokenVars, externalVars
      <3> QED
        BY <2>2, <3>1 DEF InternalEther
    <2>6. CASE Next
      BY <1>2, <2>2, <2>3, <2>4, <2>6, RateSteps DEF RateStep
    <2> QED
      BY <1>2, <2>5, <2>6
  <1> HIDE DEF Safe
  <1>3. LidoInv => (Sound => Safe)
    BY <1>1
  <1>4. /\ LidoInv /\ LidoInv' /\ [Next]_vars
        /\ (Sound => Safe) /\ (Sound => Safe)'
        => [~ReportStep /\ Sound /\ Sound' =>
              InternalEther' * InternalShares >= InternalEther * InternalShares']_vars
    BY <1>2
  <1> QED
    BY <1>3, <1>4, LidoInvariant, PTL DEF RateNeverFalls, Spec

-----------------------------------------------------------------------------
(* Who moves a holder's shares                                             *)

\* Only the account that pays loses shares in a transfer.
LEMMA MoverPays ==
    ASSUME TokenInv, NEW from \in Accounts, NEW to \in Accounts, NEW n \in Nat,
           MoveShares(from, to, n), NEW u \in Accounts, shares'[u] < shares[u]
    PROVE  u = from /\ n # 0 /\ shares[u] - shares'[u] = n
  <1>1. shares \in [Accounts -> Nat] /\ n <= shares[from]
    BY DEF TokenInv, MoveShares
  <1>2. shares' = [[shares EXCEPT ![from] = @ - n] EXCEPT ![to] = @ + n]
    BY DEF MoveShares
  <1>3. CASE from = to
    BY <1>1, <1>2, <1>3
  <1>4. CASE from # to
    BY <1>1, <1>2, <1>4
  <1> QED
    BY <1>3, <1>4

\* The shares bought for an amount are worth no more than the amount.
LEMMA WorthBelow ==
    ASSUME NEW a \in Nat, NEW e \in Nat \ {0}, NEW s \in Nat \ {0}
    PROVE  (((a * s) \div e) * e) \div s <= a
  <1> DEFINE q == (a * s) \div e
  <1>1. a * s \in Nat
    OBVIOUS
  <1>2. q \in Nat /\ q * e <= a * s
    BY <1>1, DivBelow
  <1> HIDE DEF q
  <1>3. q * e \in Nat
    BY <1>2
  <1> DEFINE r == (q * e) \div s
  <1>4. r \in Nat /\ r * s <= q * e
    BY <1>3, DivBelow
  <1> HIDE DEF r
  <1>5. r * s <= a * s
    <2>1. r * s \in Nat
      BY <1>4
    <2> QED
      BY <1>1, <1>2, <1>3, <1>4, <2>1
  <1>6. r <= a
    BY <1>4, <1>5, SMT
  <1> QED
    BY <1>6 DEF q, r

\* Whose allowance pays for what a step takes from u.
AllowancePays(u) ==
    \E s \in Accounts :
       \/ allowances[u][s] = INFINITE_ALLOWANCE
       \/ allowances[u][s] - allowances'[u][s] >=
            getPooledEthByShares(shares[u] - shares'[u], ShareRate)

\* A spent allowance is infinite, or drops by the amount.
LEMMA Spent ==
    ASSUME TokenInv, NEW owner \in Accounts, NEW spender \in Accounts, NEW n \in Nat,
           SpendAllowance(owner, spender, n)
    PROVE  \/ allowances[owner][spender] = INFINITE_ALLOWANCE
           \/ allowances[owner][spender] - allowances'[owner][spender] = n
  BY StETHAssumption DEF TokenInv, SpendAllowance, SetAllowance

\* What leaves an account in a transfer by a spender, its allowance pays.
LEMMA SpenderPays ==
    ASSUME LidoInv, NEW spender \in Accounts, NEW from \in Accounts,
           NEW to \in Accounts, NEW n \in Nat,
           \/ DoTransferFrom(spender, from, to, n, ShareRate)
           \/ DoTransferSharesFrom(spender, from, to, n, ShareRate),
           NEW u \in Accounts, shares'[u] < shares[u]
    PROVE  AllowancePays(u)
  <1>1. /\ InternalEther \in Nat /\ InternalShares \in Nat
        /\ ShareRate = [ether |-> InternalEther, shares |-> InternalShares]
    BY RateType DEF ShareRate
  <1>2. CASE DoTransferFrom(spender, from, to, n, ShareRate)
    <2> DEFINE moved == getSharesByPooledEth(n, ShareRate)
    <2>1. InternalEther \in Nat \ {0} /\ moved \in Nat
      BY <1>1, <1>2, RateType, SharesNat DEF DoTransferFrom, CanBuyShares
    <2>2. u = from /\ moved # 0 /\ shares[u] - shares'[u] = moved
      <3>1. MoveShares(from, to, moved)
        BY <1>2 DEF DoTransferFrom
      <3> HIDE DEF moved
      <3> QED
        BY <2>1, <3>1, MoverPays DEF LidoInv
    <2>3. InternalShares # 0
      <3> SUFFICES ASSUME InternalShares = 0 PROVE FALSE
        OBVIOUS
      <3>1. moved = 0 \div InternalEther
        BY <1>1 DEF getSharesByPooledEth
      <3>2. 0 \div InternalEther = 0
        BY <2>1, SMT
      <3> QED
        BY <2>2, <3>1, <3>2
    <2>4. getPooledEthByShares(moved, ShareRate) <= n
      BY <1>1, <2>1, <2>3, WorthBelow DEF getPooledEthByShares, getSharesByPooledEth
    <2>5. \/ allowances[u][spender] = INFINITE_ALLOWANCE
          \/ allowances[u][spender] - allowances'[u][spender] = n
      BY <1>2, <2>2, Spent DEF DoTransferFrom, LidoInv
    <2>6. getPooledEthByShares(moved, ShareRate) \in Nat
      BY <1>1, <2>1, <2>3, RateType, PriceNat
    <2> HIDE DEF moved
    <2> QED
      BY <2>2, <2>4, <2>5, <2>6 DEF AllowancePays
  <1>3. CASE DoTransferSharesFrom(spender, from, to, n, ShareRate)
    <2>1. u = from /\ shares[u] - shares'[u] = n
      BY <1>3, MoverPays DEF DoTransferSharesFrom, LidoInv
    <2>2. getPooledEthByShares(n, ShareRate) \in Nat
      BY <1>3, RateType, PriceNat DEF DoTransferSharesFrom, CanPrice
    <2>3. \/ allowances[u][spender] = INFINITE_ALLOWANCE
          \/ allowances[u][spender] - allowances'[u][spender]
               = getPooledEthByShares(n, ShareRate)
      BY <1>3, <2>1, <2>2, Spent DEF DoTransferSharesFrom, LidoInv
    <2> QED
      BY <2>1, <2>2, <2>3 DEF AllowancePays
  <1> QED
    BY <1>2, <1>3

\* A mint takes from nobody, a burn from the account that burns.
LEMMA BurnerPays ==
    ASSUME TokenInv, NEW a \in Accounts, NEW n \in Nat,
           CreateShares(a, n) \/ DestroyShares(a, n),
           NEW u \in Accounts, shares'[u] < shares[u]
    PROVE  u = a /\ ~CreateShares(a, n)
  <1>1. shares \in [Accounts -> Nat]
    BY DEF TokenInv
  <1>2. ~CreateShares(a, n)
    BY <1>1 DEF CreateShares
  <1>3. u = a
    BY <1>1, <1>2 DEF DestroyShares
  <1> QED
    BY <1>2, <1>3

\* Of the calls of holders those that lower a balance are its owner's, or paid for by an allowance.
LEMMA HolderStepConsents ==
    ASSUME LidoInv, HolderStep, NEW u \in Users, shares'[u] < shares[u]
    PROVE  OwnStep(u) \/ AllowancePays(u)
  <1>0. /\ Users \subseteq Accounts /\ Recipients \subseteq Accounts
        /\ Queue \in Accounts /\ EtherAmounts \cup RequestAmounts \cup TransferAmounts \subseteq Nat
        /\ shares[u] \in Nat
    BY LidoAssumption DEF LidoInv, TokenInv
  <1>1. PICK v \in Users :
          \/ \E value \in EtherAmounts : Submit(v, value)
          \/ \E amount \in RequestAmounts : RequestWithdrawal(v, amount)
          \/ \E to \in Recipients, amount \in TransferAmounts :
                \/ Transfer(v, to, amount)
                \/ TransferShares(v, to, amount)
                \/ \E from \in Users :
                      \/ TransferFrom(v, from, to, amount)
                      \/ TransferSharesFrom(v, from, to, amount)
          \/ \E spender \in Recipients, amount \in AllowanceAmounts :
                \/ Approve(v, spender, amount)
                \/ IncreaseAllowance(v, spender, amount)
                \/ DecreaseAllowance(v, spender, amount)
    BY DEF HolderStep
  <1>2. ASSUME NEW value \in EtherAmounts, Submit(v, value)
        PROVE  FALSE
    <2>1. getSharesByPooledEth(value, ShareRate) \in Nat
      BY <1>0, <1>2, RateType, SharesNat DEF Submit, CanBuyShares
    <2>2. CreateShares(v, getSharesByPooledEth(value, ShareRate))
      BY <1>2 DEF Submit
    <2>3. shares' = [shares EXCEPT ![v] = @ + getSharesByPooledEth(value, ShareRate)]
      BY <2>2 DEF CreateShares
    <2>4. shares \in [Accounts -> Nat]
      BY DEF LidoInv, TokenInv
    <2> HIDE DEF getSharesByPooledEth
    <2> QED
      BY <1>0, <2>1, <2>3, <2>4
  <1>3. ASSUME NEW amount \in RequestAmounts, RequestWithdrawal(v, amount)
        PROVE  AllowancePays(u)
    BY <1>0, <1>3, SpenderPays DEF RequestWithdrawal
  <1>4. ASSUME NEW to \in Recipients, NEW amount \in TransferAmounts,
               Transfer(v, to, amount) \/ TransferShares(v, to, amount)
        PROVE  OwnStep(u)
    <2>1. CASE Transfer(v, to, amount)
      <3>1. getSharesByPooledEth(amount, ShareRate) \in Nat
        BY <1>0, <2>1, RateType, SharesNat DEF Transfer, DoTransfer, CanBuyShares
      <3>2. MoveShares(v, to, getSharesByPooledEth(amount, ShareRate))
        BY <2>1 DEF Transfer, DoTransfer
      <3>3. u = v
        BY <1>0, <3>1, <3>2, MoverPays DEF LidoInv
      <3> QED
        BY <2>1, <3>3 DEF OwnStep
    <2>2. CASE TransferShares(v, to, amount)
      <3>1. u = v
        BY <1>0, <2>2, MoverPays DEF LidoInv, TransferShares, DoTransferShares
      <3> QED
        BY <2>2, <3>1 DEF OwnStep
    <2> QED
      BY <1>4, <2>1, <2>2
  <1>5. ASSUME NEW to \in Recipients, NEW amount \in TransferAmounts, NEW from \in Users,
               TransferFrom(v, from, to, amount) \/ TransferSharesFrom(v, from, to, amount)
        PROVE  AllowancePays(u)
    BY <1>0, <1>5, SpenderPays DEF TransferFrom, TransferSharesFrom
  <1>6. ASSUME NEW spender \in Recipients, NEW amount \in AllowanceAmounts,
               \/ Approve(v, spender, amount)
               \/ IncreaseAllowance(v, spender, amount)
               \/ DecreaseAllowance(v, spender, amount)
        PROVE  FALSE
    <2>1. shares' = shares
      BY <1>6 DEF Approve, IncreaseAllowance, DecreaseAllowance, DoApprove,
         DoIncreaseAllowance, DoDecreaseAllowance
    <2> QED
      BY <1>0, <2>1
  <1> QED
    BY <1>1, <1>2, <1>3, <1>4, <1>5, <1>6

\* Shares leave a holder in the holder's own transfers or for an allowance.
THEOREM Consent == Spec => HoldersConsent
  <1>1. ASSUME LidoInv, [Next]_vars, NEW u \in Users, shares'[u] < shares[u]
        PROVE  OwnStep(u) \/ AllowancePays(u)
    <2>0. /\ Users \subseteq Accounts /\ {Queue, Burner, VaultHub} \subseteq Accounts
          /\ ShareAmounts \subseteq Nat /\ FeeShares \subseteq Nat
          /\ u \notin {Burner, VaultHub} /\ shares[u] \in Nat /\ shares[Burner] \in Nat
          /\ sharesToBurn \in Nat
      BY <1>1, LidoAssumption, HolderAssumption DEF LidoInv, TokenInv, OutsideInv
    <2>1. shares' # shares
      BY <1>1, <2>0
    <2>2. Next
      BY <1>1, <2>1 DEF vars, tokenVars
    <2>3. CASE HolderStep
      BY <1>1, <2>3, HolderStepConsents
    <2>4. CASE ReportStep
      <3>1. CASE RequestBurn
        BY <1>1, <2>0, <3>1, SpenderPays DEF RequestBurn
      <3>2. CASE \E v \in Users, amount \in FeeShares : MintShares(v, amount)
        <4>1. PICK v \in Users, amount \in FeeShares : CreateShares(v, amount)
          BY <3>2 DEF MintShares
        <4>2. shares' = [shares EXCEPT ![v] = @ + amount]
          BY <4>1 DEF CreateShares
        <4>3. shares \in [Accounts -> Nat] /\ amount \in Nat
          BY <1>1, <2>0 DEF LidoInv, TokenInv
        <4> QED
          BY <1>1, <2>0, <4>2, <4>3
      <3>3. CASE \E amount \in 1..shares[Burner] : BurnShares(amount)
        <4>1. PICK amount \in Nat : DestroyShares(Burner, amount)
          BY <2>0, <3>3 DEF BurnShares
        <4> QED
          BY <1>1, <2>0, <4>1, BurnerPays DEF LidoInv
      <3> QED
        BY <2>1, <2>4, <3>1, <3>2, <3>3 DEF ReportStep, ProcessClStateUpdate,
           InternalizeExternalBadDebt, CollectRewardsAndProcessWithdrawals, tokenVars
    <2>5. CASE VaultStep
      <3>1. PICK amount \in ShareAmounts :
               \/ \E v \in Users : MintExternalShares(v, amount)
               \/ BurnExternalShares(amount)
               \/ \E value \in 1..MaxEther : RebalanceExternalEtherToInternal(value, amount)
        BY <2>5 DEF VaultStep
      <3>2. ~ \E value \in 1..MaxEther : RebalanceExternalEtherToInternal(value, amount)
        BY <2>1 DEF RebalanceExternalEtherToInternal, tokenVars
      <3>3. \/ \E v \in Users : CreateShares(v, amount)
            \/ DestroyShares(VaultHub, amount)
        BY <3>1, <3>2 DEF MintExternalShares, BurnExternalShares
      <3> QED
        BY <1>1, <2>0, <3>3, BurnerPays DEF LidoInv
    <2>6. ~ ((\E amount \in DepositAmounts : WithdrawDepositableEther(amount))
             \/ GovernanceStep \/ NextBlock \/ NextFrame \/ ReportBunkerMode)
      BY <2>1 DEF WithdrawDepositableEther, GovernanceStep, Stop, ResumeProtocol,
         PauseStaking, ResumeStaking, SetStakingLimit, RemoveStakingLimit,
         SetMaxExternalRatioBP, SetDepositsReserveTarget, NextBlock, NextFrame,
         ReportBunkerMode, UnchangedButStaking, tokenVars
    <2> QED
      BY <2>2, <2>3, <2>4, <2>5, <2>6 DEF Next
  <1>2. LidoInv /\ [Next]_vars =>
          [\A u \in Users : shares'[u] < shares[u] =>
             \/ OwnStep(u)
             \/ \E s \in Accounts :
                   \/ allowances[u][s] = INFINITE_ALLOWANCE
                   \/ allowances[u][s] - allowances'[u][s] >=
                        getPooledEthByShares(shares[u] - shares'[u], ShareRate)]_vars
    BY <1>1 DEF AllowancePays
  <1> QED
    BY <1>2, LidoInvariant, PTL DEF HoldersConsent, Spec

-----------------------------------------------------------------------------
(* The staking limit is a token bucket                                     *)

\* In the block of the last use the derived limit is the stored one.
LEMMA LevelAtUse ==
    ASSUME NEW d \in StakeLimitData, NEW b \in Nat, d.prevStakeBlockNumber = b
    PROVE  calculateCurrentStakeLimit(d, b) = d.prevStakeLimit
  <1>1. /\ d.prevStakeLimit \in Nat /\ d.maxStakeLimit \in Nat
        /\ d.maxStakeLimitGrowthBlocks \in Nat
    BY StakeLimitAssumption DEF StakeLimitData
  <1>2. IncPerBlock(d) \in Nat
    BY <1>1, DivBelow DEF IncPerBlock
  <1>3. (b - d.prevStakeBlockNumber) * IncPerBlock(d) = 0
    BY <1>2
  <1> QED
    BY <1>1, <1>3 DEF calculateCurrentStakeLimit

\* The limit at any block fits its slot.
LEMMA LevelFits ==
    ASSUME NEW d \in StakeLimitData, NEW b \in Nat, d.prevStakeBlockNumber <= b
    PROVE  calculateCurrentStakeLimit(d, b) \in 0..Uint96Max
  <1>1. /\ d.prevStakeLimit \in 0..Uint96Max /\ d.maxStakeLimit \in 0..Uint96Max
        /\ d.maxStakeLimitGrowthBlocks \in Nat
        /\ b - d.prevStakeBlockNumber \in Nat
        /\ Uint96Max \in Nat
    BY StakeLimitAssumption DEF StakeLimitData
  <1>2. IncPerBlock(d) \in Nat
    BY <1>1, DivBelow DEF IncPerBlock
  <1>3. (b - d.prevStakeBlockNumber) * IncPerBlock(d) \in Nat
    BY <1>1, <1>2
  <1> QED
    BY <1>1, <1>3 DEF calculateCurrentStakeLimit

\* A block later it is one refill further.
LEMMA LevelNextBlock ==
    ASSUME NEW d \in StakeLimitData, NEW b \in Nat, d.prevStakeBlockNumber <= b,
           NEW c, c = b + 1
    PROVE  calculateCurrentStakeLimit(d, c) =
             LET l == calculateCurrentStakeLimit(d, b)
             IN  IF l < d.maxStakeLimit
                 THEN IF l + IncPerBlock(d) < d.maxStakeLimit
                      THEN l + IncPerBlock(d) ELSE d.maxStakeLimit
                 ELSE IF l >= d.maxStakeLimit + IncPerBlock(d)
                      THEN l - IncPerBlock(d) ELSE d.maxStakeLimit
  <1>1. /\ d.prevStakeLimit \in Nat /\ d.maxStakeLimit \in Nat
        /\ d.maxStakeLimitGrowthBlocks \in Nat
        /\ d.prevStakeBlockNumber \in Nat
    BY StakeLimitAssumption DEF StakeLimitData
  <1>2. IncPerBlock(d) \in Nat
    BY <1>1, DivBelow DEF IncPerBlock
  <1> DEFINE inc == IncPerBlock(d)
             change == (b - d.prevStakeBlockNumber) * inc
             next == (c - d.prevStakeBlockNumber) * inc
             prev == d.prevStakeLimit
             max == d.maxStakeLimit
             l == calculateCurrentStakeLimit(d, b)
             n == calculateCurrentStakeLimit(d, c)
  <1>3. change \in Nat /\ next = change + inc
    BY <1>1, <1>2
  <1>4. l = IF prev < max
            THEN IF prev + change < max THEN prev + change ELSE max
            ELSE IF prev - change > max THEN prev - change ELSE max
    BY DEF calculateCurrentStakeLimit
  <1>5. n = IF prev < max
            THEN IF prev + next < max THEN prev + next ELSE max
            ELSE IF prev - next > max THEN prev - next ELSE max
    BY DEF calculateCurrentStakeLimit
  <1>6. inc \in Nat /\ prev \in Nat /\ max \in Nat
    BY <1>1, <1>2
  <1> SUFFICES n = IF l < max
                   THEN IF l + inc < max THEN l + inc ELSE max
                   ELSE IF l >= max + inc THEN l - inc ELSE max
    OBVIOUS
  <1> HIDE DEF inc, change, next, prev, max, l, n
  <1> QED
    BY <1>3, <1>4, <1>5, <1>6

-----------------------------------------------------------------------------
(* Every step is a step of the bucket                                      *)

BucketStep == [Bucket!Next]_(Bucket!vars)

\* Without the slot and the block the bucket is as it was.
LEMMA BucketStutters ==
    ASSUME UNCHANGED <<stakeLimit, blockNumber>>
    PROVE  BucketStep
  BY DEF BucketStep, Bucket!vars, Level, IncPerBlock, isStakingPaused,
     isStakingLimitSet, calculateCurrentStakeLimit

\* A use of the limit stores a level and the block.
LEMMA BucketAfterUse ==
    ASSUME StakeInv, StakeInv', NEW n \in Nat, UpdatePrevStakeLimit(n),
           isStakingLimitSet(stakeLimit), blockNumber' = blockNumber
    PROVE  /\ n \in 0..Uint96Max
           /\ ~isStakingPaused(stakeLimit) /\ ~isStakingPaused(stakeLimit')
           /\ stakeLimit'.maxStakeLimit = stakeLimit.maxStakeLimit
           /\ IncPerBlock(stakeLimit') = IncPerBlock(stakeLimit)
           /\ stakeLimit'.prevStakeLimit = n
           /\ Level = calculateCurrentStakeLimit(stakeLimit, blockNumber)
           /\ Level' = n
  <1>0. stakeLimit \in StakeLimitData /\ stakeLimit' \in StakeLimitData
        /\ blockNumber \in 1..MaxBlocks
    BY DEF StakeInv, StakeTypeOK
  <1>1. /\ n \in 0..Uint96Max
        /\ ~isStakingPaused(stakeLimit)
        /\ stakeLimit' = [stakeLimit EXCEPT !.prevStakeLimit = n,
                                            !.prevStakeBlockNumber = blockNumber]
    BY StakeLimitAssumption DEF UpdatePrevStakeLimit
  <1>2. /\ stakeLimit'.prevStakeLimit = n
        /\ stakeLimit'.prevStakeBlockNumber = blockNumber
        /\ stakeLimit'.maxStakeLimit = stakeLimit.maxStakeLimit
        /\ stakeLimit'.maxStakeLimitGrowthBlocks = stakeLimit.maxStakeLimitGrowthBlocks
    BY <1>0, <1>1 DEF StakeLimitData
  <1>3. ~isStakingPaused(stakeLimit') /\ isStakingLimitSet(stakeLimit')
    BY <1>0, <1>2 DEF isStakingPaused, isStakingLimitSet
  <1>4. IncPerBlock(stakeLimit') = IncPerBlock(stakeLimit)
    BY <1>2 DEF IncPerBlock
  <1>5. Level = calculateCurrentStakeLimit(stakeLimit, blockNumber)
    BY <1>1 DEF Level
  <1>6. calculateCurrentStakeLimit(stakeLimit', blockNumber) = n
    BY <1>0, <1>2, LevelAtUse
  <1>7. Level' = calculateCurrentStakeLimit(stakeLimit', blockNumber')
    BY <1>3 DEF Level
  <1> QED
    BY <1>1, <1>2, <1>3, <1>4, <1>5, <1>6, <1>7

\* Every change of the slot is a step of the bucket at the level computed from it.
LEMMA BucketSteps ==
    ASSUME StakeInv, StakeInv', StakeStep
    PROVE  BucketStep
  <1>0. /\ stakeLimit \in StakeLimitData /\ stakeLimit' \in StakeLimitData
        /\ blockNumber \in 1..MaxBlocks
        /\ stakeLimit.prevStakeBlockNumber <= blockNumber
        /\ Uint96Max \in Nat
        /\ calculateCurrentStakeLimit(stakeLimit, blockNumber) \in Nat
    BY CurrentLimitType, StakeLimitAssumption DEF StakeInv, StakeTypeOK
  <1>1. CASE UNCHANGED <<stakeVars, active>>
    BY <1>1, BucketStutters DEF stakeVars
  <1>2. CASE \E n \in Nat : DecreaseStakingLimit(n)
    <2>1. PICK n \in Nat : DecreaseStakingLimit(n)
      BY <1>2
    <2>2. CASE UNCHANGED stakeLimit
      BY <2>1, <2>2, BucketStutters DEF DecreaseStakingLimit
    <2>3. CASE /\ isStakingLimitSet(stakeLimit)
               /\ n <= calculateCurrentStakeLimit(stakeLimit, blockNumber)
               /\ UpdatePrevStakeLimit(calculateCurrentStakeLimit(stakeLimit, blockNumber) - n)
      <3> DEFINE l == calculateCurrentStakeLimit(stakeLimit, blockNumber)
      <3>0. l \in 0..Uint96Max
        BY <1>0, LevelFits
      <3>1. l - n \in Nat /\ n \in 0..Uint96Max
        BY <1>0, <2>3, <3>0
      <3>2. blockNumber' = blockNumber
        BY <2>1 DEF DecreaseStakingLimit
      <3>3. /\ ~isStakingPaused(stakeLimit) /\ ~isStakingPaused(stakeLimit')
            /\ stakeLimit'.maxStakeLimit = stakeLimit.maxStakeLimit
            /\ IncPerBlock(stakeLimit') = IncPerBlock(stakeLimit)
            /\ stakeLimit'.prevStakeLimit = l - n
            /\ Level = l
            /\ Level' = l - n
        BY <2>3, <3>1, <3>2, BucketAfterUse
      <3> HIDE DEF l
      <3>4. Bucket!Take(n)
        BY <2>3, <3>3 DEF Bucket!Take, Bucket!Limited, isStakingLimitSet, l
      <3> QED
        BY <3>1, <3>4 DEF BucketStep, Bucket!Next
    <2> QED
      BY <2>1, <2>2, <2>3 DEF DecreaseStakingLimit
  <1>3. CASE \E n \in Nat : IncreaseStakingLimit(n)
    <2>1. PICK n \in Nat : IncreaseStakingLimit(n)
      BY <1>3
    <2>2. CASE UNCHANGED stakeLimit
      BY <2>1, <2>2, BucketStutters DEF IncreaseStakingLimit
    <2>3. CASE /\ isStakingLimitSet(stakeLimit)
               /\ UpdatePrevStakeLimit(calculateCurrentStakeLimit(stakeLimit, blockNumber) + n)
      <3> DEFINE l == calculateCurrentStakeLimit(stakeLimit, blockNumber)
      <3>1. l + n \in Nat
        BY <1>0
      <3>2. blockNumber' = blockNumber
        BY <2>1 DEF IncreaseStakingLimit
      <3>3. /\ l + n \in 0..Uint96Max
            /\ ~isStakingPaused(stakeLimit) /\ ~isStakingPaused(stakeLimit')
            /\ stakeLimit'.maxStakeLimit = stakeLimit.maxStakeLimit
            /\ IncPerBlock(stakeLimit') = IncPerBlock(stakeLimit)
            /\ stakeLimit'.prevStakeLimit = l + n
            /\ Level = l
            /\ Level' = l + n
        BY <2>3, <3>1, <3>2, BucketAfterUse
      <3>4. n \in 0..Uint96Max
        BY <1>0, <3>3
      <3> HIDE DEF l
      <3>5. Bucket!PutBack(n)
        BY <2>3, <3>3 DEF Bucket!PutBack, Bucket!Limited, isStakingLimitSet
      <3> QED
        BY <3>4, <3>5 DEF BucketStep, Bucket!Next
    <2> QED
      BY <2>1, <2>2, <2>3 DEF IncreaseStakingLimit
  <1>4. CASE DoPauseStaking
    <2>1. stakeLimit' = [stakeLimit EXCEPT !.prevStakeBlockNumber = 0]
      BY <1>4 DEF DoPauseStaking
    <2>2. /\ stakeLimit'.prevStakeBlockNumber = 0
          /\ stakeLimit'.prevStakeLimit = stakeLimit.prevStakeLimit
          /\ stakeLimit'.maxStakeLimit = stakeLimit.maxStakeLimit
          /\ stakeLimit'.maxStakeLimitGrowthBlocks = stakeLimit.maxStakeLimitGrowthBlocks
      BY <1>0, <2>1 DEF StakeLimitData
    <2>3. IncPerBlock(stakeLimit') = IncPerBlock(stakeLimit)
      BY <2>2 DEF IncPerBlock
    <2>4. isStakingPaused(stakeLimit') /\ Level' = stakeLimit'.prevStakeLimit
      BY <2>2 DEF isStakingPaused, Level
    <2>5. Bucket!Close
      BY <2>2, <2>3, <2>4 DEF Bucket!Close
    <2> QED
      BY <2>5 DEF BucketStep, Bucket!Next
  <1>5. CASE isStakingPaused(stakeLimit) /\ DoResumeStaking
    <2>1. stakeLimit' = [stakeLimit EXCEPT !.prevStakeBlockNumber = blockNumber]
          /\ blockNumber' = blockNumber
      BY <1>5 DEF DoResumeStaking
    <2>2. /\ stakeLimit'.prevStakeBlockNumber = blockNumber
          /\ stakeLimit'.prevStakeLimit = stakeLimit.prevStakeLimit
          /\ stakeLimit'.maxStakeLimit = stakeLimit.maxStakeLimit
          /\ stakeLimit'.maxStakeLimitGrowthBlocks = stakeLimit.maxStakeLimitGrowthBlocks
      BY <1>0, <2>1 DEF StakeLimitData
    <2>3. IncPerBlock(stakeLimit') = IncPerBlock(stakeLimit)
      BY <2>2 DEF IncPerBlock
    <2>4. ~isStakingPaused(stakeLimit')
      BY <1>0, <2>2 DEF isStakingPaused
    <2>5. calculateCurrentStakeLimit(stakeLimit', blockNumber') = stakeLimit'.prevStakeLimit
      <3>1. /\ blockNumber' \in Nat
            /\ stakeLimit'.prevStakeBlockNumber = blockNumber'
        BY <1>0, <2>1, <2>2
      <3> QED
        BY <1>0, <3>1, LevelAtUse
    <2>6. Level' = stakeLimit'.prevStakeLimit
      BY <2>5 DEF Level
    <2>7. Bucket!Reopen
      BY <1>5, <2>2, <2>3, <2>4, <2>6 DEF Bucket!Reopen
    <2> QED
      BY <2>7 DEF BucketStep, Bucket!Next
  <1>6. CASE \E n \in Nat, inc \in Nat : DoSetStakingLimit(n, inc)
    <2>1. PICK n \in Nat, inc \in Nat : DoSetStakingLimit(n, inc)
      BY <1>6
    <2>2. n \in 0..Uint96Max /\ n # 0 /\ blockNumber' = blockNumber
      BY <1>0, <2>1 DEF DoSetStakingLimit
    <2>3. /\ stakeLimit'.prevStakeBlockNumber =
               IF isStakingPaused(stakeLimit) THEN 0 ELSE blockNumber
          /\ stakeLimit'.maxStakeLimit = n
          /\ \/ /\ stakeLimit.prevStakeLimit <= n
                /\ stakeLimit'.prevStakeLimit = stakeLimit.prevStakeLimit
             \/ stakeLimit'.prevStakeLimit = n
      BY <1>0, <2>1 DEF DoSetStakingLimit, StakeLimitData
    <2>4. isStakingPaused(stakeLimit') <=> isStakingPaused(stakeLimit)
      BY <1>0, <2>3 DEF isStakingPaused
    <2>5. Level' = stakeLimit'.prevStakeLimit
      <3>1. CASE isStakingPaused(stakeLimit)
        BY <2>4, <3>1 DEF Level
      <3>2. CASE ~isStakingPaused(stakeLimit)
        <4>1. calculateCurrentStakeLimit(stakeLimit', blockNumber')
                = stakeLimit'.prevStakeLimit
          BY <1>0, <2>2, <2>3, <3>2, LevelAtUse
        <4> QED
          BY <4>1 DEF Level
      <3> QED
        BY <3>1, <3>2
    <2>6. IncPerBlock(stakeLimit') \in 0..Uint96Max
      <3>1. stakeLimit'.maxStakeLimit \in 0..Uint96Max
            /\ stakeLimit'.maxStakeLimitGrowthBlocks \in Nat
        BY <1>0, StakeLimitAssumption DEF StakeLimitData
      <3>2. \A a \in Nat, b \in Nat \ {0} : a \div b \in Nat /\ a \div b <= a
        BY SMT
      <3> QED
        BY <1>0, <3>1, <3>2 DEF IncPerBlock
    <2>7. Bucket!Configure(n, IncPerBlock(stakeLimit'))
      BY <2>2, <2>3, <2>4, <2>5 DEF Bucket!Configure
    <2> QED
      BY <2>2, <2>6, <2>7 DEF BucketStep, Bucket!Next
  <1>7. CASE DoRemoveStakingLimit
    <2>1. stakeLimit' = [stakeLimit EXCEPT !.maxStakeLimit = 0]
      BY <1>7 DEF DoRemoveStakingLimit
    <2>2. /\ stakeLimit'.prevStakeBlockNumber = stakeLimit.prevStakeBlockNumber
          /\ stakeLimit'.prevStakeLimit = stakeLimit.prevStakeLimit
          /\ stakeLimit'.maxStakeLimit = 0
          /\ stakeLimit'.maxStakeLimitGrowthBlocks \in Nat
      BY <1>0, <2>1, StakeLimitAssumption DEF StakeLimitData
    <2>3. IncPerBlock(stakeLimit') = 0
      <3>1. \A b \in Nat \ {0} : 0 \div b = 0
        BY SMT
      <3> QED
        BY <2>2, <3>1 DEF IncPerBlock
    <2>4. ~isStakingLimitSet(stakeLimit')
      BY <2>2 DEF isStakingLimitSet
    <2>5. Level' = stakeLimit'.prevStakeLimit
      BY <2>4 DEF Level
    <2>6. isStakingPaused(stakeLimit') = isStakingPaused(stakeLimit)
      BY <2>2 DEF isStakingPaused
    <2>7. Bucket!Unlimit
      BY <2>2, <2>3, <2>5, <2>6 DEF Bucket!Unlimit
    <2> QED
      BY <2>7 DEF BucketStep, Bucket!Next
  <1>8. CASE DoNextBlock
    <2>1. stakeLimit' = stakeLimit /\ blockNumber' = blockNumber + 1
      BY <1>8 DEF DoNextBlock
    <2> DEFINE l == calculateCurrentStakeLimit(stakeLimit, blockNumber)
               n == calculateCurrentStakeLimit(stakeLimit, blockNumber')
               running == ~isStakingPaused(stakeLimit) /\ isStakingLimitSet(stakeLimit)
    <2>2. /\ Level = IF running THEN l ELSE stakeLimit.prevStakeLimit
          /\ Level' = IF running THEN n ELSE stakeLimit.prevStakeLimit
      BY <2>1 DEF Level
    <2>3. n = Bucket!OneBlock(l)
      BY <1>0, <2>1, LevelNextBlock DEF Bucket!OneBlock
    <2>4. running <=> ~isStakingPaused(stakeLimit) /\ Bucket!Limited
      BY DEF Bucket!Limited, isStakingLimitSet
    <2> HIDE DEF l, n, running
    <2>5. Bucket!NextBlock
      BY <2>1, <2>2, <2>3, <2>4 DEF Bucket!NextBlock
    <2> QED
      BY <2>5 DEF BucketStep, Bucket!Next
  <1> QED
    BY <1>1, <1>2, <1>3, <1>4, <1>5, <1>6, <1>7, <1>8 DEF StakeStep

-----------------------------------------------------------------------------
\* The staking limit is a token bucket, for any limits, amounts and number of
\* blocks between two uses.
THEOREM ImplementsBucket == Spec => BucketSpec
  <1>1. Init => Bucket!Init
    <2> SUFFICES ASSUME Init PROVE Bucket!Init
      OBVIOUS
    <2>1. stakeLimit = [prevStakeBlockNumber |-> 0, prevStakeLimit |-> 0,
                        maxStakeLimitGrowthBlocks |-> 0, maxStakeLimit |-> 0]
      BY DEF Init, StakeInit
    <2>2. /\ isStakingPaused(stakeLimit) /\ IncPerBlock(stakeLimit) = 0
          /\ stakeLimit.maxStakeLimit = 0 /\ stakeLimit.prevStakeLimit = 0
      BY <2>1 DEF isStakingPaused, IncPerBlock
    <2> QED
      BY <2>2 DEF Bucket!Init, Level
  <1>2. LidoInv /\ LidoInv' /\ [Next]_vars => [Bucket!Next]_(Bucket!vars)
    <2> SUFFICES ASSUME LidoInv, LidoInv', [Next]_vars PROVE BucketStep
      BY DEF BucketStep
    <2>1. CASE Next
      BY <2>1, StakeSteps, BucketSteps DEF LidoInv
    <2>2. CASE UNCHANGED vars
      BY <2>2, BucketStutters DEF vars, stakeVars
    <2> QED
      BY <2>1, <2>2
  <1> QED
    BY <1>1, <1>2, LidoInvariant, PTL DEF Spec, BucketSpec, Bucket!Spec
=============================================================================
